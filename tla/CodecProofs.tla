----------------------------- MODULE CodecProofs -----------------------------
(***************************************************************************)
(* Theorems about Codec and PacketJourney: the conversions lose nothing,   *)
(* two carries are enough for csum, the keys of both endpoints agree, both *)
(* ends are in the flow's entry of roulette, payloads arrive, and the      *)
(* datagrams that the egress forges are accepted.                          *)
(***************************************************************************)
EXTENDS PacketJourney, SequenceTheorems, FiniteSetTheorems, WellFoundedInduction, TLAPS

-----------------------------------------------------------------------------
(* Numbers as their bytes and halves. *)

Word == {x \in Nat : x < 4294967296}

\* A 16-bit integer is two bytes.
LEMMA HalfBytes == \A x \in Half : \E q, r \in Byte : x = 256 * q + r
<1> SUFFICES ASSUME NEW x \in Half
             PROVE  \E q, r \in Byte : x = 256 * q + r
  OBVIOUS
<1>1. x \div 256 \in Nat /\ x % 256 \in 0 .. 255 /\ x = 256 * (x \div 256) + (x % 256)
  BY DEF Half
<1>2. x \div 256 \in 0 .. 255
  BY <1>1 DEF Half
<1> QED
  BY <1>1, <1>2 DEF Byte

\* A 32-bit integer is two 16-bit ones.
LEMMA WordHalves == \A s \in Word : \E hi, lo \in Half : s = 65536 * hi + lo
<1> SUFFICES ASSUME NEW s \in Word
             PROVE  \E hi, lo \in Half : s = 65536 * hi + lo
  OBVIOUS
<1>1. s \div 65536 \in Nat /\ s % 65536 \in Half /\ s = 65536 * (s \div 65536) + (s % 65536)
  BY DEF Half, Word
<1>2. s \div 65536 \in Half
  BY <1>1 DEF Half, Word
<1> QED
  BY <1>1, <1>2

\* Two bytes are a 16-bit integer.
LEMMA TwoBytes == \A q, r \in Byte : 256 * q + r \in Half
  BY DEF Byte, Half

\* Two 16-bit integers are one of 32 bits.
LEMMA TwoHalves == \A hi, lo \in Half : 65536 * hi + lo \in Word
  BY DEF Half, Word

-----------------------------------------------------------------------------
(* The conversions. *)

\* htons exchanges the two bytes.
LEMMA SwapBytes == \A q, r \in Byte : Swap(256 * q + r) = 256 * r + q
<1> SUFFICES ASSUME NEW q \in Byte, NEW r \in Byte
             PROVE  Swap(256 * q + r) = 256 * r + q
  OBVIOUS
<1>1. (256 * q + r) % 256 = r
  BY DEF Byte
<1>2. (256 * q + r) \div 256 = q
  BY DEF Byte
<1> QED
  BY <1>1, <1>2 DEF Swap, Byte

\* htons gives a number of 16 bits, and undoes itself.
LEMMA SwapTwice == \A x \in Half : Swap(x) \in Half /\ Swap(Swap(x)) = x
<1> SUFFICES ASSUME NEW x \in Half
             PROVE  Swap(x) \in Half /\ Swap(Swap(x)) = x
  OBVIOUS
<1>1. PICK q \in Byte, r \in Byte : x = 256 * q + r
  BY HalfBytes
<1>2. Swap(x) = 256 * r + q /\ Swap(256 * r + q) = 256 * q + r
  BY <1>1, SwapBytes
<1> QED
  BY <1>1, <1>2, TwoBytes

\* The four numbers of the text of an address.
LEMMA IpBytes ==
    ASSUME NEW a \in Byte, NEW b \in Byte, NEW c \in Byte, NEW d \in Byte
    PROVE  IntToIp(65536 * (256 * d + c) + (256 * b + a)) = <<a, b, c, d>>
<1> DEFINE n == 65536 * (256 * d + c) + (256 * b + a)
<1>1. n % 256 = a
  <2>1. n = 256 * (256 * (256 * d + c) + b) + a
    BY DEF Byte
  <2> QED
    BY <2>1 DEF Byte
<1>2. (n \div 256) % 256 = b
  <2>1. n \div 256 = 256 * (256 * d + c) + b
    BY DEF Byte
  <2> QED
    BY <2>1 DEF Byte
<1>3. (n \div 65536) % 256 = c
  <2>1. n \div 65536 = 256 * d + c
    BY DEF Byte
  <2> QED
    BY <2>1 DEF Byte
<1>4. n \div 16777216 = d
  BY DEF Byte
<1> QED
  BY <1>1, <1>2, <1>3, <1>4 DEF IntToIp

\* An address survives the way through its text (int_to_ip, ip_to_int).
LEMMA IpTwice == \A n \in Word : IntToIp(n) \in Ip /\ IpToInt(IntToIp(n)) = n
<1> SUFFICES ASSUME NEW n \in Word
             PROVE  IntToIp(n) \in Ip /\ IpToInt(IntToIp(n)) = n
  OBVIOUS
<1>1. PICK hi \in Half, lo \in Half : n = 65536 * hi + lo
  BY WordHalves
<1>2. PICK d \in Byte, c \in Byte : hi = 256 * d + c
  BY HalfBytes
<1>3. PICK b \in Byte, a \in Byte : lo = 256 * b + a
  BY HalfBytes
<1>4. IntToIp(n) = <<a, b, c, d>>
  BY <1>1, <1>2, <1>3, IpBytes
<1>5. <<a, b, c, d>> \in Ip
  BY DEF Ip
<1>6. IpToInt(<<a, b, c, d>>) = 65536 * (256 * d + c) + (256 * b + a)
  BY DEF IpToInt, Byte
<1> QED
  BY <1>1, <1>2, <1>3, <1>4, <1>5, <1>6

-----------------------------------------------------------------------------
(* The checksum. *)

\* What csum's two carries make of a sum (packetutils.cpp:101-102).
LEMMA FoldHalves ==
    \A hi, lo \in Half :
        Fold(65536 * hi + lo) = IF hi + lo < 65536 THEN hi + lo ELSE hi + lo - 65535
<1> SUFFICES ASSUME NEW hi \in Half, NEW lo \in Half
             PROVE  Fold(65536 * hi + lo)
                        = IF hi + lo < 65536 THEN hi + lo ELSE hi + lo - 65535
  OBVIOUS
<1>1. (65536 * hi + lo) \div 65536 = hi
  BY DEF Half
<1>2. (65536 * hi + lo) % 65536 = lo
  BY DEF Half
<1>3. CASE hi + lo < 65536
  <2>1. (hi + lo) \div 65536 = 0
    BY <1>3 DEF Half
  <2>2. (hi + lo) % 65536 = hi + lo
    BY <1>3 DEF Half
  <2> QED
    BY <1>1, <1>2, <1>3, <2>1, <2>2 DEF Fold, Half
<1>4. CASE hi + lo >= 65536
  <2>1. (hi + lo) \div 65536 = 1
    BY <1>4 DEF Half
  <2>2. (hi + lo + 1) % 65536 = hi + lo - 65535
    BY <1>4 DEF Half
  <2> QED
    BY <1>1, <1>2, <1>4, <2>1, <2>2 DEF Fold, Half
<1> QED
  BY <1>3, <1>4 DEF Half

\* Two carries are enough (packetutils.cpp:101-102): whatever the words of csum
\* add up to, what is left fits in 16 bits and is the sum in ones' complement,
\* equal to it but for a multiple of 65535, and zero only for zero.
THEOREM TwoCarriesAreEnough ==
    \A s \in Word : /\ Fold(s) \in Half
                    /\ \E k \in Nat : s = Fold(s) + 65535 * k
                    /\ Fold(s) = 0 => s = 0
<1> SUFFICES ASSUME NEW s \in Word
             PROVE  /\ Fold(s) \in Half
                    /\ \E k \in Nat : s = Fold(s) + 65535 * k
                    /\ Fold(s) = 0 => s = 0
  OBVIOUS
<1>1. PICK hi \in Half, lo \in Half : s = 65536 * hi + lo
  BY WordHalves
<1>2. CASE hi + lo < 65536
  <2>1. Fold(s) = hi + lo
    BY <1>1, <1>2, FoldHalves
  <2>2. s = (hi + lo) + 65535 * hi
    BY <1>1 DEF Half
  <2> QED
    BY <1>2, <2>1, <2>2, <1>1 DEF Half
<1>3. CASE ~ (hi + lo < 65536)
  <2>1. Fold(s) = hi + lo - 65535
    BY <1>1, <1>3, FoldHalves
  <2>2. s = (hi + lo - 65535) + 65535 * (hi + 1)
    BY <1>1 DEF Half
  <2> QED
    BY <1>3, <2>1, <2>2, <1>1 DEF Half
<1> QED
  BY <1>2, <1>3 DEF Half

-----------------------------------------------------------------------------
(* The headers of a packet. *)

\* The fields of a well-formed packet have the widths of their types.
LEMMA HeadersType ==
    ASSUME NEW b, IsPacket(b)
    PROVE  /\ Headers(b).saddr \in Word /\ Headers(b).daddr \in Word
           /\ Headers(b).source \in Half /\ Headers(b).dest \in Half
<1>1. b \in Seq(Byte) /\ Len(b) \in Nat /\ Len(b) > 27 /\ b[1] = 69
  BY DEF IsPacket, IpHdrLen, UdpHdrLen, TcpHdrLen
<1>2. \A i \in 1 .. 27 : b[i] \in Byte
  BY <1>1
<1>3. IpLen(b) = 20
  BY <1>1 DEF IpLen
<1>4. \A i \in 0 .. 25 : b[i + 1] \in Byte /\ b[i + 2] \in Byte
  BY <1>2
<1>5. \A i \in 0 .. 25 : U16(b, i) \in Half
  <2> SUFFICES ASSUME NEW i \in 0 .. 25
               PROVE  U16(b, i) \in Half
    OBVIOUS
  <2>1. PICK r \in Byte, q \in Byte : b[i + 1] = r /\ b[i + 2] = q
    BY <1>4
  <2>2. r + 256 * q = 256 * q + r
    BY DEF Byte
  <2> QED
    BY <2>1, <2>2, TwoBytes DEF U16
<1>6. \A i \in 0 .. 20 : U32(b, i) \in Word
  BY <1>5 DEF U32, Half, Word
<1> QED
  BY <1>3, <1>5, <1>6 DEF Headers

\* The key of a client's packet is a key.
LEMMA ClientKeyType ==
    ASSUME NEW b, IsPacket(b), Protocol(b) \in Known
    PROVE  ClientKey(b) \in Key
  BY HeadersType, IpTwice, SwapTwice, SfcMapAssumption DEF ClientKey, Key, ConnType

\* What the SFC header must have for a key.
HeaderOf(s, b, id) ==
    /\ s.p_id = id
    /\ s.source_address = Headers(b).saddr
    /\ s.destination_address = Headers(b).daddr
    /\ s.source_port = Headers(b).source
    /\ s.destination_port = Headers(b).dest

\* A header that create_header makes of the texts of the addresses keeps the
\* fields it is given, for every chain whose number fits in 24 bits.
LEMMA CreateHeaderKeeps ==
    ASSUME NEW id \in PathId, NEW sa \in Word, NEW da \in Word,
           NEW sp, NEW dp, NEW ttl \in Nat, NEW dir,
           NEW s, s = CreateHeader(id, IntToIp(sa), sp, IntToIp(da), dp, ttl, dir)
    PROVE  /\ s.p_id = id /\ s.ttl = ttl % 64
           /\ s.source_address = sa /\ s.destination_address = da
           /\ s.source_port = sp /\ s.destination_port = dp
<1>1. id % 16777216 = id
  BY DEF PathId
<1> QED
  BY <1>1, IpTwice DEF CreateHeader

\* The inductive invariant: the header that travels is that of the flow.
HeaderInv ==
    /\ origin \in Packets /\ IsPacket(pkt)
    /\ stage \in {"client", "chain", "destination"} => pkt = origin
    /\ stage \in {"chain", "destination"} => HeaderOf(sfc, origin, SfcMap[Protocol(origin)])
    /\ stage \in {"back", "delivered"} =>
           Protocol(pkt) \in Known /\ HeaderOf(sfc, origin, SfcMap[Protocol(pkt)])
    /\ stage # "client" => filed = ClientKey(origin)
    /\ stage \in {"destination", "delivered"} => looked = ChainKey(sfc, pkt)
    /\ stage \in {"chain", "destination", "back", "delivered"} =>
           path \in Nat /\ sfc.ttl = ((path + 2) % 65536) % 64

\* The key of a packet of the chain whose header is that of a client's packet.
LEMMA KeyOfHeader ==
    ASSUME NEW s, NEW b, NEW c, IsPacket(b), Protocol(c) \in Known,
           HeaderOf(s, b, SfcMap[Protocol(c)])
    PROVE  /\ ChainKey(s, c) \in Key
           /\ Protocol(c) = Protocol(b) => ChainKey(s, c) = ClientKey(b)
<1>1. ChainKey(s, c) \in Key
  BY HeadersType, IpTwice, SwapTwice, SfcMapAssumption DEF ChainKey, HeaderOf, Key, ConnType
<1>2. ASSUME Protocol(c) = Protocol(b) PROVE ChainKey(s, c) = ClientKey(b)
  BY <1>2 DEF ChainKey, ClientKey, HeaderOf
<1> QED
  BY <1>1, <1>2

IInv == TypeOK /\ HeaderInv

\* The initial states have the inductive invariant.
LEMMA InitIInv == Init => IInv
  BY PacketsAssumption DEF Init, IInv, TypeOK, HeaderInv

\* Entering at the ingress keeps it.
LEMMA EnterIInv == IInv /\ Enter => IInv'
<1> SUFFICES ASSUME IInv, Enter PROVE IInv'
  OBVIOUS
<1>1. /\ stage = "client" /\ pkt = origin /\ origin \in Packets /\ IsPacket(origin)
      /\ Protocol(origin) \in Known
  BY PacketsAssumption DEF Enter, IInv, HeaderInv
<1>2. filed' = ClientKey(origin) /\ filed' \in Key
  BY <1>1, ClientKeyType DEF Enter
<1>3. PICK n \in PathLens :
          /\ path' = n
          /\ IF n = 0
             THEN stage' = "discarded"
             ELSE /\ stage' = "chain"
                  /\ sfc' = CreateHeader(SfcMap[Protocol(origin)], IntToIp(Headers(origin).saddr),
                                         Headers(origin).source, IntToIp(Headers(origin).daddr),
                                         Headers(origin).dest, (n + 2) % 65536, 0)
  BY <1>1 DEF Enter
<1>4. UNCHANGED <<pkt, origin, looked, out>>
  BY DEF Enter
<1>5. n \in Nat /\ (n + 2) % 65536 \in Nat /\ ((n + 2) % 65536) % 64 \in 0 .. 63
  BY PathLensAssumption
<1>6. CASE n = 0
  BY <1>1, <1>2, <1>3, <1>4, <1>6 DEF IInv, TypeOK, HeaderInv
<1>7. CASE n # 0
  <2>1. stage' = "chain"
    BY <1>3, <1>7
  <2>2. SfcMap[Protocol(origin)] \in PathId
    BY <1>1, SfcMapAssumption
  <2>3. HeaderOf(sfc', origin, SfcMap[Protocol(origin)]) /\ sfc'.ttl = ((n + 2) % 65536) % 64
    BY <1>1, <1>3, <1>5, <1>7, <2>2, HeadersType, CreateHeaderKeeps DEF HeaderOf
  <2>4. /\ sfc'.p_id \in PathId /\ sfc'.ttl \in 0 .. 63
        /\ sfc'.source_port \in Half /\ sfc'.destination_port \in Half
    BY <1>1, <1>5, <2>2, <2>3, HeadersType DEF HeaderOf
  <2>5. TypeOK'
    BY <1>1, <1>2, <1>3, <1>4, <2>1, <2>4 DEF IInv, TypeOK
  <2>6. HeaderInv'
    BY <1>1, <1>2, <1>3, <1>4, <1>5, <2>1, <2>3 DEF HeaderInv
  <2> QED
    BY <2>5, <2>6 DEF IInv
<1> QED
  BY <1>6, <1>7

\* Leaving at the egress keeps it.
LEMMA ExitIInv == IInv /\ Exit => IInv'
<1> SUFFICES ASSUME IInv, Exit PROVE IInv'
  OBVIOUS
<1>1. /\ stage = "chain" /\ stage' = "destination" /\ pkt = origin /\ origin \in Packets
      /\ IsPacket(origin) /\ Protocol(origin) \in Known
      /\ HeaderOf(sfc, origin, SfcMap[Protocol(origin)])
  BY PacketsAssumption DEF Exit, IInv, HeaderInv
<1>2. looked' = ChainKey(sfc, pkt) /\ UNCHANGED <<pkt, origin, path, sfc, filed>>
  BY DEF Exit
<1>3. looked' \in Key
  BY <1>1, <1>2, KeyOfHeader
<1>4. TypeOK'
  BY <1>1, <1>2, <1>3 DEF IInv, TypeOK
<1>5. HeaderInv'
  BY <1>1, <1>2 DEF IInv, HeaderInv
<1> QED
  BY <1>4, <1>5 DEF IInv

\* An answer that enters at the egress keeps it.
LEMMA ReturnIInv == IInv /\ Return => IInv'
<1> SUFFICES ASSUME IInv, Return PROVE IInv'
  OBVIOUS
<1>1. /\ stage = "destination" /\ origin \in Packets /\ IsPacket(origin)
      /\ HeaderOf(sfc, origin, SfcMap[Protocol(origin)])
      /\ pkt' \in Answers(origin) /\ IsPacket(pkt')
      /\ UNCHANGED <<origin, filed, entry, looked, out>>
  BY PacketsAssumption, AnswersAssumption DEF Return, IInv, HeaderInv
<1>2. PICK n \in PathLens :
          /\ path' = n
          /\ IF Protocol(pkt') \notin Known
             THEN stage' = "terminate"
             ELSE IF n = 0
             THEN stage' = "discarded"
             ELSE /\ stage' = "back"
                  /\ sfc' = CreateHeader(SfcMap[Protocol(pkt')],
                                         IntToIp(sfc.source_address), sfc.source_port,
                                         IntToIp(sfc.destination_address), sfc.destination_port,
                                         (n + 2) % 65536, 1)
  BY DEF Return
<1>3. n \in Nat /\ (n + 2) % 65536 \in Nat /\ ((n + 2) % 65536) % 64 \in 0 .. 63
  BY PathLensAssumption
<1>4. CASE Protocol(pkt') \notin Known \/ n = 0
  <2>1. stage' \in {"terminate", "discarded"}
    BY <1>2, <1>4
  <2> QED
    BY <1>1, <1>2, <2>1 DEF IInv, TypeOK, HeaderInv
<1>5. CASE Protocol(pkt') \in Known /\ n # 0
  <2>1. stage' = "back"
    BY <1>2, <1>5
  <2>2. SfcMap[Protocol(pkt')] \in PathId
    BY <1>5, SfcMapAssumption
  <2>3. /\ sfc.source_address \in Word /\ sfc.destination_address \in Word
        /\ sfc.source_port \in Half /\ sfc.destination_port \in Half
    BY <1>1, HeadersType DEF HeaderOf
  <2>4. /\ sfc'.p_id = SfcMap[Protocol(pkt')] /\ sfc'.ttl = ((n + 2) % 65536) % 64
        /\ sfc'.source_address = sfc.source_address
        /\ sfc'.destination_address = sfc.destination_address
        /\ sfc'.source_port = sfc.source_port
        /\ sfc'.destination_port = sfc.destination_port
    BY <1>2, <1>3, <1>5, <2>2, <2>3, CreateHeaderKeeps
  <2>5. HeaderOf(sfc', origin, SfcMap[Protocol(pkt')])
    BY <1>1, <2>4 DEF HeaderOf
  <2>6. TypeOK'
    BY <1>1, <1>2, <1>3, <2>1, <2>2, <2>3, <2>4 DEF IInv, TypeOK
  <2>7. HeaderInv'
    BY <1>1, <1>2, <1>3, <1>5, <2>1, <2>4, <2>5 DEF IInv, HeaderInv
  <2> QED
    BY <2>6, <2>7 DEF IInv
<1> QED
  BY <1>4, <1>5

\* Delivering the answer keeps it.
LEMMA DeliverIInv == IInv /\ Deliver => IInv'
<1> SUFFICES ASSUME IInv, Deliver PROVE IInv'
  OBVIOUS
<1>1. /\ stage = "back" /\ stage' = "delivered" /\ origin \in Packets /\ IsPacket(origin)
      /\ Protocol(pkt) \in Known /\ HeaderOf(sfc, origin, SfcMap[Protocol(pkt)])
      /\ looked' = ChainKey(sfc, pkt) /\ UNCHANGED <<pkt, origin, path, sfc, filed, entry>>
  BY PacketsAssumption DEF Deliver, IInv, HeaderInv
<1>2. looked' \in Key
  BY <1>1, KeyOfHeader
<1>3. TypeOK'
  BY <1>1, <1>2 DEF IInv, TypeOK
<1>4. HeaderInv'
  BY <1>1 DEF IInv, HeaderInv
<1> QED
  BY <1>3, <1>4 DEF IInv

\* Every step keeps it.
LEMMA StepIInv == IInv /\ [Next]_vars => IInv'
<1>1. IInv /\ UNCHANGED vars => IInv'
  BY DEF IInv, TypeOK, HeaderInv, HeaderOf, ChainKey, vars
<1> QED
  BY <1>1, EnterIInv, ExitIInv, ReturnIInv, DeliverIInv DEF Next

\* The type invariant of a packet's journey, for any packets, answers, chains and
\* paths.
THEOREM TypeCorrect == Spec => []TypeOK
<1>1. IInv => TypeOK
  BY DEF IInv
<1> QED
  BY <1>1, InitIInv, StepIInv, PTL DEF Spec

\* The ingress files a flow under the key that the egress computes of the SFC
\* header, and looks it up under that key when the answer comes back
\* (ingress.cpp:206, egress.cpp:276), for every address, port and chain number.
THEOREM KeysAlwaysAgree == Spec => []KeysAgree
<1>1. IInv => KeysAgree
  BY KeyOfHeader, PacketsAssumption DEF IInv, HeaderInv, KeysAgree
<1> QED
  BY <1>1, InitIInv, StepIInv, PTL DEF Spec

\* The ttl of the SFC header allows for the path, ingress and egress as long as
\* its six bits hold the number (ingress.cpp:51, sfcheaderstruct.h:16).
THEOREM TtlSufficient == Spec => []TtlCoversPath
<1>1. IInv => TtlCoversPath
  <2> SUFFICES ASSUME IInv, stage \in {"chain", "back"}, path < 62
               PROVE  sfc.ttl = path + 2
    BY DEF TtlCoversPath
  <2>1. path \in Nat /\ sfc.ttl = ((path + 2) % 65536) % 64
    BY DEF IInv, HeaderInv
  <2>2. (path + 2) % 65536 = path + 2
    BY <2>1
  <2>3. (path + 2) % 64 = path + 2
    BY <2>1
  <2> QED
    BY <2>1, <2>2, <2>3
<1> QED
  BY <1>1, InitIInv, StepIInv, PTL DEF Spec

-----------------------------------------------------------------------------
(* The entry of the flow in roulette. *)

\* A query with one endpoint writes it under the names of its type.
LEMMA OneEnd ==
    ASSUME NEW t, NEW s
    PROVE  Json({[type |-> t, socket |-> s]}) = [x \in {t} |-> s]
<1> DEFINE E == {[type |-> t, socket |-> s]}
<1>1. {e.type : e \in E} = {t}
  OBVIOUS
<1>2. (CHOOSE e \in E : e.type = t) = [type |-> t, socket |-> s]
  OBVIOUS
<1>3. \A x \in {t} : (CHOOSE e \in E : e.type = x).socket = s
  BY <1>2
<1> QED
  BY <1>1, <1>3 DEF Json

\* The entry before the egress adds itself to it, and after.
EntryInv ==
    /\ stage = "chain" =>
           entry = [key |-> filed, ends |-> [t \in {"ingress"} |-> IngressEnd]]
    /\ EntryHasBothEnds

\* The ingress creates the entry with one end.
LEMMA EntryEnter == IInv /\ Enter => EntryInv'
<1> SUFFICES ASSUME IInv, Enter PROVE EntryInv'
  OBVIOUS
<1>1. entry' = [key |-> filed', ends |-> Json({[type |-> "ingress", socket |-> IngressEnd]})]
  BY DEF Enter, CreateEntry, Query
<1>2. stage' \in {"chain", "discarded"}
  BY DEF Enter
<1> QED
  BY <1>1, <1>2, OneEnd DEF EntryInv, EntryHasBothEnds

\* The egress adds the other end to the same entry.
LEMMA EntryExit == IInv /\ EntryInv /\ Exit => EntryInv'
<1> SUFFICES ASSUME IInv, EntryInv, Exit PROVE EntryInv'
  OBVIOUS
<1>1. /\ stage = "chain" /\ stage' = "destination" /\ pkt = origin /\ IsPacket(origin)
      /\ Protocol(origin) \in Known /\ HeaderOf(sfc, origin, SfcMap[Protocol(origin)])
      /\ filed = ClientKey(origin) /\ filed' = filed
  BY PacketsAssumption DEF Exit, IInv, HeaderInv
<1>2. ChainKey(sfc, pkt) = filed
  BY <1>1, KeyOfHeader
<1>3. entry = [key |-> filed, ends |-> [t \in {"ingress"} |-> IngressEnd]]
  BY <1>1 DEF EntryInv
<1>4. Json({[type |-> "egress", socket |-> EgressEnd]}) = [t \in {"egress"} |-> EgressEnd]
  BY OneEnd
<1> DEFINE ends == [t \in {"ingress", "egress"} |->
                       IF t = "ingress" THEN IngressEnd ELSE EgressEnd]
<1>5. entry' = [entry EXCEPT !.ends = ends]
  <2>1. ToUrl(Query(filed, {}, "ingress")).key = filed
    BY DEF ToUrl, Query
  <2>2. UpdateEndpoint(Query(filed, {}, "ingress"), [type |-> "egress", socket |-> EgressEnd])
    BY <1>2 DEF Exit
  <2>3. DOMAIN entry.ends = {"ingress"} /\ \A t \in {"ingress"} : entry.ends[t] = IngressEnd
    BY <1>3
  <2>4. [t \in DOMAIN entry.ends \union {"egress"} |->
            IF t \in {"egress"} THEN EgressEnd ELSE entry.ends[t]] = ends
    BY <2>3
  <2>5. entry' = [entry EXCEPT !.ends = [t \in DOMAIN entry.ends \union {"egress"} |->
            IF t \in {"egress"} THEN EgressEnd ELSE entry.ends[t]]]
    BY <1>3, <1>4, <2>1, <2>2 DEF UpdateEndpoint
  <2> QED
    BY <2>4, <2>5
<1>6. entry'.key = filed /\ entry'.ends = ends
  BY <1>3, <1>5
<1> QED
  BY <1>1, <1>6 DEF EntryInv, EntryHasBothEnds

\* Every step keeps what is said of the entry.
LEMMA EntryNext == IInv /\ EntryInv /\ [Next]_vars => EntryInv'
<1>1. EntryInv /\ (Return \/ Deliver) => EntryInv'
  BY DEF EntryInv, EntryHasBothEnds, Return, Deliver
<1>2. EntryInv /\ UNCHANGED vars => EntryInv'
  BY DEF EntryInv, EntryHasBothEnds, vars
<1> QED
  BY <1>1, <1>2, EntryEnter, EntryExit DEF Next

\* The update of the egress names the entry that the ingress created, through
\* keys of two processes and a path, and leaves the ingress in it
\* (endpoint.cpp:33-43, 54-67; dbquery.cpp:403-467).
THEOREM BothEndsInEntry == Spec => []EntryHasBothEnds
<1>1. Init => EntryInv
  BY DEF Init, EntryInv, EntryHasBothEnds
<1>2. EntryInv => EntryHasBothEnds
  BY DEF EntryInv
<1> QED
  BY <1>1, <1>2, InitIInv, StepIInv, EntryNext, PTL DEF Spec

-----------------------------------------------------------------------------
(* The payloads. *)

\* Sequences of one length with the same elements are equal.
LEMMA SameElements ==
    ASSUME NEW S, NEW s \in Seq(S), NEW T, NEW t \in Seq(T), Len(s) = Len(t),
           \A i \in 1 .. Len(s) : s[i] = t[i]
    PROVE  s = t
<1>1. s = [i \in 1 .. Len(s) |-> s[i]] /\ t = [i \in 1 .. Len(t) |-> t[i]]
  BY LenProperties
<1> QED
  BY <1>1

\* The headers of a packet without options have 40 or 28 bytes.
LEMMA PayloadBytes ==
    ASSUME NEW b, IsPacket(b), NEW p \in Known, Protocol(b) = p
    PROVE  /\ HeaderLen(b, p) = IF p = 6 THEN 40 ELSE 28
           /\ Payload(b, p) \in Seq(Byte)
           /\ Payload(b, p) = SubSeq(b, IF p = 6 THEN 41 ELSE 29, Len(b))
<1>1. b \in Seq(Byte) /\ Len(b) \in Nat /\ Len(b) > 27 /\ b[1] = 69 /\ (p = 6 => Len(b) > 39)
  BY DEF IsPacket, Protocol, IpHdrLen, UdpHdrLen, TcpHdrLen
<1>2. IpLen(b) = 20
  BY <1>1 DEF IpLen
<1>3. HeaderLen(b, p) = IF p = 6 THEN 40 ELSE 28
  BY <1>1, <1>2 DEF HeaderLen, UdpHdrLen, IsPacket, Protocol
<1>4. \A i \in HeaderLen(b, p) + 1 .. Len(b) : b[i] \in Byte
  BY <1>1, <1>3, ElementOfSeq
<1>5. SubSeq(b, HeaderLen(b, p) + 1, Len(b)) \in Seq(Byte)
  BY <1>1, <1>3, <1>4, SubSeqProperties
<1> QED
  BY <1>3, <1>5 DEF Payload

\* strncpy keeps the length, and the bytes if none of them is zero.
LEMMA StrNCpyKeeps ==
    ASSUME NEW d \in Seq(Byte)
    PROVE  /\ StrNCpy(d) \in Seq(Byte) /\ Len(StrNCpy(d)) = Len(d)
           /\ NoZero(d) => StrNCpy(d) = d
<1> DEFINE n == Len(d)
<1>1. n \in Nat /\ d \in [1 .. n -> Byte] /\ DOMAIN d = 1 .. n
  BY LenProperties
<1>2. StrNCpy(d) \in [1 .. n -> Byte]
  BY <1>1 DEF StrNCpy, Byte
<1>3. StrNCpy(d) \in Seq(Byte) /\ Len(StrNCpy(d)) = n
  BY <1>1, <1>2
<1>4. ASSUME NoZero(d) PROVE StrNCpy(d) = d
  BY <1>1, <1>4 DEF StrNCpy, NoZero
<1> QED
  BY <1>3, <1>4

\* A 16-bit integer in memory is two bytes.
LEMMA StorePair ==
    ASSUME NEW x, NEW S, x % 256 \in S, x \div 256 \in S
    PROVE  Store(x) \in Seq(S) /\ Len(Store(x)) = 2
<1> DEFINE lo == x % 256
           hi == x \div 256
<1>1. lo \in S /\ hi \in S /\ Store(x) = <<lo, hi>>
  BY DEF Store
<1> HIDE DEF lo, hi
<1> QED
  BY <1>1

\* The length and the elements of a concatenation
LEMMA Joined ==
    ASSUME NEW S, NEW s \in Seq(S), NEW t \in Seq(S)
    PROVE  /\ s \o t \in Seq(S) /\ Len(s \o t) = Len(s) + Len(t)
           /\ \A i \in 1 .. Len(s) : (s \o t)[i] = s[i]
           /\ \A i \in 1 .. Len(t) : (s \o t)[i + Len(s)] = t[i]
<1>0. Len(s) \in Nat /\ Len(t) \in Nat
  BY LenProperties
<1>1. s \o t \in Seq(S) /\ Len(s \o t) = Len(s) + Len(t)
  BY ConcatProperties
<1>2. \A i \in 1 .. Len(s) + Len(t) : (s \o t)[i] = IF i <= Len(s) THEN s[i] ELSE t[i - Len(s)]
  BY ConcatProperties
<1>3. \A i \in 1 .. Len(t) :
          /\ i + Len(s) \in 1 .. Len(s) + Len(t)
          /\ ~(i + Len(s) <= Len(s)) /\ (i + Len(s)) - Len(s) = i
  BY <1>0
<1>4. \A i \in 1 .. Len(s) : i \in 1 .. Len(s) + Len(t) /\ i <= Len(s)
  BY <1>0
<1> QED
  BY <1>1, <1>2, <1>3, <1>4

\* A part of a sequence that has the elements of another is that other one.
LEMMA PartIs ==
    ASSUME NEW S, NEW s \in Seq(S), NEW t \in Seq(S), NEW k \in Nat, NEW n \in Nat,
           Len(t) = n, k + n <= Len(s), \A i \in 1 .. n : s[i + k] = t[i]
    PROVE  SubSeq(s, k + 1, k + n) = t
<1> DEFINE u == SubSeq(s, k + 1, k + n)
<1>1. \A i \in k + 1 .. k + n : s[i] \in S
  BY ElementOfSeq, LenProperties
<1>2. /\ u \in Seq(S)
      /\ Len(u) = IF k + 1 <= k + n THEN (k + n) - (k + 1) + 1 ELSE 0
      /\ \A i \in 1 .. (k + n) - (k + 1) + 1 : u[i] = s[(k + 1) + i - 1]
  BY <1>1, SubSeqProperties
<1> HIDE DEF u
<1>3. Len(u) = n
  BY <1>2
<1>4. \A i \in 1 .. n : u[i] = s[i + k]
  <2> SUFFICES ASSUME NEW i \in 1 .. n PROVE u[i] = s[i + k]
    OBVIOUS
  <2>1. i \in 1 .. (k + n) - (k + 1) + 1 /\ (k + 1) + i - 1 = i + k
    OBVIOUS
  <2> QED
    BY <1>2, <2>1
<1>5. \A i \in 1 .. Len(u) : u[i] = t[i]
  BY <1>3, <1>4
<1>6. u = t
  BY <1>2, <1>3, <1>5, SameElements
<1> QED
  BY <1>6 DEF u

\* s has the payload c behind a header of n bytes, and in this b behind a.
Parts(s, n, a, b, c) ==
    /\ Len(s) = n + Len(c)
    /\ SubSeq(s, n + 1, n + Len(c)) = c
    /\ SubSeq(s, Len(a) + 1, Len(a) + Len(b)) = b

\* The same for a UDP header, whose second field is the destination's port
UdpParts(s, b, c) == SubSeq(s, 9, Len(s)) = c /\ SubSeq(s, 3, 4) = b

\* The bytes behind a header of four fields, and the second of these, by the
\* lengths of the fields
LEMMA BehindFields ==
    ASSUME NEW S, NEW a \in Seq(S), NEW b \in Seq(S), NEW e \in Seq(S), NEW f \in Seq(S),
           NEW c \in Seq(S)
    PROVE  \A s : \A n \in Nat :
               s = ((a \o b \o e) \o f) \o c /\ n = Len(a) + Len(b) + Len(e) + Len(f) =>
                   Parts(s, n, a, b, c)
<1> SUFFICES ASSUME NEW s, NEW n \in Nat,
                    s = ((a \o b \o e) \o f) \o c, n = Len(a) + Len(b) + Len(e) + Len(f)
             PROVE  Parts(s, n, a, b, c)
  OBVIOUS
<1>0. /\ Len(a) \in Nat /\ Len(b) \in Nat /\ Len(e) \in Nat /\ Len(f) \in Nat
      /\ Len(c) \in Nat
  BY LenProperties
<1>1. PICK h2 \in Seq(S) : h2 = a \o b
  BY Joined
<1>2. Len(h2) = Len(a) + Len(b) /\ \A i \in 1 .. Len(b) : h2[i + Len(a)] = b[i]
  BY <1>1, Joined
<1>3. PICK h3 \in Seq(S) : h3 = h2 \o e
  BY Joined
<1>4. Len(h3) = Len(h2) + Len(e) /\ \A i \in 1 .. Len(h2) : h3[i] = h2[i]
  BY <1>3, Joined
<1>5. PICK h4 \in Seq(S) : h4 = h3 \o f
  BY Joined
<1>6. Len(h4) = Len(h3) + Len(f) /\ \A i \in 1 .. Len(h3) : h4[i] = h3[i]
  BY <1>5, Joined
<1>7. s = h4 \o c
  BY <1>1, <1>3, <1>5
<1>8. /\ s \in Seq(S) /\ Len(s) = Len(h4) + Len(c)
      /\ \A i \in 1 .. Len(h4) : s[i] = h4[i]
      /\ \A i \in 1 .. Len(c) : s[i + Len(h4)] = c[i]
  BY <1>7, Joined
<1>9. Len(h4) = n
  BY <1>0, <1>2, <1>4, <1>6
<1>10. SubSeq(s, Len(h4) + 1, Len(h4) + Len(c)) = c
  BY <1>0, <1>8, <1>9, PartIs
<1>11. \A i \in 1 .. Len(b) : s[i + Len(a)] = b[i]
  <2> SUFFICES ASSUME NEW i \in 1 .. Len(b) PROVE s[i + Len(a)] = b[i]
    OBVIOUS
  <2>1. /\ i + Len(a) \in 1 .. Len(h2) /\ i + Len(a) \in 1 .. Len(h3)
        /\ i + Len(a) \in 1 .. Len(h4)
    BY <1>0, <1>2, <1>4, <1>6
  <2> QED
    BY <1>2, <1>4, <1>6, <1>8, <2>1
<1>12. Len(a) + Len(b) <= Len(s)
  BY <1>0, <1>2, <1>4, <1>6, <1>8
<1>13. SubSeq(s, Len(a) + 1, Len(a) + Len(b)) = b
  BY <1>0, <1>8, <1>11, <1>12, PartIs
<1> QED
  BY <1>8, <1>9, <1>10, <1>13 DEF Parts

\* A header of four 16-bit integers
LEMMA BehindHeader ==
    ASSUME NEW S, NEW a \in Seq(S), NEW b \in Seq(S), NEW e \in Seq(S), NEW f \in Seq(S),
           NEW c \in Seq(S), Len(a) = 2, Len(b) = 2, Len(e) = 2, Len(f) = 2
    PROVE  \A s : s = ((a \o b \o e) \o f) \o c => UdpParts(s, b, c)
<1> SUFFICES ASSUME NEW s, s = ((a \o b \o e) \o f) \o c
             PROVE  UdpParts(s, b, c)
  OBVIOUS
<1>1. PICK n \in Nat : n = Len(a) + Len(b) + Len(e) + Len(f)
  BY LenProperties
<1>2. Parts(s, n, a, b, c)
  BY <1>1, BehindFields, Zenon
<1>3. Len(a) + 1 = 3 /\ Len(a) + Len(b) = 4 /\ n + 1 = 9
  BY <1>1
<1> QED
  BY <1>2, <1>3, Zenon DEF Parts, UdpParts

\* Of the forged datagram: its payload, and its port as it was in the packet
LEMMA ForgedBytes ==
    ASSUME NEW d \in Seq(Byte), NEW sa, NEW da, NEW sp, NEW dp,
           NEW s, s = ForgeUdp(d, sa, da, sp, dp).bytes
    PROVE  /\ SubSeq(s, 9, Len(s)) = StrNCpy(d)
           /\ SubSeq(s, 3, 4) = Store(Swap(dp))
<1> DEFINE len == Swap((UdpHdrLen + Len(d)) % 65536)
           udp == Store(Swap(sp)) \o Store(Swap(dp)) \o Store(len)
           sum == Csum((sa \o da \o <<0, 17>> \o Store(len)) \o udp \o <<0, 0>> \o StrNCpy(d))
<1>1. s = (udp \o Store(sum)) \o StrNCpy(d)
  BY DEF ForgeUdp
<1> DEFINE S == Byte \union {Swap(sp) % 256, Swap(sp) \div 256, Swap(dp) % 256, Swap(dp) \div 256,
                             len % 256, len \div 256, sum % 256, sum \div 256}
<1> HIDE DEF sum, len
<1>2. \A v \in {Swap(sp), Swap(dp), len, sum} : v % 256 \in S /\ v \div 256 \in S
  OBVIOUS
<1>3. Byte \subseteq S
  OBVIOUS
<1> HIDE DEF S
<1>4. \A v \in {Swap(sp), Swap(dp), len, sum} : Store(v) \in Seq(S) /\ Len(Store(v)) = 2
  BY <1>2, StorePair
<1>5. StrNCpy(d) \in Seq(S)
  BY <1>3, StrNCpyKeeps
<1>6. PICK a \in Seq(S), b \in Seq(S), e \in Seq(S), f \in Seq(S), c \in Seq(S) :
          /\ a = Store(Swap(sp)) /\ b = Store(Swap(dp)) /\ e = Store(len) /\ f = Store(sum)
          /\ c = StrNCpy(d)
  BY <1>4, <1>5
<1>7. Len(a) = 2 /\ Len(b) = 2 /\ Len(e) = 2 /\ Len(f) = 2
  BY <1>4, <1>6
<1>8. s = ((a \o b \o e) \o f) \o c
  BY <1>1, <1>6
<1>9. UdpParts(s, b, c)
  BY <1>7, <1>8, BehindHeader, Zenon
<1> QED
  BY <1>6, <1>9 DEF UdpParts

\* The fields of a header as the bytes of the packet
LEMMA FieldBytes ==
    ASSUME NEW b, IsPacket(b)
    PROVE  /\ IntToIp(Headers(b).daddr) = SubSeq(b, 17, 20)
           /\ Swap(Headers(b).dest) = 256 * b[23] + b[24]
           /\ Store(Headers(b).dest) = SubSeq(b, 23, 24)
<1>1. b \in Seq(Byte) /\ Len(b) \in Nat /\ Len(b) > 27 /\ b[1] = 69
  BY DEF IsPacket, IpHdrLen, UdpHdrLen, TcpHdrLen
<1>2. \A i \in 1 .. 27 : b[i] \in Byte
  BY <1>1, ElementOfSeq
<1>3. IpLen(b) = 20
  BY <1>1 DEF IpLen
<1>4. PICK a1 \in Byte, a2 \in Byte, a3 \in Byte, a4 \in Byte, p1 \in Byte, p2 \in Byte :
          /\ b[17] = a1 /\ b[18] = a2 /\ b[19] = a3 /\ b[20] = a4
          /\ b[23] = p1 /\ b[24] = p2
  BY <1>2
<1>5. SubSeq(b, 17, 20) = <<a1, a2, a3, a4>>
  <2>1. /\ SubSeq(b, 17, 20) \in Seq(Byte) /\ Len(SubSeq(b, 17, 20)) = 4
        /\ \A i \in 1 .. 4 : SubSeq(b, 17, 20)[i] = b[17 + i - 1]
    BY <1>2, SubSeqProperties
  <2>2. <<a1, a2, a3, a4>> \in Seq(Byte) /\ Len(<<a1, a2, a3, a4>>) = 4
    OBVIOUS
  <2>3. \A i \in 1 .. 4 : SubSeq(b, 17, 20)[i] = <<a1, a2, a3, a4>>[i]
    BY <1>4, <2>1
  <2> QED
    BY <2>1, <2>2, <2>3, SameElements
<1>9. SubSeq(b, 23, 24) = <<p1, p2>>
  <2>1. /\ SubSeq(b, 23, 24) \in Seq(Byte) /\ Len(SubSeq(b, 23, 24)) = 2
        /\ \A i \in 1 .. 2 : SubSeq(b, 23, 24)[i] = b[23 + i - 1]
    BY <1>2, SubSeqProperties
  <2>2. <<p1, p2>> \in Seq(Byte) /\ Len(<<p1, p2>>) = 2
    OBVIOUS
  <2>3. \A i \in 1 .. 2 : SubSeq(b, 23, 24)[i] = <<p1, p2>>[i]
    BY <1>4, <2>1
  <2> QED
    BY <2>1, <2>2, <2>3, SameElements
<1>6. Headers(b).daddr = 65536 * (256 * a4 + a3) + (256 * a2 + a1)
  BY <1>4 DEF Headers, U32, U16, Byte
<1>7. Headers(b).dest = 256 * p2 + p1
  BY <1>3, <1>4 DEF Headers, U16, Byte
<1>8. Store(256 * p2 + p1) = <<p1, p2>>
  BY DEF Store, Byte
<1>10. IntToIp(Headers(b).daddr) = <<a1, a2, a3, a4>>
  <2>1. IntToIp(65536 * (256 * a4 + a3) + (256 * a2 + a1)) = <<a1, a2, a3, a4>>
    BY IpBytes
  <2> QED
    BY <1>6, <2>1, SMT
<1>11. Swap(Headers(b).dest) = 256 * p1 + p2
  BY <1>7, SwapBytes
<1> QED
  BY <1>4, <1>5, <1>7, <1>8, <1>9, <1>10, <1>11

\* What the destination was given is what SendOut makes of the client's packet,
\* and what the client was given is the payload of the answer.
OutInv ==
    /\ stage = "destination" =>
           LET k == ChainKey(sfc, pkt)
           IN  out = IF k.prt = "tcp"
                     THEN [daddr |-> IntToIp(sfc.destination_address),
                           dport |-> Swap(sfc.destination_port), bytes |-> StrNCpy(Payload(pkt, 6))]
                     ELSE ForgeUdp(Payload(pkt, 17), MyIp, k.ip_dst, ExtPort, k.port_dst)
    /\ stage = "back" => DOMAIN out \in {{"daddr", "dport", "bytes"}, {"saddr", "daddr", "bytes"}}
    /\ stage = "delivered" => out.bytes = Payload(pkt, Protocol(pkt))

\* Every step keeps what is said of the bytes that were sent.
LEMMA OutNext == OutInv /\ [Next]_vars => OutInv'
<1> SUFFICES ASSUME OutInv, [Next]_vars PROVE OutInv'
  OBVIOUS
<1>1. CASE Enter
  BY <1>1 DEF OutInv, Enter
<1>2. CASE Exit
  BY <1>2 DEF OutInv, Exit, SendOut, ChainKey
<1>3. CASE Return
  BY <1>3 DEF OutInv, Return, ForgeUdp
<1>4. CASE Deliver
  BY <1>4 DEF OutInv, Deliver
<1>5. CASE UNCHANGED vars
  BY <1>5 DEF OutInv, vars, ChainKey
<1> QED
  BY <1>1, <1>2, <1>3, <1>4, <1>5 DEF Next

\* Those bytes are the payload, at the destination and at the client.
LEMMA OutImplies == IInv /\ OutInv => PayloadsArrive
<1> SUFFICES ASSUME IInv, OutInv PROVE PayloadsArrive
  OBVIOUS
<1>1. ASSUME stage = "delivered", Protocol(pkt) = Protocol(origin)
      PROVE  out.bytes = SubSeq(pkt, IF Protocol(pkt) = 6 THEN 41 ELSE 29, Len(pkt))
  <2>1. IsPacket(pkt) /\ Protocol(pkt) \in Known
    BY <1>1 DEF IInv, HeaderInv
  <2> QED
    BY <1>1, <2>1, PayloadBytes DEF OutInv
<1>2. ASSUME stage = "destination"
      PROVE  LET want == Payload(origin, Protocol(origin))
                 got  == IF looked.prt = "tcp" THEN out.bytes
                                               ELSE SubSeq(out.bytes, 9, Len(out.bytes))
             IN  /\ out.daddr = SubSeq(origin, 17, 20)
                 /\ looked.prt = "tcp" => out.dport = 256 * origin[23] + origin[24]
                 /\ looked.prt = "udp" => SubSeq(out.bytes, 3, 4) = SubSeq(origin, 23, 24)
                 /\ Len(got) = Len(want)
                 /\ NoZero(want) => got = want
  <2> DEFINE p == Protocol(origin)
             d == Payload(origin, p)
  <2>1. /\ IsPacket(origin) /\ p \in Known /\ pkt = origin
        /\ HeaderOf(sfc, origin, SfcMap[p]) /\ looked = ChainKey(sfc, pkt)
    BY <1>2, PacketsAssumption DEF IInv, HeaderInv
  <2>2. d \in Seq(Byte)
    BY <2>1, PayloadBytes
  <2>3. /\ looked = ChainKey(sfc, origin) /\ looked.prt = ConnType(p)
        /\ looked.ip_dst = SubSeq(origin, 17, 20) /\ looked.port_dst = Swap(Headers(origin).dest)
    BY <2>1, FieldBytes DEF ChainKey, HeaderOf
  <2>4. CASE p = 6
    <3>1. looked.prt = "tcp"
      BY <2>3, <2>4 DEF ConnType
    <3>2. out = [daddr |-> IntToIp(Headers(origin).daddr),
                 dport |-> Swap(Headers(origin).dest), bytes |-> StrNCpy(d)]
      BY <1>2, <2>1, <2>4, <3>1 DEF OutInv, HeaderOf
    <3> QED
      BY <2>1, <2>2, <3>1, <3>2, FieldBytes, StrNCpyKeeps
  <2>5. CASE p = 17
    <3>1. looked.prt = "udp"
      BY <2>3, <2>5 DEF ConnType
    <3>2. out = ForgeUdp(d, MyIp, looked.ip_dst, ExtPort, looked.port_dst)
      BY <1>2, <2>1, <2>5, <3>1 DEF OutInv
    <3>3. out.daddr = SubSeq(origin, 17, 20)
      BY <2>3, <3>2 DEF ForgeUdp
    <3>4. /\ SubSeq(out.bytes, 9, Len(out.bytes)) = StrNCpy(d)
          /\ SubSeq(out.bytes, 3, 4) = Store(Swap(looked.port_dst))
      BY <2>2, <3>2, ForgedBytes
    <3>5. SubSeq(out.bytes, 3, 4) = SubSeq(origin, 23, 24)
      BY <2>1, <2>3, <3>4, FieldBytes, HeadersType, SwapTwice
    <3> QED
      BY <2>2, <3>1, <3>3, <3>4, <3>5, StrNCpyKeeps
  <2> QED
    BY <2>1, <2>4, <2>5 DEF Known
<1> QED
  BY <1>1, <1>2 DEF PayloadsArrive

\* A payload reaches its destination and its client with its length, its address
\* and its port, and unchanged up to its first zero byte (packetutils.cpp:132,
\* egress.cpp:162), for payloads of any length.
THEOREM PayloadsDelivered == Spec => []PayloadsArrive
<1>1. Init => OutInv
  BY DEF Init, OutInv
<1> QED
  BY <1>1, InitIInv, StepIInv, OutNext, OutImplies, PTL DEF Spec

-----------------------------------------------------------------------------
(* Sums: what csum adds up, a word at a time. *)

\* A set of natural numbers that is not empty has a least element.
LEMMA LeastNat == \A T \in SUBSET Nat : T # {} => \E x \in T : \A y \in T : ~ (y < x)
<1> SUFFICES ASSUME NEW T \in SUBSET Nat, T # {} PROVE \E x \in T : \A y \in T : ~ (y < x)
  OBVIOUS
<1>1. \E x \in T : \A y \in T : ~ (<<y, x>> \in OpToRel(<, Nat))
  BY WFMin, NatLessThanWellFounded, Zenon
<1>2. \A x, y \in T : y < x => <<y, x>> \in OpToRel(<, Nat)
  BY DEF OpToRel
<1> QED
  BY <1>1, <1>2

\* Induction on the natural numbers, for a set of them.
LEMMA SetInduction ==
    ASSUME NEW S \in SUBSET Nat, 0 \in S, \A n \in S : n + 1 \in S
    PROVE  S = Nat
<1> DEFINE T == Nat \ S
<1> SUFFICES ASSUME T # {} PROVE FALSE
  OBVIOUS
<1>1. PICK x \in T : \A y \in T : ~ (y < x)
  BY LeastNat
<1>2. x - 1 \in Nat /\ x - 1 < x /\ (x - 1) + 1 = x
  BY <1>1
<1>3. x - 1 \in S
  BY <1>1, <1>2
<1> QED
  BY <1>1, <1>2, <1>3

\* The element of s that the folds take first.
First(s) == CHOOSE x \in s : TRUE

\* What is left of a subset of D without its first element is a smaller subset.
LEMMA Rest ==
    ASSUME NEW D, IsFiniteSet(D), NEW s \in SUBSET D, s # {}
    PROVE  /\ First(s) \in s /\ s \ {First(s)} \in SUBSET D
           /\ Cardinality(s) \in Nat
           /\ Cardinality(s \ {First(s)}) \in Nat
           /\ Cardinality(s) = Cardinality(s \ {First(s)}) + 1
<1>1. First(s) \in s
  BY DEF First
<1>2. IsFiniteSet(s)
  BY FS_Subset
<1>3. IsFiniteSet(s \ {First(s)})
  BY <1>2, FS_RemoveElement
<1>4. Cardinality(s) \in Nat /\ Cardinality(s \ {First(s)}) \in Nat
  BY <1>2, <1>3, FS_CardinalityType
<1>5. Cardinality(s \ {First(s)}) = Cardinality(s) - 1
  BY <1>1, <1>2, FS_RemoveElement
<1> QED
  BY <1>1, <1>4, <1>5

\* Induction on the subsets of a finite set, in the order in which a fold takes
\* their elements.
LEMMA SubsetInduction ==
    ASSUME NEW D, IsFiniteSet(D), NEW T \in SUBSET (SUBSET D), {} \in T,
           \A s \in SUBSET D : s # {} /\ s \ {First(s)} \in T => s \in T
    PROVE  T = SUBSET D
<1> DEFINE S == {n \in Nat : \A s \in SUBSET D : Cardinality(s) = n => s \in T}
<1>1. 0 \in S
  <2> SUFFICES ASSUME NEW s \in SUBSET D, Cardinality(s) = 0 PROVE s \in T
    OBVIOUS
  <2>1. s = {}
    BY FS_Subset, FS_EmptySet
  <2> QED
    BY <2>1
<1>2. ASSUME NEW n \in S PROVE n + 1 \in S
  <2>0. n \in Nat /\ \A s \in SUBSET D : Cardinality(s) = n => s \in T
    OBVIOUS
  <2> SUFFICES ASSUME NEW s \in SUBSET D, Cardinality(s) = n + 1 PROVE s \in T
    BY <2>0
  <2>1. s # {}
    BY <2>0, FS_EmptySet
  <2>2. s \ {First(s)} \in SUBSET D /\ Cardinality(s \ {First(s)}) = n
    BY <2>0, <2>1, Rest
  <2> QED
    BY <2>0, <2>1, <2>2
<1> HIDE DEF S
<1>3. S = Nat
  BY <1>1, <1>2, SetInduction DEF S
<1> SUFFICES ASSUME NEW s \in SUBSET D PROVE s \in T
  OBVIOUS
<1>4. Cardinality(s) \in Nat
  BY FS_Subset, FS_CardinalityType
<1> QED
  BY <1>3, <1>4 DEF S

\* One step of the sum of f over a set, given the sums over smaller sets.
Step(f, g, s) == IF s = {} THEN 0 ELSE f[First(s)] + g[s \ {First(s)}]

\* g is the sum of f over the subsets of its domain.
Sums(f, g) == g = [s \in SUBSET (DOMAIN f) |-> Step(f, g, s)]

\* There is such a function: the folds' recursion is well founded.
LEMMA SumsExist ==
    ASSUME NEW f, IsFiniteSet(DOMAIN f)
    PROVE  \E g : Sums(f, g)
<1> DEFINE D == DOMAIN f
           Upto(n, g) == \A s \in SUBSET D : Cardinality(s) <= n => g[s] = Step(f, g, s)
           S == {n \in Nat : \E g : Upto(n, g)}
<1>0. \A s \in SUBSET D : Cardinality(s) \in Nat
  BY FS_Subset, FS_CardinalityType
<1>1. 0 \in S
  <2> DEFINE g == [s \in SUBSET D |-> 0]
  <2>1. Upto(0, g)
    <3> SUFFICES ASSUME NEW s \in SUBSET D, Cardinality(s) <= 0 PROVE g[s] = Step(f, g, s)
      OBVIOUS
    <3>1. s = {}
      BY <1>0, FS_Subset, FS_EmptySet
    <3> QED
      BY <3>1 DEF Step
  <2> QED
    BY <2>1
<1>2. ASSUME NEW n \in S PROVE n + 1 \in S
  <2>1. n \in Nat
    OBVIOUS
  <2>2. PICK g : Upto(n, g)
    OBVIOUS
  <2> DEFINE h == [s \in SUBSET D |-> IF Cardinality(s) <= n THEN g[s] ELSE Step(f, g, s)]
  <2>3. \A s \in SUBSET D : Cardinality(s) <= n + 1 => h[s] = Step(f, h, s)
    <3> SUFFICES ASSUME NEW s \in SUBSET D, Cardinality(s) <= n + 1 PROVE h[s] = Step(f, h, s)
      OBVIOUS
    <3>1. h[s] = Step(f, g, s)
      BY <2>2
    <3>2. CASE s = {}
      BY <3>1, <3>2 DEF Step
    <3>3. CASE s # {}
      <4> DEFINE t == s \ {First(s)}
      <4>1. t \in SUBSET D /\ Cardinality(t) <= n
        BY <2>1, <3>3, Rest
      <4>2. h[t] = g[t]
        BY <4>1
      <4> QED
        BY <3>1, <3>3, <4>2 DEF Step
    <3> QED
      BY <3>2, <3>3
  <2>4. \E k : Upto(n + 1, k)
    <3>1. Upto(n + 1, h)
      BY <2>3
    <3> HIDE DEF h, Upto
    <3> QED
      BY <3>1
  <2> HIDE DEF h, Upto
  <2> QED
    BY <2>1, <2>4
<1>3. S = Nat
  <2> HIDE DEF S
  <2>1. S \in SUBSET Nat
    BY DEF S
  <2> QED
    BY <1>1, <1>2, <2>1, SetInduction
<1>4. PICK g : Upto(Cardinality(D), g)
  BY <1>0, <1>3
<1> DEFINE h == [s \in SUBSET D |-> g[s]]
<1>5. \A s \in SUBSET D : h[s] = Step(f, h, s)
  <2> SUFFICES ASSUME NEW s \in SUBSET D PROVE h[s] = Step(f, h, s)
    OBVIOUS
  <2>1. Cardinality(s) <= Cardinality(D)
    BY FS_Subset
  <2>2. h[s] = Step(f, g, s)
    BY <1>4, <2>1
  <2>3. s # {} => h[s \ {First(s)}] = g[s \ {First(s)}]
    BY Rest
  <2> QED
    BY <2>2, <2>3 DEF Step
<1>6. Sums(f, h)
  BY <1>5 DEF Sums
<1> QED
  BY <1>6

\* The sum of a function is that over its domain.
LEMMA SumIsLast ==
    ASSUME NEW f, IsFiniteSet(DOMAIN f)
    PROVE  \E g : Sums(f, g) /\ SumFunction(f) = g[DOMAIN f]
<1> DEFINE g == CHOOSE g : Sums(f, g)
<1>1. Sums(f, g)
  BY SumsExist
<1>2. SumFunction(f) = g[DOMAIN f]
  BY DEF SumFunction, SumFunctionOnSet, FoldFunctionOnSet, MapThenFoldSet, Sums, Step, First
<1> QED
  BY <1>1, <1>2

\* A product with a sum is a sum of products: the multiplications of variables
\* that the proofs below need, by themselves.
LEMMA Distributes == \A a, b, c \in Nat : a * (b + c) = a * b + a * c
  OBVIOUS

\* A product of natural numbers is one.
LEMMA Products == \A a, b \in Nat : a * b \in Nat
  OBVIOUS

\* What sums keep.  The sums of functions of one domain take the elements in the
\* same order.
AtMost(x, m) == x \in Nat /\ x <= m
Elements(n, f, m) == DOMAIN f = 1 .. n /\ \A i \in 1 .. n : AtMost(f[i], m)

\* The sum of n numbers, none above m, is at most m * n.
LEMMA SumInRange ==
    ASSUME NEW f, NEW n \in Nat, NEW m \in Nat, Elements(n, f, m)
    PROVE  AtMost(SumFunction(f), m * n)
<1> DEFINE D == 1 .. n
<1>0. IsFiniteSet(D) /\ Cardinality(D) = n /\ DOMAIN f = D /\ \A i \in D : f[i] \in 0 .. m
  BY FS_Interval DEF Elements, AtMost
<1> HIDE DEF D
<1>1. PICK g : Sums(f, g) /\ SumFunction(f) = g[D]
  BY <1>0, SumIsLast
<1> DEFINE T == {s \in SUBSET D : g[s] \in Nat /\ g[s] <= m * Cardinality(s)}
<1>2. {} \in T
  BY <1>0, <1>1, FS_EmptySet DEF Sums, Step
<1>3. ASSUME NEW s \in SUBSET D, s # {}, s \ {First(s)} \in T PROVE s \in T
  <2> DEFINE t == s \ {First(s)}
  <2>1. First(s) \in D /\ Cardinality(t) \in Nat /\ Cardinality(s) = Cardinality(t) + 1
    BY <1>0, <1>3, Rest
  <2>2. g[s] = f[First(s)] + g[t]
    BY <1>0, <1>1, <1>3 DEF Sums, Step
  <2>3. g[t] \in Nat /\ g[t] <= m * Cardinality(t)
    BY <1>3
  <2>4. f[First(s)] \in 0 .. m
    BY <1>0, <2>1
  <2>5. m * Cardinality(s) = m * Cardinality(t) + m * 1
    <3> HIDE DEF t
    <3> QED
      BY <2>1, Distributes
  <2>6. g[s] \in Nat /\ g[s] <= m * Cardinality(s)
    <3>1. m * Cardinality(t) \in Nat /\ m * 1 = m
      BY <2>1
    <3> HIDE DEF t
    <3> QED
      BY <2>2, <2>3, <2>4, <2>5, <3>1
  <2> QED
    BY <2>6
<1> HIDE DEF T
<1>4. T = SUBSET D
  <2>1. T \in SUBSET (SUBSET D)
    BY DEF T
  <2> QED
    BY <1>0, <1>2, <1>3, <2>1, SubsetInduction
<1> QED
  BY <1>0, <1>1, <1>4 DEF T, AtMost

\* A linear relation of the elements is one of the sums.
NatSeq(n, f) == f \in [1 .. n -> Nat]
Related(n, f, g, h, a, b) == \A i \in 1 .. n : a * f[i] = g[i] + b * h[i]
SumIs(x, y, z, a, b) == x \in Nat /\ y \in Nat /\ z \in Nat /\ a * x = y + b * z

\* With a * f = g + b * h at every index, the same holds of the three sums.
LEMMA SumsRelated ==
    ASSUME NEW n \in Nat, NEW f, NEW g, NEW h, NEW a \in Nat, NEW b \in Nat,
           NatSeq(n, f), NatSeq(n, g), NatSeq(n, h), Related(n, f, g, h, a, b)
    PROVE  SumIs(SumFunction(f), SumFunction(g), SumFunction(h), a, b)
<1> DEFINE D == 1 .. n
<1>0. /\ IsFiniteSet(D) /\ DOMAIN f = D /\ DOMAIN g = D /\ DOMAIN h = D
      /\ \A i \in D : f[i] \in Nat /\ g[i] \in Nat /\ h[i] \in Nat
  <2>1. IsFiniteSet(D)
    BY FS_Interval
  <2>2. /\ DOMAIN f = D /\ DOMAIN g = D /\ DOMAIN h = D
        /\ \A i \in D : f[i] \in Nat /\ g[i] \in Nat /\ h[i] \in Nat
    BY DEF NatSeq
  <2> QED
    BY <2>1, <2>2
<1>1. PICK F : Sums(f, F) /\ SumFunction(f) = F[D]
  BY <1>0, SumIsLast
<1>2. PICK G : Sums(g, G) /\ SumFunction(g) = G[D]
  BY <1>0, SumIsLast
<1>3. PICK H : Sums(h, H) /\ SumFunction(h) = H[D]
  BY <1>0, SumIsLast
<1> DEFINE T == {s \in SUBSET D : /\ F[s] \in Nat /\ G[s] \in Nat /\ H[s] \in Nat
                                  /\ a * F[s] = G[s] + b * H[s]}
<1>4. {} \in T
  BY <1>0, <1>1, <1>2, <1>3 DEF Sums, Step
<1>5. ASSUME NEW s \in SUBSET D, s # {}, s \ {First(s)} \in T PROVE s \in T
  <2> DEFINE t == s \ {First(s)}
             x == First(s)
  <2>1. x \in D
    BY <1>0, <1>5, Rest
  <2>2. F[s] = f[x] + F[t] /\ G[s] = g[x] + G[t] /\ H[s] = h[x] + H[t]
    BY <1>0, <1>1, <1>2, <1>3, <1>5 DEF Sums, Step
  <2>3. F[t] \in Nat /\ G[t] \in Nat /\ H[t] \in Nat
    BY <1>5
  <2>4. f[x] \in Nat /\ g[x] \in Nat /\ h[x] \in Nat
    BY <1>0, <2>1
  <2>5. a * F[t] = G[t] + b * H[t] /\ a * f[x] = g[x] + b * h[x]
    BY <1>5, <2>1 DEF Related
  <2> HIDE DEF t, x
  <2>6. a * (f[x] + F[t]) = a * f[x] + a * F[t] /\ b * (h[x] + H[t]) = b * h[x] + b * H[t]
    BY <2>3, <2>4, Distributes
  <2>7. b * h[x] \in Nat /\ b * H[t] \in Nat
    BY <2>3, <2>4, Products
  <2>8. PICK p \in Nat, q \in Nat, u \in Nat, v \in Nat :
            p = g[x] /\ q = b * h[x] /\ u = G[t] /\ v = b * H[t]
    BY <2>3, <2>4, <2>7
  <2>9. (p + q) + (u + v) = (p + u) + (q + v)
    OBVIOUS
  <2>10. a * F[s] = (p + q) + (u + v)
    BY <2>2, <2>5, <2>6, <2>8, Zenon
  <2>11. G[s] + b * H[s] = (p + u) + (q + v)
    BY <2>2, <2>6, <2>8, Zenon
  <2>12. a * F[s] = G[s] + b * H[s]
    BY <2>9, <2>10, <2>11, Zenon
  <2>13. F[s] \in Nat
    BY <2>2, <2>3, <2>4
  <2>14. G[s] \in Nat
    BY <2>2, <2>3, <2>4
  <2>15. H[s] \in Nat
    BY <2>2, <2>3, <2>4
  <2> QED
    BY <2>13, <2>12, <2>14, <2>15
<1> HIDE DEF T
<1>6. T = SUBSET D
  <2>1. T \in SUBSET (SUBSET D)
    BY DEF T
  <2> QED
    BY <1>0, <1>4, <1>5, <2>1, SubsetInduction
<1> QED
  BY <1>1, <1>2, <1>3, <1>6 DEF T, SumIs

\* The sum of a function that is 0 but for one index
LEMMA SumOfOne ==
    ASSUME NEW n \in Nat, NEW m \in 1 .. n, NEW c \in Nat
    PROVE  SumFunction([i \in 1 .. n |-> IF i = m THEN c ELSE 0]) = c
<1> DEFINE D == 1 .. n
           f == [i \in 1 .. n |-> IF i = m THEN c ELSE 0]
<1>0. IsFiniteSet(D) /\ DOMAIN f = D /\ m \in D /\ \A i \in D : f[i] = IF i = m THEN c ELSE 0
  BY FS_Interval
<1> HIDE DEF D, f
<1>1. PICK F : Sums(f, F) /\ SumFunction(f) = F[D]
  BY <1>0, SumIsLast
<1> DEFINE T == {s \in SUBSET D : F[s] = IF m \in s THEN c ELSE 0}
<1>2. {} \in T
  BY <1>0, <1>1 DEF Sums, Step
<1>3. ASSUME NEW s \in SUBSET D, s # {}, s \ {First(s)} \in T PROVE s \in T
  <2>1. First(s) \in D /\ First(s) \in s
    BY <1>0, <1>3, Rest
  <2>2. F[s] = f[First(s)] + F[s \ {First(s)}]
    BY <1>0, <1>1, <1>3 DEF Sums, Step
  <2>3. F[s \ {First(s)}] = IF m \in s \ {First(s)} THEN c ELSE 0
    BY <1>3
  <2>4. f[First(s)] = IF First(s) = m THEN c ELSE 0
    BY <1>0, <2>1
  <2>5. F[s] = IF m \in s THEN c ELSE 0
    BY <2>1, <2>2, <2>3, <2>4
  <2> QED
    BY <2>5
<1> HIDE DEF T
<1>4. T = SUBSET D
  <2>1. T \in SUBSET (SUBSET D)
    BY DEF T
  <2> QED
    BY <1>0, <1>2, <1>3, <2>1, SubsetInduction
<1>5. SumFunction(f) = c
  BY <1>0, <1>1, <1>4 DEF T
<1> QED
  BY <1>5 DEF f

-----------------------------------------------------------------------------
(* The checksum of the forged datagram. *)

\* The words of an octet string, as the program reads them and in network order,
\* and the second byte of each
Seconds(b) == [i \in 1 .. (Len(b) + 1) \div 2 |-> IF 2 * i > Len(b) THEN 0 ELSE b[2 * i]]

Count(b) == (Len(b) + 1) \div 2

\* A word in one order is 256 times the word in the other, but for a multiple of
\* 65535.
WordIs(w, v, q) == AtMost(w, 65535) /\ v \in Nat /\ q \in Nat /\ 256 * w = v + 65535 * q

\* Two bytes p and q, in the host's order and in the network's
LEMMA WordOfBytes == \A p, q \in Byte : WordIs(p + 256 * q, 256 * p + q, q)
  BY SMT DEF Byte, WordIs, AtMost

\* The same of word i of an octet string, whose last byte may stand alone
LEMMA WordOf ==
    ASSUME NEW b \in Seq(Byte), NEW i \in 1 .. Count(b)
    PROVE  WordIs(Words(b)[i], NetWords(b)[i], Seconds(b)[i])
<1>1. /\ Len(b) \in Nat /\ 2 * i - 1 \in 1 .. Len(b)
      /\ ~ (2 * i > Len(b)) => 2 * i \in 1 .. Len(b)
  BY LenProperties DEF Count
<1>2. b[2 * i - 1] \in Byte /\ (~ (2 * i > Len(b)) => b[2 * i] \in Byte)
  BY <1>1, ElementOfSeq
<1>3. PICK p \in Byte : p = b[2 * i - 1]
  BY <1>2
<1>4. PICK q \in Byte : q = IF 2 * i > Len(b) THEN 0 ELSE b[2 * i]
  <2>1. 0 \in Byte
    BY DEF Byte
  <2> QED
    BY <1>2, <2>1, Zenon
<1>5. Words(b)[i] = p + 256 * q /\ NetWords(b)[i] = 256 * p + q /\ Seconds(b)[i] = q
  BY <1>3, <1>4, SMT DEF Words, NetWords, Seconds, Count
<1> QED
  BY <1>5, WordOfBytes, SMT

WordsAre(n, b) ==
    /\ NatSeq(n, Words(b)) /\ NatSeq(n, NetWords(b)) /\ NatSeq(n, Seconds(b))
    /\ Elements(n, Words(b), 65535)
    /\ Related(n, Words(b), NetWords(b), Seconds(b), 256, 65535)

\* What the sums need to know of the words of b
LEMMA WordsType ==
    ASSUME NEW b \in Seq(Byte), NEW n \in Nat, n = Count(b)
    PROVE  WordsAre(n, b)
<1>1. \A i \in 1 .. n : WordIs(Words(b)[i], NetWords(b)[i], Seconds(b)[i])
  BY WordOf, SMT
<1>2. /\ Words(b) = [i \in 1 .. n |-> Words(b)[i]]
      /\ NetWords(b) = [i \in 1 .. n |-> NetWords(b)[i]]
      /\ Seconds(b) = [i \in 1 .. n |-> Seconds(b)[i]]
  BY DEF Words, NetWords, Seconds, Count
<1>3. \A i \in 1 .. n : /\ AtMost(Words(b)[i], 65535) /\ Words(b)[i] \in Nat
                        /\ NetWords(b)[i] \in Nat /\ Seconds(b)[i] \in Nat
  BY <1>1, SMT DEF WordIs, AtMost
<1>4. NatSeq(n, Words(b))
  BY <1>2, <1>3, SMT DEF NatSeq
<1>5. NatSeq(n, NetWords(b)) /\ NatSeq(n, Seconds(b))
  BY <1>2, <1>3, SMT DEF NatSeq
<1>6. Elements(n, Words(b), 65535)
  BY <1>2, <1>3, SMT DEF Elements
<1>7. Related(n, Words(b), NetWords(b), Seconds(b), 256, 65535)
  BY <1>1, SMT DEF Related, WordIs
<1> QED
  BY <1>4, <1>5, <1>6, <1>7, SMT DEF WordsAre

\* y is x with the 16-bit integer c for the zeros at the checksum's place, behind
\* the pseudo header and the first three fields of the UDP header.
Filled(x, y, c) ==
    /\ x \in Seq(Byte) /\ y \in Seq(Byte) /\ Len(x) = Len(y) /\ Len(x) >= 20
    /\ x[19] = 0 /\ x[20] = 0 /\ y[19] = c % 256 /\ y[20] = c \div 256
    /\ \A i \in 1 .. Len(x) : i \notin {19, 20} => x[i] = y[i]

\* The checksum is one of the words that csum adds, when it adds again.
LEMMA FilledSum ==
    ASSUME NEW x, NEW y, NEW c \in Half, Filled(x, y, c)
    PROVE  SumFunction(Words(y)) = SumFunction(Words(x)) + c
<1>1. /\ x \in Seq(Byte) /\ y \in Seq(Byte) /\ Len(x) = Len(y) /\ Len(x) >= 20 /\ Len(x) \in Nat
      /\ \A i \in 1 .. Len(x) : i \notin {19, 20} => x[i] = y[i]
  BY LenProperties DEF Filled
<1>2. PICK n \in Nat : n = Count(x) /\ n = Count(y)
  BY <1>1, SMT DEF Count
<1> DEFINE C == [i \in 1 .. n |-> IF i = 10 THEN c ELSE 0]
<1>3. NatSeq(n, Words(x)) /\ NatSeq(n, Words(y))
  <2>1. WordsAre(n, x) /\ WordsAre(n, y)
    BY <1>1, <1>2, WordsType, Zenon
  <2> QED
    BY <2>1 DEF WordsAre
<1>4. NatSeq(n, C)
  BY DEF NatSeq, Half
<1>5. ASSUME NEW i \in 1 .. n PROVE 1 * Words(y)[i] = Words(x)[i] + 1 * C[i]
  <2>0. Words(x)[i] \in Nat /\ Words(y)[i] \in Nat
    BY <1>3 DEF NatSeq
  <2>1. CASE i = 10
    <3>1. ~ (2 * i > Len(x)) /\ 2 * i = 20 /\ 2 * i - 1 = 19
      BY <1>1, <2>1
    <3>2. Words(x)[i] = x[19] + 256 * x[20] /\ Words(y)[i] = y[19] + 256 * y[20]
      BY <1>1, <1>2, <3>1, SMT DEF Words, Count
    <3>3. Words(x)[i] = 0 /\ Words(y)[i] = (c % 256) + 256 * (c \div 256)
      BY <3>2 DEF Filled
    <3>4. (c % 256) + 256 * (c \div 256) = c
      BY DEF Half
    <3> QED
      BY <2>0, <2>1, <3>3, <3>4
  <2>2. CASE i # 10
    <3>1. /\ 2 * i - 1 \in 1 .. Len(x) /\ 2 * i - 1 \notin {19, 20} /\ 2 * i \notin {19, 20}
          /\ ~ (2 * i > Len(x)) => 2 * i \in 1 .. Len(x)
      BY <1>1, <1>2, <2>2 DEF Count
    <3>2. Words(x)[i] = Words(y)[i]
      BY <1>1, <1>2, <3>1, SMT DEF Words, Count
    <3> QED
      BY <2>0, <2>2, <3>2
  <2> QED
    BY <2>1, <2>2
<1>6. SumFunction(C) = c
  <2>1. 10 \in 1 .. n /\ c \in Nat
    BY <1>1, <1>2, SMT DEF Half, Count
  <2> QED
    BY <2>1, SumOfOne
<1> HIDE DEF C
<1>7. Related(n, Words(y), Words(x), C, 1, 1)
  BY <1>5 DEF Related
<1>8. SumIs(SumFunction(Words(y)), SumFunction(Words(x)), SumFunction(C), 1, 1)
  <2>1. 1 \in Nat
    OBVIOUS
  <2> QED
    BY <1>3, <1>4, <1>7, <2>1, SumsRelated, Zenon
<1> QED
  BY <1>6, <1>8 DEF SumIs

\* The checksum is a 16-bit integer: what is missing of 65535 to the words' sum,
\* but for a multiple of 65535.
LEMMA CsumType ==
    ASSUME NEW x \in Seq(Byte), Len(x) \in Half
    PROVE  \E k \in Nat : /\ SumFunction(Words(x)) \in Nat /\ Csum(x) \in Half
                          /\ SumFunction(Words(x)) + Csum(x) = 65535 * (k + 1)
<1>1. PICK n \in Nat : n = Count(x)
  BY SMT DEF Count, Half
<1>2. WordsAre(n, x)
  BY <1>1, WordsType, Zenon
<1>4. Elements(n, Words(x), 65535)
  BY <1>2, SMT DEF WordsAre
<1>5. PICK s \in Nat : s = SumFunction(Words(x)) /\ s <= 65535 * n
  <2>1. PICK m \in Nat : m = 65535
    OBVIOUS
  <2>2. AtMost(SumFunction(Words(x)), m * n)
    <3>1. Elements(n, Words(x), m)
      BY <1>4, <2>1, SMT
    <3> QED
      BY <3>1, SumInRange, Zenon
  <2> QED
    BY <2>1, <2>2, SMT DEF AtMost
<1>6. s \in Word
  BY <1>1, <1>5, SMT DEF Word, Count, Half
<1>7. PICK k \in Nat : Fold(s) \in Half /\ s = Fold(s) + 65535 * k
  BY <1>6, TwoCarriesAreEnough, SMT
<1>8. PICK c \in Half : c = Csum(x) /\ c = 65535 - Fold(s)
  BY <1>5, <1>7, SMT DEF Csum, Half
<1> QED
  BY <1>5, <1>7, <1>8, SMT DEF Half

\* Filled with the checksum of x (packetutils.cpp:85-105), y has the sum 0 in ones'
\* complement and in network order, whatever the order csum has read it in.
LEMMA ChecksumIsRight ==
    ASSUME NEW x, NEW y, Filled(x, y, Csum(x)), Len(x) \in Half
    PROVE  SumFunction(NetWords(y)) % 65535 = 0
<1>1. x \in Seq(Byte) /\ y \in Seq(Byte) /\ Len(x) = Len(y) /\ Len(x) \in Nat
  BY LenProperties DEF Filled
<1>2. PICK n \in Nat : n = Count(x) /\ n = Count(y)
  BY <1>1, SMT DEF Count
<1>0. WordsAre(n, x) /\ WordsAre(n, y)
  BY <1>1, <1>2, WordsType, Zenon
<1>3. /\ NatSeq(n, Words(y)) /\ NatSeq(n, NetWords(y)) /\ NatSeq(n, Seconds(y))
      /\ Related(n, Words(y), NetWords(y), Seconds(y), 256, 65535)
  BY <1>0, SMT DEF WordsAre
<1>5. PICK s \in Nat, c \in Half, k \in Nat :
          s = SumFunction(Words(x)) /\ c = Csum(x) /\ s + c = 65535 * (k + 1)
  BY <1>1, CsumType, SMT
<1>9. PICK w \in Nat, v \in Nat, h \in Nat :
          /\ w = SumFunction(Words(y)) /\ v = SumFunction(NetWords(y))
          /\ 256 * w = v + 65535 * h
  <2>1. PICK a \in Nat, b \in Nat : a = 256 /\ b = 65535
    OBVIOUS
  <2>2. SumIs(SumFunction(Words(y)), SumFunction(NetWords(y)), SumFunction(Seconds(y)), a, b)
    <3>1. /\ NatSeq(n, Words(y)) /\ NatSeq(n, NetWords(y)) /\ NatSeq(n, Seconds(y))
          /\ Related(n, Words(y), NetWords(y), Seconds(y), a, b)
      BY <1>3, <2>1, SMT
    <3> QED
      BY <3>1, SumsRelated, Zenon
  <2> QED
    BY <2>1, <2>2, SMT DEF SumIs
<1>10. w = s + c
  BY <1>5, <1>9, FilledSum, SMT
<1>11. w = 65535 * (k + 1)
  BY <1>5, <1>10, SMT
<1>12. v = 65535 * (256 * (k + 1) - h)
  BY <1>9, <1>11, SMT
<1>13. v % 65535 = 0
  BY <1>12, SMT
<1> QED
  BY <1>9, <1>13, SMT

\* r is a sequence of m elements of S, s, before one of n elements, t.
JoinsIn(S, r, s, m, t, n) ==
    /\ r \in Seq(S) /\ Len(r) = m + n
    /\ \A i \in 1 .. m : r[i] = s[i]
    /\ \A i \in 1 .. n : r[i + m] = t[i]

Joins(r, s, m, t, n) == JoinsIn(Byte, r, s, m, t, n)

\* What Joined says, under one name
LEMMA JoinedIn ==
    ASSUME NEW S, NEW s \in Seq(S), NEW t \in Seq(S)
    PROVE  JoinsIn(S, s \o t, s, Len(s), t, Len(t))
<1>1. /\ s \o t \in Seq(S) /\ Len(s \o t) = Len(s) + Len(t)
      /\ \A i \in 1 .. Len(s) : (s \o t)[i] = s[i]
      /\ \A i \in 1 .. Len(t) : (s \o t)[i + Len(s)] = t[i]
  BY Joined
<1> DEFINE r == s \o t
           m == Len(s)
           n == Len(t)
<1>2. /\ r \in Seq(S) /\ Len(r) = m + n
      /\ \A i \in 1 .. m : r[i] = s[i]
      /\ \A i \in 1 .. n : r[i + m] = t[i]
  BY <1>1
<1> HIDE DEF r, m, n
<1>3. JoinsIn(S, r, s, m, t, n)
  BY <1>2, Zenon DEF JoinsIn
<1> QED
  BY <1>3 DEF r, m, n

\* The same of octet strings
LEMMA JoinedBytes ==
    ASSUME NEW s \in Seq(Byte), NEW t \in Seq(Byte), NEW m, NEW n, Len(s) = m, Len(t) = n
    PROVE  s \o t \in Seq(Byte) /\ Joins(s \o t, s, m, t, n)
<1>1. JoinsIn(Byte, s \o t, s, Len(s), t, Len(t))
  BY JoinedIn, Zenon
<1> QED
  BY <1>1, Zenon DEF Joins, JoinsIn

\* The elements of the two parts, at the places i and j
Places(r, s, m, t, n) ==
    /\ \A i \in Nat : 0 < i /\ i <= m => r[i] = s[i]
    /\ \A i, j \in Nat : 0 < i /\ i <= n /\ j = i + m => r[j] = t[i]

\* A sequence of two parts has their elements at these places.
LEMMA JoinsElements ==
    ASSUME NEW r, NEW s, NEW t, NEW m \in Nat, NEW n \in Nat, Joins(r, s, m, t, n)
    PROVE  Places(r, s, m, t, n)
<1>1. \A i \in Nat : 0 < i /\ i <= m => i \in 1 .. m
  OBVIOUS
<1>2. \A i \in Nat : 0 < i /\ i <= n => i \in 1 .. n
  OBVIOUS
<1> QED
  BY <1>1, <1>2, Zenon DEF Joins, JoinsIn, Places

\* The bytes of a sequence of five parts, and of one with other bytes for the third
LEMMA AroundChecksum ==
    ASSUME NEW a \in Seq(Byte), NEW u \in Seq(Byte), NEW z \in Seq(Byte), NEW c \in Half,
           NEW e \in Seq(Byte), NEW p \in Seq(Byte),
           Len(a) = 12, Len(u) = 6, z = <<0, 0>>, e = Store(c)
    PROVE  Filled(((a \o u) \o z) \o p, a \o ((u \o e) \o p), c)
<1>0. PICK n \in Nat : n = Len(p)
  BY LenProperties
<1>1. /\ Len(z) = 2 /\ z[1] = 0 /\ z[2] = 0
      /\ Len(e) = 2 /\ e[1] = c % 256 /\ e[2] = c \div 256
  BY SMT DEF Store
<1>2. PICK x2 \in Seq(Byte) : x2 = a \o u /\ Joins(x2, a, 12, u, 6)
  BY JoinedBytes, Zenon
<1>3. PICK x3 \in Seq(Byte) : x3 = x2 \o z /\ Joins(x3, x2, 18, z, 2)
  <2>1. Len(x2) = 18
    BY <1>2, SMT DEF Joins, JoinsIn
  <2> QED
    BY <1>1, <2>1, JoinedBytes, Zenon
<1>4. PICK x \in Seq(Byte) : x = x3 \o p /\ Joins(x, x3, 20, p, n)
  <2>1. Len(x3) = 20
    BY <1>3, SMT DEF Joins, JoinsIn
  <2> QED
    BY <1>0, <2>1, JoinedBytes, Zenon
<1>5. PICK y2 \in Seq(Byte) : y2 = u \o e /\ Joins(y2, u, 6, e, 2)
  BY <1>1, JoinedBytes, Zenon
<1>6. PICK y3 \in Seq(Byte) : y3 = y2 \o p /\ Joins(y3, y2, 8, p, n)
  <2>1. Len(y2) = 8
    BY <1>5, SMT DEF Joins, JoinsIn
  <2> QED
    BY <1>0, <2>1, JoinedBytes, Zenon
<1>7. PICK y \in Seq(Byte) : y = a \o y3 /\ Joins(y, a, 12, y3, 8 + n)
  <2>1. Len(y3) = 8 + n
    BY <1>6, SMT DEF Joins, JoinsIn
  <2> QED
    BY <2>1, JoinedBytes, Zenon
<1>8. /\ 2 \in Nat /\ 6 \in Nat /\ 8 \in Nat /\ 12 \in Nat /\ 18 \in Nat /\ 20 \in Nat
      /\ n \in Nat /\ 8 + n \in Nat
  BY <1>0, SMT
<1>9. Places(x2, a, 12, u, 6)
  BY <1>0, <1>2, <1>8, JoinsElements, Zenon
<1>10. Places(x3, x2, 18, z, 2)
  BY <1>0, <1>3, <1>8, JoinsElements, Zenon
<1>11. Places(x, x3, 20, p, n)
  BY <1>0, <1>4, <1>8, JoinsElements, Zenon
<1>12. Places(y2, u, 6, e, 2)
  BY <1>0, <1>5, <1>8, JoinsElements, Zenon
<1>13. Places(y3, y2, 8, p, n)
  BY <1>0, <1>6, <1>8, JoinsElements, Zenon
<1>14. Places(y, a, 12, y3, 8 + n)
  BY <1>0, <1>7, <1>8, JoinsElements, Zenon
<1>15. Len(x) = 20 + n /\ Len(y) = 20 + n
  BY <1>0, <1>4, <1>7, SMT DEF Joins, JoinsIn
<1>16. x[19] = 0 /\ x[20] = 0
  <2>1. /\ 1 \in Nat /\ 0 < 1 /\ 1 <= 2 /\ 19 \in Nat /\ 19 = 1 + 18
        /\ 2 \in Nat /\ 0 < 2 /\ 2 <= 2 /\ 20 \in Nat /\ 20 = 2 + 18
        /\ 0 < 19 /\ 19 <= 20 /\ 0 < 20 /\ 20 <= 20
    OBVIOUS
  <2>2. x3[19] = z[1] /\ x3[20] = z[2]
    BY <1>10, <2>1, Zenon DEF Places
  <2>3. x[19] = x3[19] /\ x[20] = x3[20]
    BY <1>11, <2>1, Zenon DEF Places
  <2> QED
    BY <1>1, <2>2, <2>3, Zenon
<1>17. y[19] = c % 256 /\ y[20] = c \div 256
  <2>1. /\ 1 \in Nat /\ 0 < 1 /\ 1 <= 2 /\ 7 \in Nat /\ 7 = 1 + 6
        /\ 2 \in Nat /\ 0 < 2 /\ 2 <= 2 /\ 8 \in Nat /\ 8 = 2 + 6
        /\ 0 < 7 /\ 7 <= 8 /\ 0 < 8 /\ 8 <= 8
    OBVIOUS
  <2>2. 7 <= 8 + n /\ 8 <= 8 + n /\ 19 \in Nat /\ 19 = 7 + 12 /\ 20 \in Nat /\ 20 = 8 + 12
    BY <1>0, SMT
  <2>3. y2[7] = e[1] /\ y2[8] = e[2]
    BY <1>12, <2>1, Zenon DEF Places
  <2>4. y3[7] = y2[7] /\ y3[8] = y2[8]
    BY <1>13, <2>1, Zenon DEF Places
  <2>5. y[19] = y3[7] /\ y[20] = y3[8]
    BY <1>14, <2>1, <2>2, Zenon DEF Places
  <2> QED
    BY <1>1, <2>3, <2>4, <2>5, Zenon
<1>18. ASSUME NEW i \in 1 .. 20 + n, i \notin {19, 20} PROVE x[i] = y[i]
  <2>0. i \in Nat /\ 0 < i
    BY <1>0, SMT
  <2>1. CASE i <= 12
    <3>1. i <= 18 /\ i <= 20
      BY <2>0, <2>1, SMT
    <3>2. x[i] = x3[i]
      BY <1>11, <2>0, <3>1, Zenon DEF Places
    <3>3. x3[i] = x2[i]
      BY <1>10, <2>0, <3>1, Zenon DEF Places
    <3>4. x2[i] = a[i]
      BY <1>9, <2>0, <2>1, Zenon DEF Places
    <3>5. y[i] = a[i]
      BY <1>14, <2>0, <2>1, Zenon DEF Places
    <3> QED
      BY <3>2, <3>3, <3>4, <3>5, Zenon
  <2>2. CASE 12 < i /\ i <= 18
    <3>1. PICK j \in Nat : 0 < j /\ j <= 6 /\ j <= 8 /\ j <= 8 + n /\ i = j + 12 /\ i <= 20
      <4>1. i - 12 \in Nat
        BY <2>0, <2>2, SMT
      <4> QED
        BY <1>0, <2>0, <2>2, <4>1, SMT
    <3>2. x[i] = x3[i]
      BY <1>11, <2>0, <3>1, Zenon DEF Places
    <3>3. x3[i] = x2[i]
      BY <1>10, <2>0, <2>2, Zenon DEF Places
    <3>4. x2[i] = u[j]
      BY <1>9, <2>0, <3>1, Zenon DEF Places
    <3>5. y[i] = y3[j]
      BY <1>14, <2>0, <3>1, Zenon DEF Places
    <3>6. y3[j] = y2[j]
      BY <1>13, <3>1, Zenon DEF Places
    <3>7. y2[j] = u[j]
      BY <1>12, <3>1, Zenon DEF Places
    <3> QED
      BY <3>2, <3>3, <3>4, <3>5, <3>6, <3>7, Zenon
  <2>3. CASE 20 < i
    <3>1. PICK j \in Nat : 0 < j /\ j <= n /\ i = j + 20
      <4>1. i - 20 \in Nat
        BY <2>0, <2>3, SMT
      <4> QED
        BY <1>0, <2>0, <2>3, <4>1, SMT
    <3>2. PICK k \in Nat : 0 < k /\ k <= 8 + n /\ k = j + 8 /\ i = k + 12
      BY <1>0, <3>1, SMT
    <3>3. x[i] = p[j]
      BY <1>11, <2>0, <3>1, Zenon DEF Places
    <3>4. y[i] = y3[k]
      BY <1>14, <2>0, <3>2, Zenon DEF Places
    <3>5. y3[k] = p[j]
      BY <1>13, <3>1, <3>2, Zenon DEF Places
    <3> QED
      BY <3>3, <3>4, <3>5, Zenon
  <2> QED
    BY <1>18, <2>0, <2>1, <2>2, <2>3, SMT
<1>19. Filled(x, y, c)
  BY <1>15, <1>16, <1>17, <1>18, SMT DEF Filled
<1> QED
  BY <1>2, <1>3, <1>4, <1>5, <1>6, <1>7, <1>19, Zenon

\* The two bytes of a 16-bit integer in memory
LEMMA StoreHalf == \A x \in Half : Store(x) \in Seq(Byte) /\ Len(Store(x)) = 2
<1>1. \A x \in Half : x % 256 \in Byte /\ x \div 256 \in Byte
  BY SMT DEF Half, Byte
<1> QED
  BY <1>1, StorePair, Zenon

\* Two bytes
LEMMA PairOfBytes == \A x, y \in Byte : <<x, y>> \in Seq(Byte) /\ Len(<<x, y>>) = 2
<1> TAKE x, y \in Byte
<1> QED
  OBVIOUS

\* The low and the high byte of a 16-bit integer
LEMMA HalfIsBytes ==
    ASSUME NEW q \in Byte, NEW r \in Byte
    PROVE  (256 * q + r) % 256 = r /\ (256 * q + r) \div 256 = q
<1>1. (256 * q + r) % 256 = r
  BY DEF Byte
<1>2. (256 * q + r) \div 256 = q
  BY DEF Byte
<1> QED
  BY <1>1, <1>2

\* What the destination checks of a datagram
\* The sum is 0 in ones' complement.
SumsToZero(b) == SumFunction(NetWords(b)) % 65535 = 0

Accepted(o) ==
    LET b == o.bytes
        l == <<b[5], b[6]>>
    IN  /\ 256 * b[5] + b[6] = Len(b)
        /\ SumsToZero(o.saddr \o o.daddr \o <<0, 17>> \o l \o b)

\* What forge_ip_udp_pkt makes (packetutils.cpp:108-172) is accepted, as long as its
\* length and that of the pseudo header fit 16 bits.
LEMMA ForgedAccepted ==
    ASSUME NEW d \in Seq(Byte), NEW sa \in Seq(Byte), NEW da \in Seq(Byte), NEW sp \in Half,
           NEW dp \in Half, Len(sa) = 4, Len(da) = 4, 20 + Len(d) \in Half
    PROVE  Accepted(ForgeUdp(d, sa, da, sp, dp))
<1>0. PICK n \in Nat : n = Len(d) /\ 20 + n \in Half
  BY LenProperties
<1>1. PICK q \in Byte, r \in Byte : 8 + n = 256 * q + r
  <2>1. 8 + n \in Half
    BY <1>0 DEF Half
  <2> QED
    BY <2>1, HalfBytes
<1>2. PICK len \in Half : len = 256 * r + q /\ len = Swap((UdpHdrLen + Len(d)) % 65536)
  <2>1. (UdpHdrLen + Len(d)) % 65536 = 256 * q + r
    BY <1>0, <1>1 DEF UdpHdrLen, Half
  <2>2. Swap(256 * q + r) = 256 * r + q /\ 256 * r + q \in Half
    BY SwapBytes, TwoBytes
  <2> QED
    BY <2>1, <2>2
<1>3. PICK l \in Seq(Byte) : l = Store(len) /\ Len(l) = 2 /\ l = <<q, r>>
  <2>1. len % 256 = q /\ len \div 256 = r
    BY <1>2, HalfIsBytes
  <2> QED
    BY <2>1, StoreHalf DEF Store
<1>4. PICK s \in Seq(Byte), t \in Seq(Byte) :
          s = Store(Swap(sp)) /\ Len(s) = 2 /\ t = Store(Swap(dp)) /\ Len(t) = 2
  BY SwapTwice, StoreHalf
<1>5. PICK p \in Seq(Byte) : p = StrNCpy(d) /\ Len(p) = n
  BY <1>0, StrNCpyKeeps
<1>6. PICK z \in Seq(Byte), k \in Seq(Byte) :
          z = <<0, 0>> /\ Len(z) = 2 /\ k = <<0, 17>> /\ Len(k) = 2
  <2>1. 0 \in Byte /\ 17 \in Byte
    BY SMT DEF Byte
  <2> QED
    BY <2>1, PairOfBytes, Zenon
<1>8. PICK a \in Seq(Byte) : a = ((sa \o da) \o k) \o l /\ Len(a) = 12
  <2>1. PICK a1 \in Seq(Byte) : a1 = sa \o da /\ Joins(a1, sa, 4, da, 4)
    BY JoinedBytes, Zenon
  <2>2. Len(a1) = 8
    BY <1>0, <2>1, SMT DEF Joins, JoinsIn
  <2>3. PICK a2 \in Seq(Byte) : a2 = a1 \o k /\ Joins(a2, a1, 8, k, 2)
    BY <1>6, <2>2, JoinedBytes, Zenon
  <2>4. Len(a2) = 10
    BY <1>0, <2>3, SMT DEF Joins, JoinsIn
  <2>5. PICK a3 \in Seq(Byte) : a3 = a2 \o l /\ Joins(a3, a2, 10, l, 2)
    BY <1>3, <2>4, JoinedBytes, Zenon
  <2>6. Len(a3) = 12
    BY <1>0, <2>5, SMT DEF Joins, JoinsIn
  <2> QED
    BY <2>1, <2>3, <2>5, <2>6, Zenon
<1>9. PICK u \in Seq(Byte) : u = (s \o t) \o l /\ Len(u) = 6 /\ u[5] = q /\ u[6] = r
  <2>1. PICK u1 \in Seq(Byte) : u1 = s \o t /\ Joins(u1, s, 2, t, 2)
    BY <1>4, JoinedBytes, Zenon
  <2>2. Len(u1) = 4
    BY <1>0, <2>1, SMT DEF Joins, JoinsIn
  <2>3. PICK u2 \in Seq(Byte) : u2 = u1 \o l /\ Joins(u2, u1, 4, l, 2)
    BY <1>3, <2>2, JoinedBytes, Zenon
  <2>4. Len(u2) = 6
    BY <1>0, <2>3, SMT DEF Joins, JoinsIn
  <2>5. Places(u2, u1, 4, l, 2)
    <3>1. 4 \in Nat /\ 2 \in Nat
      OBVIOUS
    <3> QED
      BY <2>3, <3>1, JoinsElements, Zenon
  <2>6. u2[5] = l[1] /\ u2[6] = l[2]
    BY <2>5, SMT DEF Places
  <2>7. u2[5] = q /\ u2[6] = r
    BY <1>3, <2>6
  <2> QED
    BY <2>1, <2>3, <2>4, <2>7, Zenon
<1>10. PICK x \in Seq(Byte) : x = ((a \o u) \o z) \o p /\ Len(x) = 20 + n
  <2>1. PICK x1 \in Seq(Byte) : x1 = a \o u /\ Joins(x1, a, 12, u, 6)
    BY <1>8, <1>9, JoinedBytes, Zenon
  <2>2. Len(x1) = 18
    BY <1>0, <2>1, SMT DEF Joins, JoinsIn
  <2>3. PICK x2 \in Seq(Byte) : x2 = x1 \o z /\ Joins(x2, x1, 18, z, 2)
    BY <1>6, <2>2, JoinedBytes, Zenon
  <2>4. Len(x2) = 20
    BY <1>0, <2>3, SMT DEF Joins, JoinsIn
  <2>5. PICK x3 \in Seq(Byte) : x3 = x2 \o p /\ Joins(x3, x2, 20, p, n)
    BY <1>5, <2>4, JoinedBytes, Zenon
  <2>6. Len(x3) = 20 + n
    BY <1>0, <2>5, SMT DEF Joins, JoinsIn
  <2> QED
    BY <2>1, <2>3, <2>5, <2>6, Zenon
<1>11. PICK c \in Half : c = Csum(x)
  <2>1. Len(x) \in Half
    BY <1>0, <1>10, SMT
  <2> QED
    BY <2>1, CsumType, SMT
<1>12. PICK e \in Seq(Byte) : e = Store(c) /\ Len(e) = 2
  BY StoreHalf
<1>13. PICK b \in Seq(Byte) : b = (u \o e) \o p /\ Len(b) = 8 + n /\ b[5] = q /\ b[6] = r
  <2>1. PICK b1 \in Seq(Byte) : b1 = u \o e /\ Joins(b1, u, 6, e, 2)
    BY <1>9, <1>12, JoinedBytes, Zenon
  <2>2. Len(b1) = 8
    BY <1>0, <2>1, SMT DEF Joins, JoinsIn
  <2>3. PICK b2 \in Seq(Byte) : b2 = b1 \o p /\ Joins(b2, b1, 8, p, n)
    BY <1>5, <2>2, JoinedBytes, Zenon
  <2>4. Len(b2) = 8 + n
    BY <1>0, <2>3, SMT DEF Joins, JoinsIn
  <2>5. Places(b1, u, 6, e, 2) /\ Places(b2, b1, 8, p, n)
    <3>1. 6 \in Nat /\ 2 \in Nat /\ 8 \in Nat /\ n \in Nat
      BY <1>0
    <3> QED
      BY <2>1, <2>3, <3>1, JoinsElements, Zenon
  <2>6. b2[5] = b1[5] /\ b2[6] = b1[6] /\ b1[5] = u[5] /\ b1[6] = u[6]
    BY <2>5, SMT DEF Places
  <2>7. b2[5] = q /\ b2[6] = r
    BY <1>9, <2>6, SMT
  <2> QED
    BY <2>1, <2>3, <2>4, <2>7, Zenon
<1>14. Filled(x, a \o b, c)
  BY <1>6, <1>8, <1>9, <1>10, <1>12, <1>13, AroundChecksum, Zenon
<1>15. SumsToZero(a \o b)
  <2>1. Len(x) \in Half
    BY <1>0, <1>10, SMT
  <2> QED
    BY <1>11, <1>14, <2>1, ChecksumIsRight, SMT DEF SumsToZero
<1>16. ForgeUdp(d, sa, da, sp, dp) = [saddr |-> sa, daddr |-> da, bytes |-> b]
  <2> DEFINE L == Swap((UdpHdrLen + Len(d)) % 65536)
             U == Store(Swap(sp)) \o Store(Swap(dp)) \o Store(L)
             P == sa \o da \o <<0, 17>> \o Store(L)
             C == Csum(P \o U \o <<0, 0>> \o StrNCpy(d))
  <2>1. ForgeUdp(d, sa, da, sp, dp) =
            [saddr |-> sa, daddr |-> da, bytes |-> U \o Store(C) \o StrNCpy(d)]
    BY DEF ForgeUdp
  <2>2. L = len
    BY <1>2
  <2> HIDE DEF L
  <2>3. U = u
    BY <1>3, <1>4, <1>9, <2>2, Zenon
  <2>4. P = a
    BY <1>3, <1>6, <1>8, <2>2, Zenon
  <2> HIDE DEF U, P
  <2>5. C = c
    BY <1>5, <1>6, <1>10, <1>11, <2>3, <2>4, Zenon
  <2> HIDE DEF C
  <2> QED
    BY <1>5, <1>12, <1>13, <2>1, <2>3, <2>5, Zenon
<1>17. 256 * b[5] + b[6] = Len(b)
  BY <1>1, <1>13
<1>18. sa \o da \o <<0, 17>> \o <<b[5], b[6]>> \o b = a \o b
  BY <1>3, <1>6, <1>8, <1>13, Zenon
<1> DEFINE o == ForgeUdp(d, sa, da, sp, dp)
<1>19. o.saddr = sa /\ o.daddr = da /\ o.bytes = b
  BY <1>16
<1> HIDE DEF o
<1>20. Accepted(o)
  BY <1>15, <1>17, <1>18, <1>19, Zenon DEF Accepted
<1> QED
  BY <1>20 DEF o

\* 28 bytes are the headers of a UDP packet.
LEMMA BehindLength ==
    ASSUME NEW i \in Nat, i > 27
    PROVE  (IF 29 <= i THEN i - 29 + 1 ELSE 0) = i - 28
<1>1. CASE 29 <= i
  BY <1>1
<1>2. CASE ~ (29 <= i)
  <2>1. i = 28
    BY <1>2
  <2> QED
    BY <1>2, <2>1
<1> QED
  BY <1>1, <1>2

\* The length of what follows the headers of a UDP packet
LEMMA LengthBehind ==
    ASSUME NEW s \in Seq(Byte), Len(s) > 27
    PROVE  Len(SubSeq(s, 29, Len(s))) = Len(s) - 28
<1>1. PICK m \in Nat : m = Len(s) /\ m > 27
  BY LenProperties
<1>2. \A i \in 29 .. m : s[i] \in Byte
  BY <1>1, ElementOfSeq
<1>3. Len(SubSeq(s, 29, m)) = IF 29 <= m THEN m - 29 + 1 ELSE 0
  BY <1>1, <1>2, SubSeqProperties
<1>4. \A i \in Nat : i > 27 => (IF 29 <= i THEN i - 29 + 1 ELSE 0) = i - 28
  BY BehindLength, Zenon
<1> QED
  BY <1>1, <1>3, <1>4, Zenon

\* The datagram that the egress forges out of the client's packet
LEMMA OutAccepted == IInv /\ OutInv => ForgedIsAccepted
<1> SUFFICES ASSUME IInv, OutInv, stage = "destination", looked.prt = "udp"
             PROVE  Accepted(out)
  BY SMT DEF ForgedIsAccepted, Accepted, SumsToZero
<1> DEFINE p == Protocol(origin)
           d == Payload(origin, p)
<1>1. /\ IsPacket(origin) /\ p \in Known /\ pkt = origin
      /\ HeaderOf(sfc, origin, SfcMap[p]) /\ looked = ChainKey(sfc, pkt)
  BY PacketsAssumption DEF IInv, HeaderInv
<1>2. p = 17
  <2>1. looked.prt = ConnType(p)
    BY <1>1 DEF ChainKey
  <2> QED
    BY <1>1, <2>1 DEF ConnType, Known
<1>3. out = ForgeUdp(d, MyIp, looked.ip_dst, ExtPort, looked.port_dst)
  BY <1>1, <1>2 DEF OutInv
<1>4. d \in Seq(Byte) /\ 20 + Len(d) \in Half
  <2>1. d \in Seq(Byte) /\ d = SubSeq(origin, 29, Len(origin))
    BY <1>1, <1>2, PayloadBytes
  <2>2. Len(origin) \in Half /\ Len(origin) > 27
    BY <1>1, <1>2 DEF IsPacket, Half, Protocol, IpHdrLen, UdpHdrLen
  <2>3. Len(d) = Len(origin) - 28
    <3>1. origin \in Seq(Byte)
      BY <1>1 DEF IsPacket
    <3>2. Len(origin) > 27
      BY <2>2
    <3> HIDE DEF d
    <3> QED
      BY <2>1, <3>1, <3>2, LengthBehind, Zenon
  <2> HIDE DEF d
  <2> QED
    BY <2>1, <2>2, <2>3 DEF Half
<1>5. looked.ip_dst \in Ip /\ looked.port_dst \in Half
  BY DEF IInv, TypeOK, Key
<1>6. \A i \in Ip : i \in Seq(Byte) /\ Len(i) = 4
  <2>1. SUFFICES ASSUME NEW i \in [1 .. 4 -> Byte] PROVE i \in Seq(Byte) /\ Len(i) = 4
    BY DEF Ip
  <2>2. 4 \in Nat
    OBVIOUS
  <2>3. i \in Seq(Byte)
    BY <2>1, <2>2, SeqDef, Zenon
  <2>4. Len(i) \in Nat /\ 1 .. Len(i) = 1 .. 4
    BY <2>1, <2>3, LenProperties
  <2>5. Len(i) = 4
    <3>1. PICK n \in Nat : n = Len(i) /\ 1 .. n = 1 .. 4
      BY <2>4
    <3> QED
      BY <3>1, SMT
  <2> QED
    BY <2>3, <2>5
<1>7. MyIp \in Ip /\ ExtPort \in Half
  BY MyIpAssumption DEF Ip
<1> HIDE DEF d
<1> QED
  BY <1>3, <1>4, <1>5, <1>6, <1>7, ForgedAccepted, Zenon

\* The destination accepts every datagram that the egress forges, whatever the
\* payload, the addresses and the ports: the length and the checksum that
\* forge_ip_udp_pkt computes on a little-endian host (packetutils.cpp:153-171) are right
\* in the network's order.
THEOREM ForgedAlwaysAccepted == Spec => []ForgedIsAccepted
<1>1. Init => OutInv
  BY DEF Init, OutInv
<1> QED
  BY <1>1, InitIInv, StepIInv, OutNext, OutAccepted, PTL DEF Spec

=============================================================================
