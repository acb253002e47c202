---------------------------- MODULE PacketDecoder ----------------------------
(***************************************************************************)
(* The packet decoder (adapter/packet/decoder.go): from the IP header of a *)
(* tunnelled packet, the endpoint that numbers it (wiface listen), keys   *)
(* its Retry entry, its ACK and its merger stream, and its protocol.      *)
(* A uint64 is four 16-bit limbs, least significant first, so that the    *)
(* FNV-1a arithmetic keeps its wrap-around at 2^64.                        *)
(* With Tracing, decodeLayers only adds descriptive fields (gopacket, not *)
(* part of this repository); it is not modelled.                          *)
(***************************************************************************)
EXTENDS Naturals, Sequences, Bitwise

IpPacketMinLength == 20

EndpointTypeIPv4 == 1
EndpointTypeIPv6 == 2

EndpointHashSourceAddress      == 1
EndpointHashDestinationAddress == 2
EndpointHashFullAddress        == 3

-----------------------------------------------------------------------------
(* fnvHash and fastHash.                                                   *)

Limb == 65536
FnvBasis == <<8997, 33826, 40164, 52210>>   \* 14695981039346656037
FnvPrime == <<435, 0, 256, 0>>              \* 1099511628211

\* h ^= uint64(b): a byte only reaches the lowest limb.
XorByte(h, b) == [h EXCEPT ![1] = @ ^^ b]

\* h * p below 2^64, column by column with its carry; what passes the
\* fourth limb is lost, as in uint64 multiplication.  (Written out: every
\* product stays below 2^31 for p = FnvPrime, whose limbs are below 2^9.)
MulU64(h, p) ==
    LET c1 == h[1] * p[1]
        c2 == h[1] * p[2] + h[2] * p[1] + c1 \div Limb
        c3 == h[1] * p[3] + h[2] * p[2] + h[3] * p[1] + c2 \div Limb
        c4 == h[1] * p[4] + h[2] * p[3] + h[3] * p[2] + h[4] * p[1] + c3 \div Limb
    IN <<c1 % Limb, c2 % Limb, c3 % Limb, c4 % Limb>>

RECURSIVE FnvFrom(_, _)
FnvFrom(s, h) == IF s = <<>> THEN h ELSE FnvFrom(Tail(s), MulU64(XorByte(h, Head(s)), FnvPrime))

FnvHash(s) == FnvFrom(s, FnvBasis)

FastHash(s, typ) == MulU64(XorByte(FnvHash(s), typ), FnvPrime)

-----------------------------------------------------------------------------
(* Decode.  Go's data[i:j] is SubSeq(data, i + 1, j).                      *)

Failed == [ok |-> FALSE, endpoint |-> <<0, 0, 0, 0>>, protocol |-> 0]

\* The address bytes hashed for the decoder's EndpointHashType.
AddressBytes(src, dst, hashType) ==
    CASE hashType = EndpointHashSourceAddress      -> src
      [] hashType = EndpointHashDestinationAddress -> dst
      [] hashType = EndpointHashFullAddress        -> src \o dst

\* decodeIPv4: the header length in words, then the total length field.
DecodeIPv4(data, hashType) ==
    LET ihl    == data[1] % 16
        length == data[3] * 256 + data[4]
    IN IF ihl < 5 \/ ihl > 15 \/ ihl * 4 > length THEN Failed
       ELSE [ok       |-> TRUE,
             endpoint |-> FastHash(AddressBytes(SubSeq(data, 13, 16), SubSeq(data, 17, 20), hashType),
                                   EndpointTypeIPv4),
             protocol |-> data[10]]

DecodeIPv6(data, hashType) ==
    IF Len(data) < 40 THEN Failed
    ELSE [ok       |-> TRUE,
          endpoint |-> FastHash(AddressBytes(SubSeq(data, 9, 24), SubSeq(data, 25, 40), hashType),
                                EndpointTypeIPv6),
          protocol |-> data[7]]

DecodeIP(data, hashType) ==
    CASE data[1] \div 16 = 4 -> DecodeIPv4(data, hashType)
      [] data[1] \div 16 = 6 -> DecodeIPv6(data, hashType)
      [] OTHER               -> Failed

Decode(data, hashType) ==
    IF Len(data) < IpPacketMinLength THEN Failed ELSE DecodeIP(data, hashType)

-----------------------------------------------------------------------------
(* The decoders the programs build (deploy/client/connection.go,           *)
(* deploy/server/main.go): the socket side hashes the address that is not  *)
(* the tunnel's own, as the tun side of the other end does.                *)

\* Mutant: the server's socket decoder hashing the source address.
ServerSockHashSource == EndpointHashSourceAddress

ClientSockHash  == EndpointHashSourceAddress
ClientIfaceHash == EndpointHashDestinationAddress
ServerSockHash  == EndpointHashDestinationAddress
ServerIfaceHash == EndpointHashSourceAddress

\* Upstream a packet is read from the client's tun and decoded again by the
\* server's socket loop; downstream from the server's tun by the client's.
Links == {[tx |-> ClientIfaceHash, rx |-> ServerSockHash],
          [tx |-> ServerIfaceHash, rx |-> ClientSockHash]}

-----------------------------------------------------------------------------
(* Sample packets: IPv4 and IPv6 headers between two hosts, and headers    *)
(* each check of Decode refuses.                                           *)

HostA == <<10, 0, 0, 2>>
HostB == <<93, 184, 216, 34>>
HostC == <<10, 0, 0, 1>>
IPv4Packet(ihl, length, proto, src, dst) ==
    <<64 + ihl, 0>> \o <<length \div 256, length % 256>> \o <<0, 0, 0, 0, 64, proto, 0, 0>> \o src \o dst
IPv6Host(x) == [i \in 1..16 |-> IF i = 1 THEN 254 ELSE IF i = 16 THEN x ELSE 0]
IPv6Packet(len, proto) == <<96, 0, 0, 0, 0, len, proto, 64>> \o IPv6Host(1) \o IPv6Host(2)

SampleIPPackets ==
    {IPv4Packet(5, 20, 6, HostA, HostB), IPv4Packet(5, 20, 17, HostB, HostA),
     IPv4Packet(5, 20, 1, HostA, HostC), IPv4Packet(6, 20, 6, HostA, HostB),
     IPv4Packet(4, 20, 6, HostA, HostB), IPv6Packet(0, 58),
     SubSeq(IPv6Packet(0, 58), 1, 30), SubSeq(IPv4Packet(5, 20, 6, HostA, HostB), 1, 19),
     [IPv4Packet(5, 20, 6, HostA, HostB) EXCEPT ![1] = 85]}

\* The limb arithmetic against published FNV-1a 64 values: the empty
\* input, "a" and "foobar".
FnvKnownAnswers ==
    /\ FnvHash(<<>>) = FnvBasis
    /\ FnvHash(<<97>>) = <<60556, 34305, 56396, 44899>>
    /\ FnvHash(<<102, 111, 111, 98, 97, 114>>) = <<26600, 63289, 16753, 34196>>
=============================================================================
