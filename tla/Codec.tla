------------------------------- MODULE Codec -------------------------------
(***************************************************************************)
(* The wire format of an ACK frame: the Tapir codec (pkg/codec/tapir.go)  *)
(* and the length arithmetic of the encryptors (pkg/encryptor), byte for  *)
(* byte.  A byte is a number in 0..255 and a []byte a sequence of them.   *)
(* A ciphertext is modelled by what the receive path depends on: its      *)
(* length, GetLength of the plaintext's, and the plaintext the key gives  *)
(* back.                                                                  *)
(***************************************************************************)
EXTENDS Naturals, Sequences, Bitwise, PacketDecoder
LOCAL INSTANCE SequencesExt

CONSTANTS
    Encryption,  \* Tunnel.Encryption: "none", "aes-256-ecb" or "aes-256-gcm"
    MTU          \* Tunnel.MTU, also the codec's PayloadSize

HeaderSize      == 12   \* entity.HeaderSize
AckEndpointSize == 9    \* acknowledgementEndpointSize: u64 endpoint, u8 count
AckIdSize       == 4
MessageTypes    == 1..5 \* Authentication .. Reset: MessageType.Valid
MessageTypeData == 3

\* Header flags, flagError = 1 << 0 and on.
FlagError == 1
FlagRequest == 2
FlagACK == 4
FlagLZ4 == 8
FlagLZO == 16
FlagZSTD == 32

\* CompressionType: none, lz4, lzo, zstd.
CompressionNone == 0
CompressionLZ4  == 1
CompressionLZO  == 2
CompressionZSTD == 3

\* byteOrder (binary.BigEndian): PutUint<8n> writes v mod 2^(8n) in n
\* bytes, most significant first; Uint<8n> reads them back.
RECURSIVE PutUint(_, _)
PutUint(v, n) == IF n = 0 THEN <<>> ELSE PutUint(v \div 256, n - 1) \o <<v % 256>>
GetUint(b) == FoldLeft(LAMBDA acc, x : acc * 256 + x, 0, b)

\* Encryptor.GetLength for each method, and the method GetEncryptor picks.
GetLengthNone(p) == p
GetLengthECB(p)  == (p + 16) - (p % 16)          \* PKCS#5 padding to aes.BlockSize
GetLengthGCM(p)  == p + 12 + 16               \* nonce and tag
GetLength(p) ==
    CASE Encryption = "none"        -> GetLengthNone(p)
      [] Encryption = "aes-256-ecb" -> GetLengthECB(p)
      [] Encryption = "aes-256-gcm" -> GetLengthGCM(p)

\* Encrypt(data): a ciphertext of GetLength(len(data)) bytes; Decrypt with
\* the same key gives data back.
Encrypt(data) == [len |-> GetLength(Len(data)), plain |-> data]

\* GetMaxAcknowledgementSize: the ACK accumulator's MaxSize.
MaxAckSize == MTU - GetLength(HeaderSize)

\* The orders in which range over a Go map may visit the keys S.
MapOrders(S) == SetToSeqs(S)

\* MarshalAcknowledgement: a buffer of ack.Size() bytes, then, for the
\* endpoints in map order ord, the u64 endpoint, the u8 count and the u32
\* ids.  A size short of what is written makes the slice writes panic.
MarshalAcknowledgement(data, size, ord) ==
    LET entry(e) == PutUint(e, 8) \o <<Len(data[e]) % 256>>
                    \o FlattenSeq([k \in 1..Len(data[e]) |-> PutUint(data[e][k], 4)])
        content  == FlattenSeq([k \in 1..Len(ord) |-> entry(ord[k])])
    IN [ok |-> Len(content) <= size,
        bytes |-> content \o [k \in 1..(size - Len(content)) |-> 0]]

\* The header Marshal writes: type, flags, u32 id, u32 session id and the
\* u16 length field (uint16 of the encrypted payload's length, 0 when no
\* case of Marshal sets it).
MarshalHeader(type, flags, id, sessionID, lenField) ==
    <<type, flags>> \o PutUint(id, 4) \o PutUint(sessionID, 4) \o PutUint(lenField % 2^16, 2)

\* The header of an ACK.
MarshalAckHeader(id, sessionID, plen) ==
    MarshalHeader(MessageTypeData, FlagACK, id, sessionID, GetLength(plen))

\* sendACK -> sendAsyncUDP: Marshal, encrypt the payload and the header,
\* one datagram of both.
AckDatagram(data, size, ord, sessionID) ==
    LET p == MarshalAcknowledgement(data, size, ord) IN
    [ok |-> p.ok /\ size > 0,
     header |-> Encrypt(MarshalAckHeader(0, sessionID, Len(p.bytes))),
     payload |-> Encrypt(p.bytes)]

\* UnmarshalHeader: size, known type, flags, and the payload length
\* against maxEncryptedPayloadSize = GetLength(PayloadSize).
\* Of the compression flags the first set of LZ4, LZO, ZSTD wins.
UnmarshalHeader(b) ==
    [ok |-> Len(b) = HeaderSize /\ b[1] \in MessageTypes
            /\ GetUint(SubSeq(b, 11, 12)) <= GetLength(MTU) % 2^16,
     type |-> b[1],
     isError |-> (b[2] & FlagError) = FlagError,
     isRequest |-> (b[2] & FlagRequest) = FlagRequest,
     isACK |-> (b[2] & FlagACK) = FlagACK,
     comp |-> CASE (b[2] & FlagLZ4) = FlagLZ4   -> CompressionLZ4
                [] (b[2] & FlagLZO) = FlagLZO   -> CompressionLZO
                [] (b[2] & FlagZSTD) = FlagZSTD -> CompressionZSTD
                [] OTHER                        -> CompressionNone,
     id |-> GetUint(SubSeq(b, 3, 6)),
     sid |-> GetUint(SubSeq(b, 7, 10)),
     plen |-> GetUint(SubSeq(b, 11, 12))]

\* The loop of UnmarshalAcknowledgement from offset i (0-based as in the
\* code): an endpoint needs its 9 bytes and at least one more, and its ids
\* must end inside the data; a later entry of the same endpoint wins.
RECURSIVE UnmarshalAckFrom(_, _, _)
UnmarshalAckFrom(b, i, res) ==
    LET l == Len(b) IN
    IF i >= l THEN [ok |-> TRUE, data |-> res]
    ELSE IF i + AckEndpointSize >= l THEN [ok |-> FALSE, data |-> res]
    ELSE LET eLen == b[i + 9]
             j    == i + AckEndpointSize
             eMax == eLen * AckIdSize + j
         IN IF eMax > l THEN [ok |-> FALSE, data |-> res]
            ELSE UnmarshalAckFrom(b, eMax,
                    (GetUint(SubSeq(b, i + 1, i + 8))
                        :> [k \in 1..eLen |-> GetUint(SubSeq(b, j + 4 * k - 3, j + 4 * k))])
                    @@ res)

UnmarshalAcknowledgementShort(b) ==
    IF Len(b) <= 13 THEN [ok |-> FALSE, data |-> <<>>]
    ELSE UnmarshalAckFrom(b, 0, <<>>)

UnmarshalAcknowledgement(b) ==
    IF Len(b) < 13 THEN [ok |-> FALSE, data |-> <<>>]
    ELSE UnmarshalAckFrom(b, 0, <<>>)

\* UnmarshalPayload for a data frame flagged ACK; no payload leaves the
\* message without one.
UnmarshalAckPayload(h, b) ==
    IF h.plen = 0 THEN [ok |-> FALSE, data |-> <<>>]
    ELSE UnmarshalAcknowledgement(b)

\* readUDP, then UnmarshalPayload, on the receiving side: a read into a
\* buffer of GetLength(MTU) + headerLength bytes, the header decrypted and
\* parsed, the datagram length checked against the header's, the payload
\* decrypted and decoded.
ReadUDP(d) ==
    LET headerLength == GetLength(HeaderSize)
        n == Min({d.header.len + d.payload.len, GetLength(MTU) + headerLength})
        h == UnmarshalHeader(d.header.plain)
    IN [ok |-> n >= headerLength /\ h.ok /\ h.plen + headerLength = n, h |-> h]

\* The receive path of an ACK frame.
ReceiveAck(d) ==
    LET r == ReadUDP(d) IN
    IF ~r.ok \/ r.h.type # MessageTypeData \/ ~r.h.isACK
    THEN [ok |-> FALSE, data |-> <<>>]
    ELSE UnmarshalAckPayload(r.h, d.payload.plain)
-----------------------------------------------------------------------------
(* The other frames: errors, authentication, handshake, data, keepalive.  *)

\* marshalBytes: each field behind a u8 length; a field of 255 bytes or
\* more is ErrMaxBytesSize.
MarshalBytes(fs) ==
    [ok |-> \A i \in DOMAIN fs : Len(fs[i]) + 1 <= 255,
     bytes |-> FlattenSeq([i \in DOMAIN fs |-> <<Len(fs[i]) % 256>> \o fs[i]])]

\* The loop of unmarshalBytes(data, n): take length-prefixed fields until
\* the data ends or n fields are read; a length past the end is
\* ErrWrongBytesSize.  Whatever follows the n-th field is left unread.
RECURSIVE UnmarshalBytesFrom(_, _, _)
UnmarshalBytesFrom(d, n, res) ==
    IF d = <<>> THEN [ok |-> TRUE, fields |-> res]
    ELSE IF d[1] > Len(d) - 1 THEN [ok |-> FALSE, fields |-> <<>>]
    ELSE LET r == Append(res, SubSeq(d, 2, d[1] + 1)) IN
         IF Len(r) = n THEN [ok |-> TRUE, fields |-> r]
         ELSE UnmarshalBytesFrom(SubSeq(d, d[1] + 2, Len(d)), n, r)

UnmarshalBytesAll(d, n) == UnmarshalBytesFrom(d, 0, <<>>)

UnmarshalBytes(d, n) == UnmarshalBytesFrom(d, n, <<>>)

\* addFakeData: with ObfuscateData, rand.Intn(PayloadSize - len(data))
\* random bytes are appended.  fake stands for the draw: one longer than
\* rand.Intn can return is no frame at all (nor is any draw once the data
\* fills PayloadSize, where rand.Intn panics).
AddFakeData(data, obf, fake) ==
    [ok |-> ~obf \/ Len(fake) < MTU - Len(data),
     bytes |-> IF obf THEN data \o fake ELSE data]

\* A compressor's output, as far as the frame depends on it: one byte
\* repeated shrinks to <<1, count, byte>>; anything else is stored whole
\* behind ZstdFrameOverhead bytes of framing (what zstd's raw block costs:
\* frame header with content size, block header, checksum).
ZstdFrameOverhead == 14
Squeeze(in) ==
    IF Len(in) > 0 /\ Len(in) < 256 /\ \A i \in DOMAIN in : in[i] = in[1]
    THEN <<1, Len(in), in[1]>>
    ELSE <<0>> \o [i \in 1..ZstdFrameOverhead - 1 |-> 0] \o in
Unsqueeze(x) ==
    IF x[1] = 1 THEN [i \in 1..x[2] |-> x[3]] ELSE SubSeq(x, ZstdFrameOverhead + 1, Len(x))

\* The compression branch of Marshal: CompressLZ4 and CompressLZO keep the
\* input when their output is not shorter, CompressZSTD always compresses.
Compress(c, in) ==
    LET z == Squeeze(in) IN
    CASE c = CompressionLZ4 /\ Len(z) < Len(in) -> [bytes |-> z, flag |-> FlagLZ4]
      [] c = CompressionLZO /\ Len(z) < Len(in) -> [bytes |-> z, flag |-> FlagLZO]
      [] c = CompressionZSTD                     -> [bytes |-> z, flag |-> FlagZSTD]
      [] OTHER                                   -> [bytes |-> in, flag |-> 0]

\* DecompressLZ4 and DecompressLZO write into PayloadSize bytes and fail
\* beyond; DecodeAll has no limit.
Decompress(c, x) ==
    LET o == Unsqueeze(x) IN [ok |-> c = CompressionZSTD \/ Len(o) <= MTU, bytes |-> o]

\* A message as Marshal reads it: Type, Error, ID, SessionID, the
\* requested CompressionType, and the payload: kind "req" (the five fields
\* of MessageAuthenticationRequest), "resp" (SessionID rsid, then LocalIP
\* and RemoteIP), "hs" (the key), "data" (the packet) or "none".
\* Marshal: the payload and its flags, then the header over both.
MarshalPayload(m, obf, fake) ==
    LET b  == MarshalBytes(m.fields)
        rq == AddFakeData(b.bytes, obf, fake)
        rs == AddFakeData(PutUint(m.rsid, 4) \o b.bytes, obf, fake)
        c  == Compress(m.comp, IF m.fields = <<>> THEN <<>> ELSE m.fields[1])
    IN CASE m.error > 0 -> [ok |-> TRUE, flags |-> FlagError, bytes |-> <<m.error>>]
         [] m.kind \in {"req", "hs"} ->
                [ok |-> b.ok /\ rq.ok, bytes |-> rq.bytes,
                 flags |-> IF m.kind = "req" THEN FlagRequest ELSE 0]
         [] m.kind = "resp" -> [ok |-> b.ok /\ rs.ok, flags |-> 0, bytes |-> rs.bytes]
         [] m.kind = "data" -> [ok |-> TRUE, flags |-> c.flag, bytes |-> c.bytes]
         [] OTHER           -> [ok |-> TRUE, flags |-> 0, bytes |-> <<>>]

Marshal(m, obf, fake) ==
    LET p == MarshalPayload(m, obf, fake)
        l == IF m.kind = "none" /\ m.error = 0 THEN 0 ELSE GetLength(Len(p.bytes))
    IN [ok |-> p.ok, header |-> MarshalHeader(m.type, p.flags, m.id, m.sid, l),
        payload |-> p.bytes]

\* sendAsyncUDP: the encrypted header, then the payload, encrypted only
\* when it is not empty.
Datagram(f) ==
    [header |-> Encrypt(f.header),
     payload |-> IF f.payload = <<>> THEN [len |-> 0, plain |-> <<>>] ELSE Encrypt(f.payload)]

\* UnmarshalPayload: the message it leaves, in the terms of the sender's.
\* ok is FALSE on an error and where the code would index an empty field.
Decoded(error, kind, fields, rsid) ==
    [ok |-> TRUE, error |-> error, kind |-> kind, fields |-> fields, rsid |-> rsid]
Undecoded == [Decoded(0, "none", <<>>, 0) EXCEPT !.ok = FALSE]

UnmarshalPayload(h, b) ==
    LET rq == UnmarshalBytes(b, 5)
        rs == UnmarshalBytes(SubSeq(b, 5, Len(b)), 2)
        hs == UnmarshalBytes(b, 1)
        dc == Decompress(h.comp, b)
    IN CASE h.plen = 0 -> Decoded(0, "none", <<>>, 0)
         [] h.isError -> IF Len(b) < 1 THEN Undecoded ELSE Decoded(b[1], "none", <<>>, 0)
         [] h.type = 1 /\ h.isRequest ->
                IF rq.ok /\ Len(rq.fields) = 5 /\ rq.fields[4] # <<>> /\ rq.fields[5] # <<>>
                THEN Decoded(0, "req", rq.fields, 0) ELSE Undecoded
         [] h.type = 1 ->
                IF Len(b) >= 14 /\ rs.ok /\ Len(rs.fields) = 2
                THEN Decoded(0, "resp", rs.fields, GetUint(SubSeq(b, 1, 4))) ELSE Undecoded
         [] h.type = 2 ->
                IF hs.ok /\ Len(hs.fields) = 1 THEN Decoded(0, "hs", hs.fields, 0) ELSE Undecoded
         [] h.type = 3 /\ ~h.isACK /\ h.comp = CompressionNone -> Decoded(0, "data", <<b>>, 0)
         [] h.type = 3 /\ ~h.isACK ->
                IF dc.ok THEN Decoded(0, "data", <<dc.bytes>>, 0) ELSE Undecoded
         [] OTHER -> Decoded(0, "none", <<>>, 0)

\* The receive path of any frame but an ACK: readUDP, then the header's
\* id and session id and the decoded payload.
Receive(d) ==
    LET r == ReadUDP(d) IN
    IF ~r.ok THEN [ok |-> FALSE]
    ELSE [ok |-> TRUE, type |-> r.h.type, id |-> r.h.id, sid |-> r.h.sid,
          msg |-> UnmarshalPayload(r.h, d.payload.plain)]

\* The last step of the receive path for user data (IsUserData: a data
\* frame that is not an ACK): the socket's packet decoder, whose failure
\* drops the frame.  Other frames pass with no packet info.
DecodeUserData(r, hashType) ==
    IF r.ok /\ r.type = MessageTypeData /\ r.msg.ok /\ r.msg.kind = "data"
    THEN Decode(r.msg.fields[1], hashType)
    ELSE [Failed EXCEPT !.ok = IF r.ok THEN r.msg.ok ELSE FALSE]

-----------------------------------------------------------------------------
(* The frames the program builds, sampled: ids on both sides of 2^16 and  *)
(* the largest TLC represents, the three fields of a request empty or not, *)
(* every compression type and level byte, a 32-byte X25519 key, packets   *)
(* that compress or do not, up to MTU bytes, and fake data draws that read *)
(* as one more empty field, a field past the end, or one that fits.       *)

SampleHeaders == {[id |-> 258, sid |-> 0], [id |-> 2147483647, sid |-> 65539]}
SampleKey == [i \in 1..32 |-> i]
SamplePackets == {<<7, 7, 7, 7>>, <<5, 6, 7>>, [i \in 1..MTU |-> 9], [i \in 1..MTU |-> i]}
SampleBodies ==
    {[type |-> t, error |-> e, kind |-> "none", fields |-> <<>>, rsid |-> 0, comp |-> 0] :
        t \in {1, 3}, e \in {1, 255}}
    \cup {[type |-> 1, error |-> 0, kind |-> "req", rsid |-> 0, comp |-> 0,
           fields |-> <<<<1, 2>>, n, pw, <<ct>>, <<cl>>>>] :
            n \in {<<>>, <<5>>}, pw \in {<<>>, <<6, 6>>}, ct \in 0..3, cl \in {0, 2}}
    \cup {[type |-> 1, error |-> 0, kind |-> "resp", fields |-> <<<<10, 0, 0, 1>>, <<10, 0, 0, 2>>>>,
           rsid |-> r, comp |-> 0] : r \in {0, 2147483647}}
    \cup {[type |-> 2, error |-> 0, kind |-> "hs", fields |-> <<SampleKey>>, rsid |-> 0, comp |-> 0]}
    \cup {[type |-> 3, error |-> 0, kind |-> "data", fields |-> <<pk>>, rsid |-> 0, comp |-> c] :
            pk \in SamplePackets, c \in 0..3}
    \cup {[type |-> t, error |-> 0, kind |-> "none", fields |-> <<>>, rsid |-> 0, comp |-> 0] :
            t \in {4, 5}}
SampleMessages ==
    {[type |-> b.type, error |-> b.error, kind |-> b.kind, fields |-> b.fields, rsid |-> b.rsid,
      comp |-> b.comp, id |-> h.id, sid |-> h.sid] : b \in SampleBodies, h \in SampleHeaders}
FakeDraws == {<<>>, <<0>>, <<3, 254>>, <<200, 1, 1, 1>>}

\* What the receiver must get back from a message: its error byte alone
\* for an error reply, else its payload.
Expected(m) ==
    IF m.error > 0 THEN Decoded(m.error, "none", <<>>, 0)
    ELSE Decoded(0, m.kind, m.fields, m.rsid)

\* (Checked as part of the connection's WireIntact.)  Marshal (tapir.go),
\* sendAsyncUDP's encryption, readUDP and UnmarshalPayload are inverse: every frame Marshal builds, with or
\* without obfuscation data, whose length field is within the receiver's
\* maxEncryptedPayloadSize passes readUDP and decodes to the type, id,
\* session id and payload it was built from.  It takes unmarshalBytes
\* stopping after n fields so the fake data is never read as a field.
FrameRoundTrip ==
    \A m \in SampleMessages, obf \in BOOLEAN, fake \in FakeDraws :
        LET f == Marshal(m, obf, fake)
            r == Receive(Datagram(f))
        IN f.ok /\ GetUint(SubSeq(f.header, 11, 12)) <= GetLength(MTU)
           => /\ r.ok
              /\ r.type = m.type /\ r.id = m.id /\ r.sid = m.sid
              /\ r.msg = Expected(m)

\* (Checked as part of the connection's WireIntact.)  A packet the sending
\* side's tun listener numbers under an endpoint (wiface getMessageID) and
\* its Retry engine stores under that endpoint reaches the other side's
\* socket loop, through any compression and obfuscation that keep the
\* frame within the receiver's size bound (see FrameRoundTrip), decoded to the
\* same endpoint and protocol: the ACK the receiver pushes for it, and the
\* merger stream it joins, carry the key the sender uses, in both
\* directions of the tunnel.
EndpointsAgree ==
    /\ FnvKnownAnswers
    /\ \A pk \in SampleIPPackets, l \in Links, c \in 0..3, obf \in BOOLEAN,
                                                 fake \in {<<>>, <<3, 254>>} :
          LET s == Decode(pk, l.tx)
              m == [type |-> MessageTypeData, error |-> 0, kind |-> "data", fields |-> <<pk>>,
                    rsid |-> 0, comp |-> c, id |-> 1, sid |-> 1]
              f == Marshal(m, obf, fake)
              u == DecodeUserData(Receive(Datagram(f)), l.rx)
          IN s.ok /\ f.ok /\ GetUint(SubSeq(f.header, 11, 12)) <= GetLength(MTU)
             => u.ok /\ u.endpoint = s.endpoint /\ u.protocol = s.protocol

====
