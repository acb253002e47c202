------------------------------- MODULE TcpWire -------------------------------
(***************************************************************************)
(* Frames over a TCP connection (adapter/server/tcp.go,                   *)
(* adapter/client/tcp.go).  The sender writes each frame's ciphertext,    *)
(* header then payload, until all of it is written; the reader's loop     *)
(* reads the header into a buffer of headerLength bytes, then the         *)
(* payload length the header gives, in as many Read calls as the stream's *)
(* segments take.  A byte of the stream is a token <<frame, part, offset,  *)
(* length>> of the ciphertext it belongs to, and a buffer decrypts only    *)
(* when it is exactly one ciphertext: decrypting any other bytes fails     *)
(* (ECB unpadding, GCM's tag) or yields bytes UnmarshalHeader refuses.     *)
(* The stream's segments are given by cut offsets: a Read returns what     *)
(* its buffer has room for, up to the next cut.  Reading at the end of the *)
(* stream is io.EOF.                                                      *)
(***************************************************************************)
EXTENDS Codec
LOCAL INSTANCE SequencesExt

MessageTypeKeepalive == 4
MessageTypeReset     == 5

\* sendTCP (server): the encrypted header, the payload encrypted when it
\* is not empty, written in a loop until every byte is sent.
SendTCP(f, k) ==
    LET d == Datagram(f)
        cipher(part, n) == [i \in 1..n |-> <<k, part, i, n>>]
    IN cipher("h", d.header.len) \o cipher("p", d.payload.len)

\* sendAsyncTCP (client): the payload is encrypted even when it is empty,
\* which both aes encryptors refuse (ErrEmptyMessagePayload): the call
\* fails and nothing is written.
SendAsyncTCP(f, k) ==
    IF f.payload = <<>> /\ Encryption # "none" THEN <<>> ELSE SendTCP(f, k)

\* sendSyncTCP writes the same way, then reads the reply with readTCP.
SendSyncTCP(f, k) == SendAsyncTCP(f, k)

\* The stream of a connection: each frame's writes in order.
Stream(fs, client) ==
    FlattenSeq([k \in DOMAIN fs |-> IF client THEN SendAsyncTCP(fs[k], k) ELSE SendTCP(fs[k], k)])

\* Decrypt: the plaintext of the frame whose ciphertext the buffer is.
Open(fs, w, part) ==
    IF w # <<>> /\ \E k \in DOMAIN fs : w = [i \in 1..Len(w) |-> <<k, part, i, Len(w)>>]
    THEN [ok |-> TRUE, plain |-> IF part = "h" THEN fs[w[1][1]].header ELSE fs[w[1][1]].payload]
    ELSE [ok |-> FALSE, plain |-> <<>>]

\* conn.Read(buf) with room bytes of buffer, at offset pos of the stream.
ReadLen(s, cuts, pos, room) ==
    LET next == Min({c \in cuts \cup {Len(s)} : c > pos}) IN
    IF room < next - pos THEN room ELSE next - pos

\* The payload loop: for received < PayloadLength { Read(payload[received:]) },
\* from pos with received bytes already counted.  Returns where it stopped
\* and the count, or eof when the stream ends first.
RECURSIVE ReadPayload(_, _, _, _, _)
ReadPayload(s, cuts, pos, received, plen) ==
    IF received >= plen THEN [eof |-> FALSE, pos |-> pos, received |-> received]
    ELSE IF pos = Len(s) THEN [eof |-> TRUE, pos |-> pos, received |-> received]
    ELSE LET n == ReadLen(s, cuts, pos, plen - received)
         IN ReadPayload(s, cuts, pos + n, received + n, plen)

\* msg.Payload = make([]byte, PayloadLength) filled from index received:
\* the bytes read from a to b after `received` zero bytes.
Unfilled == <<0, "z", 0, 0>>
PayloadBuffer(s, a, b, received, plen) ==
    SubSeq([i \in 1..received |-> Unfilled] \o SubSeq(s, a, b), 1, plen)

\* Both loops after a frame is read: the encryptor (the session's for user
\* data, which the model always has), IsPayload's decrypt, UnmarshalPayload
\* and the packet decoder of user data; any failure is `continue`, the
\* frame is dropped and the loop goes on.  Otherwise the receiver gets it.
Deliver(fs, h, w, hashType) ==
    LET p == Open(fs, w, "p")
        r == [ok |-> TRUE, type |-> h.type, id |-> h.id, sid |-> h.sid,
              msg |-> UnmarshalPayload(h, p.plain)]
    IN IF h.type \in {MessageTypeKeepalive, MessageTypeReset}
       THEN <<[type |-> h.type, id |-> h.id, sid |-> h.sid, msg |-> Decoded(0, "none", <<>>, 0)]>>
       ELSE IF p.ok /\ r.msg.ok /\ DecodeUserData(r, hashType).ok
       THEN <<[type |-> h.type, id |-> h.id, sid |-> h.sid, msg |-> r.msg]>>
       ELSE <<>>

\* What a loop records when it ends on a header it cannot read: the
\* server returns and closes the connection; the client's readTCP gives
\* ReceiverTCP a nil message.
Closed     == [type |-> 0, id |-> 0, sid |-> 0, msg |-> Undecoded]
NilMessage == [type |-> 0, id |-> 1, sid |-> 0, msg |-> Undecoded]

-----------------------------------------------------------------------------
(* The server's receiverTCP goroutine: header and payload counters live   *)
(* across frames and are reset once a whole header is in.  It returns on   *)
(* EOF and on a header that does not decrypt or parse.                    *)

\* Mutant: the payload counter is left over from the previous frame.
HeaderDoneKeepsPayload(receivedHeader, receivedPayload) ==
    [header |-> 0, payload |-> receivedPayload]

\* A whole header is in: receivedHeader = 0, receivedPayload = 0.
HeaderDone(receivedHeader, receivedPayload) == [header |-> 0, payload |-> 0]

RECURSIVE ServerLoop(_, _, _, _, _, _, _)
ServerLoop(fs, s, cuts, pos, receivedHeader, receivedPayload, out) ==
    LET headerLength == GetLength(HeaderSize)
        n  == ReadLen(s, cuts, pos, headerLength - receivedHeader)
        rs == HeaderDone(receivedHeader, receivedPayload)
        hd == Open(fs, SubSeq(s, pos + n - headerLength + 1, pos + n), "h")
        h  == UnmarshalHeader(hd.plain)
        pl == ReadPayload(s, cuts, pos + n, rs.payload, h.plen)
        w  == PayloadBuffer(s, pos + n + 1, pl.pos, rs.payload, h.plen)
    IN CASE pos = Len(s) -> out
         [] receivedHeader + n < headerLength ->
                ServerLoop(fs, s, cuts, pos + n, receivedHeader + n, receivedPayload, out)
         [] ~hd.ok \/ ~h.ok -> Append(out, Closed)
         [] pl.eof -> out
         [] OTHER ->
                ServerLoop(fs, s, cuts, pl.pos, rs.header, pl.received,
                           out \o Deliver(fs, h, w, ServerSockHash))

ServerTCP(fs, s, cuts) == ServerLoop(fs, s, cuts, 0, 0, 0, <<>>)

-----------------------------------------------------------------------------
(* The client's ReceiverTCP goroutine calling readTCP, which starts from   *)
(* a fresh header buffer and counters each call.  readTCP returns          *)
(* (nil, 0, nil) on a header that does not decrypt or parse; the loop then *)
(* calls msg.IsUserData() on the nil message.                             *)

RECURSIVE HeaderRead(_, _, _, _)
HeaderRead(s, cuts, pos, receivedHeader) ==
    LET n == ReadLen(s, cuts, pos, GetLength(HeaderSize) - receivedHeader) IN
    IF pos = Len(s) THEN [eof |-> TRUE, pos |-> pos]
    ELSE IF receivedHeader + n < GetLength(HeaderSize)
    THEN HeaderRead(s, cuts, pos + n, receivedHeader + n)
    ELSE [eof |-> FALSE, pos |-> pos + n]

RECURSIVE ClientLoop(_, _, _, _, _)
ClientLoop(fs, s, cuts, pos, out) ==
    LET hr == HeaderRead(s, cuts, pos, 0)
        hl == GetLength(HeaderSize)
        hd == Open(fs, SubSeq(s, hr.pos - hl + 1, hr.pos), "h")
        h  == UnmarshalHeader(hd.plain)
        pl == ReadPayload(s, cuts, hr.pos, 0, h.plen)
    IN CASE hr.eof -> out
         [] ~hd.ok \/ ~h.ok -> Append(out, NilMessage)
         [] pl.eof -> out
         [] OTHER ->
                ClientLoop(fs, s, cuts, pl.pos,
                           out \o Deliver(fs, h, SubSeq(s, hr.pos + 1, pl.pos), ClientSockHash))

ClientTCP(fs, s, cuts) == ClientLoop(fs, s, cuts, 0, <<>>)

-----------------------------------------------------------------------------
(* Samples: what each side sends over TCP.  The client sends requests,     *)
(* handshakes, data and Reset; the server responses, handshakes, data,     *)
(* error replies and Reset.                                               *)

TcpMessage(type, kind, fields, rsid, error, id) ==
    [type |-> type, error |-> error, kind |-> kind, fields |-> fields, rsid |-> rsid,
     comp |-> CompressionNone, id |-> id, sid |-> 7]

TcpPacket == IPv4Packet(5, 20, 6, HostA, HostB)
ClientSends ==
    {<<TcpMessage(1, "req", <<<<1, 2>>, <<5>>, <<>>, <<0>>, <<0>>>>, 0, 0, 0),
       TcpMessage(2, "hs", <<SampleKey>>, 0, 0, 0)>>,
     <<TcpMessage(3, "data", <<TcpPacket>>, 0, 0, 1), TcpMessage(5, "none", <<>>, 0, 0, 0),
       TcpMessage(3, "data", <<TcpPacket>>, 0, 0, 2)>>}
ServerSends ==
    {<<TcpMessage(1, "resp", <<<<10, 0, 0, 1>>, <<10, 0, 0, 2>>>>, 7, 0, 0),
       TcpMessage(3, "data", <<TcpPacket>>, 0, 0, 1)>>,
     <<TcpMessage(1, "none", <<>>, 0, 255, 0), TcpMessage(5, "none", <<>>, 0, 0, 0),
       TcpMessage(3, "data", <<TcpPacket>>, 0, 0, 1)>>}

\* What a receiver must hand on for the frames a sender wrote.
Handed(ms, fs, client) ==
    LET sent == SelectSeq([k \in DOMAIN ms |-> k],
                          LAMBDA k : ~client \/ SendAsyncTCP(fs[k], k) # <<>>)
    IN [j \in DOMAIN sent |-> [type |-> ms[sent[j]].type, id |-> ms[sent[j]].id,
                               sid |-> ms[sent[j]].sid, msg |-> Expected(ms[sent[j]])]]

\* Segment boundaries around the end of the first header and frame.
CutsOf(s, fs) ==
    LET hl == GetLength(HeaderSize)
        e  == Len(SendTCP(fs[1], 1))
    IN {c \in {1, hl - 1, hl, hl + 1, e - 1, e, e + 1, e + hl} : 0 < c /\ c < Len(s)}

\* (Checked as part of the connection's WireIntact.)  However TCP splits
\* the byte stream into reads, the server's receiverTCP hands its receiver
\* exactly the frames the client's sendAsyncTCP/sendSyncTCP wrote, and the
\* client's ReceiverTCP/readTCP exactly the frames sendTCP wrote, in order,
\* each decoded to what it was built from; neither loop closes the
\* connection or reaches readTCP's nil message on a stream of whole frames.
TcpFramesIntact ==
    /\ \A ms \in ClientSends :
          LET fs == [k \in DOMAIN ms |-> Marshal(ms[k], FALSE, <<>>)]
              s  == Stream(fs, TRUE)
          IN \A cuts \in SUBSET CutsOf(s, fs) : ServerTCP(fs, s, cuts) = Handed(ms, fs, TRUE)
    /\ \A ms \in ServerSends :
          LET fs == [k \in DOMAIN ms |-> Marshal(ms[k], FALSE, <<>>)]
              s  == Stream(fs, FALSE)
          IN \A cuts \in SUBSET CutsOf(s, fs) : ClientTCP(fs, s, cuts) = Handed(ms, fs, FALSE)
=============================================================================
