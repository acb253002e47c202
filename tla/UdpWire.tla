------------------------------- MODULE UdpWire -------------------------------
(***************************************************************************)
(* One datagram of the UDP transport, from the sending call to the        *)
(* handler it reaches.  The sender: Send / SendAsync choose the            *)
(* encryptor, sendUDP / sendAsyncUDP and sendKeepalive encrypt and write   *)
(* the frame.  The receiver: the server's receiverUDP loop                 *)
(* (adapter/server/udp.go) and the client's ReceiverUDP loop with readUDP  *)
(* (adapter/client/udp.go) check and parse the header, pick the            *)
(* encryptor, decrypt and decode the payload, then call the connection's   *)
(* Retry (Keepalive, Ack), its ACK accumulator (Push) and the receiver;    *)
(* and the client's sendSyncUDP, whose reply the authentication and the    *)
(* handshake decode themselves.                                            *)
(*                                                                         *)
(* A ciphertext also records the key that sealed it, "primary"             *)
(* (cfg.PrimaryEncryptor) or "user" (the connection's encryptor from the   *)
(* handshake); a payload decrypted under the other key is refused (GCM's   *)
(* tag; for ECB this stands for bytes that do not decode).                 *)
(***************************************************************************)
EXTENDS TcpWire
LOCAL INSTANCE SequencesExt

\* entity.Message predicates (business/entity/message.go), over a message
\* or a parsed header: both have type and isACK.
IsUserData(m) == m.type = MessageTypeData /\ ~m.isACK
IsSendACK(m)  == m.type = MessageTypeData /\ ~m.isACK
IsPayload(m)  == m.type \notin {MessageTypeReset, MessageTypeKeepalive}

\* GetEndpoint: the decoded packet's endpoint, 0 without packet info.
NoEndpoint == <<0, 0, 0, 0>>

Keyed(c, key) == [len |-> c.len, plain |-> c.plain, key |-> key]
Seal(data, key) == Keyed(Encrypt(data), key)
NoCipher == [len |-> 0, plain |-> <<>>, key |-> "none"]

\* Decrypt(msg.Payload): a frame without payload bytes leaves msg.Payload
\* nil, which every encryptor refuses; the empty encryptor ignores keys.
Unseal(c, key) ==
    [ok |-> c.len > 0 /\ (c.key = key \/ Encryption = "none"), plain |-> c.plain]

-----------------------------------------------------------------------------
(* The sending side.                                                       *)

\* Send (server) and SendAsync (client): user data goes out under the
\* connection's encryptor, every other frame under the primary one.
SenderKey(m) == IF IsUserData(m) THEN "user" ELSE "primary"

\* sendUDP / sendAsyncUDP: the header under the primary encryptor, the
\* payload, when there is one, under the caller's encryptor, written whole
\* (send loops until every byte is out); a frame that must be
\* acknowledged is then handed to the Retry engine.
SendUDP(f, key) ==
    [header |-> Seal(f.header, "primary"),
     payload |-> IF f.payload = <<>> THEN NoCipher ELSE Seal(f.payload, key)]

\* sendKeepalive: the header of a Keepalive, flagged ACK for the answer to
\* a probe, alone under the primary encryptor.
SendKeepalive(sid, ack) ==
    SendUDP([header |-> MarshalHeader(MessageTypeKeepalive, IF ack THEN FlagACK ELSE 0, 0, sid, 0),
             payload |-> <<>>], "primary")

\* The ACK accumulator's sendACK passes no encryptor: the primary one.
SendAck(data, size, ord, sid) ==
    LET d == AckDatagram(data, size, ord, sid) IN
    [ok |-> d.ok, header |-> Keyed(d.header, "primary"), payload |-> Keyed(d.payload, "primary")]

-----------------------------------------------------------------------------
(* The receiving side, per datagram.                                       *)

\* The read and the header checks of receiverUDP and readUDP: a buffer of
\* GetLength(MTU) + headerLength bytes, too short a datagram, a header
\* that does not decrypt or UnmarshalHeader refuses, a payload length that
\* is not the datagram's.
PortRead(d) ==
    LET headerLength == GetLength(HeaderSize)
        n == Min({d.header.len + d.payload.len, GetLength(MTU) + headerLength})
        h == UnmarshalHeader(d.header.plain)
    IN [h |-> h,
        step |-> CASE n < headerLength          -> "short"
                   [] ~h.ok                     -> "badHeader"
                   [] h.plen + headerLength # n -> "badLength"
                   [] OTHER                     -> "read"]

Result(step, msg, acks, endpoint) ==
    [step |-> step, msg |-> msg, acks |-> acks, endpoint |-> endpoint]
Dropped(step) == Result(step, Undecoded, <<>>, NoEndpoint)

\* Mutant: the payload decrypted whatever the frame's type.
PortDecodeAnyType(h, d, enc, hashType) ==
    LET key == IF IsUserData(h) THEN "user" ELSE "primary"
        p   == Unseal(d.payload, key)
        ack == UnmarshalAckPayload(h, p.plain)
        m   == UnmarshalPayload(h, p.plain)
        pk  == IF m.kind = "data" THEN Decode(m.fields[1], hashType) ELSE Failed
    IN CASE IsUserData(h) /\ enc # "user" -> Dropped(enc)
         [] ~p.ok -> Dropped("decrypt")
         [] h.type = MessageTypeData /\ h.isACK /\ ~h.isError ->
                IF ack.ok THEN Result("decoded", m, ack.data, NoEndpoint) ELSE Dropped("payload")
         [] ~m.ok \/ (IsUserData(h) /\ ~pk.ok) -> Dropped("payload")
         [] OTHER -> Result("decoded", m, <<>>, IF IsUserData(h) THEN pk.endpoint ELSE NoEndpoint)

\* The encryptor: for user data the connection's, from getUserEncryptor,
\* which enc describes: "user" (set by the handshake), "nil" (not yet) or
\* "gone" (ErrConnectionNotExists); else the primary one.  Then, for a
\* frame that has a payload (IsPayload), Decrypt and UnmarshalPayload (an
\* ACK's ids, an error byte, or the type's fields), and for user data the
\* socket's packet decoder; each failure drops the frame.
PortDecode(h, d, enc, hashType) ==
    LET key == IF IsUserData(h) THEN "user" ELSE "primary"
        p   == Unseal(d.payload, key)
        ack == UnmarshalAckPayload(h, p.plain)
        m   == UnmarshalPayload(h, p.plain)
        pk  == IF m.kind = "data" THEN Decode(m.fields[1], hashType) ELSE Failed
    IN CASE IsUserData(h) /\ enc # "user" -> Dropped(enc)
         [] ~IsPayload(h) -> Result("decoded", Decoded(0, "none", <<>>, 0), <<>>, NoEndpoint)
         [] ~p.ok -> Dropped("decrypt")
         [] h.type = MessageTypeData /\ h.isACK /\ ~h.isError ->
                IF ack.ok THEN Result("decoded", m, ack.data, NoEndpoint) ELSE Dropped("payload")
         [] ~m.ok \/ (IsUserData(h) /\ ~pk.ok) -> Dropped("payload")
         [] OTHER -> Result("decoded", m, <<>>, IF IsUserData(h) THEN pk.endpoint ELSE NoEndpoint)

\* What a datagram leads to: a handler call with the frame it was given,
\* or one of the loop's other outcomes.
Event(call, h, r) ==
    [call |-> call, type |-> h.type, id |-> h.id, sid |-> h.sid,
     msg |-> r.msg, acks |-> r.acks, endpoint |-> r.endpoint]
Outcome(call) ==
    [call |-> call, type |-> 0, id |-> 0, sid |-> 0, msg |-> Undecoded, acks |-> <<>>,
     endpoint |-> NoEndpoint]

\* The handlers of a decoded frame: Keepalive (a probe; Retry answers it)
\* or Ack(nil) for a keepalive, Ack(ids) for an ACK, else the receiver,
\* after Ack.Push(id, endpoint) for user data.
Dispatch(h, r) ==
    CASE h.type = MessageTypeKeepalive -> Event(IF h.isACK THEN "alive" ELSE "keepalive", h, r)
      [] h.isACK                       -> Event("ack", h, r)
      [] IsSendACK(h)                  -> Event("push+receive", h, r)
      [] OTHER                         -> Event("receive", h, r)

\* The server's receiverUDP, one iteration: a header that does not
\* decrypt or parse disconnects the sender's connection, every other
\* failure is `continue`.  The port's engines (connectionControl) exist
\* for frames with a session id; a keepalive, an ACK or user data without
\* one calls a method of the nil Retry or Ack and panics.
ServerStep(d, enc) ==
    LET rd == PortRead(d)
        r  == PortDecode(rd.h, d, enc, ServerSockHash)
    IN CASE rd.step = "badHeader" -> Outcome("disconnect")
         [] rd.step # "read" \/ r.step # "decoded" -> Outcome("skip")
         [] rd.h.sid = 0 /\ Dispatch(rd.h, r).call # "receive" -> Outcome("panic")
         [] OTHER -> Dispatch(rd.h, r)

\* The client's ReceiverUDP, one iteration: readUDP returns a nil message
\* and a nil error for a datagram it rejects, and the loop reads its
\* SessionID (a panic); a keepalive is dispatched before the encryptor is
\* looked up, and a missing connection ends the loop.
ClientStep(d, enc) ==
    LET rd == PortRead(d)
        r  == PortDecode(rd.h, d, enc, ClientSockHash)
    IN CASE rd.step # "read" -> Outcome("panic")
         [] rd.h.type = MessageTypeKeepalive -> Dispatch(rd.h, r)
         [] IsUserData(rd.h) /\ enc = "gone" -> Outcome("return")
         [] r.step # "decoded" -> Outcome("skip")
         [] OTHER -> Dispatch(rd.h, r)

\* sendSyncUDP's reply, the next datagram readUDP returns (nil for one it
\* rejects), which responseAuthentication and responseHandshake decrypt
\* under the primary encryptor and UnmarshalPayload, dereferencing it
\* first.
SyncReply(d) ==
    LET rd == PortRead(d)
        p  == Unseal(d.payload, "primary")
    IN CASE rd.step # "read" -> [panic |-> TRUE, ok |-> FALSE, msg |-> Undecoded]
         [] ~p.ok -> [panic |-> FALSE, ok |-> FALSE, msg |-> Undecoded]
         [] OTHER -> [panic |-> FALSE, ok |-> TRUE, msg |-> UnmarshalPayload(rd.h, p.plain)]

-----------------------------------------------------------------------------
(* Samples: what the peers send on an established connection.  Messages   *)
(* of the codec's sample other than data and keepalive, with a session id *)
(* or, for authentication and handshake, also without; data carrying the  *)
(* sample IP packets under every compression; keepalives and their        *)
(* answers; ACK batches of one endpoint, as large as MaxAckSize allows.    *)

UdpMessages ==
    {x \in SampleMessages :
        x.type \notin {MessageTypeData, MessageTypeKeepalive} /\ (x.sid # 0 \/ x.type \in {1, 2})}

WithAck(m) ==
    [type |-> m.type, error |-> m.error, kind |-> m.kind, fields |-> m.fields, rsid |-> m.rsid,
     comp |-> m.comp, id |-> m.id, sid |-> m.sid, isACK |-> FALSE]

DataMessage(pk, c) ==
    [type |-> MessageTypeData, error |-> 0, kind |-> "data", fields |-> <<pk>>, rsid |-> 0,
     comp |-> c, id |-> 2147483647, sid |-> 65539, isACK |-> FALSE]

AckSamples == {e :> ids : e \in {1, 258}, ids \in {<<258>>, <<258, 7, 2147483647>>}}

\* The frame's length field is within the receiver's bound.
InBound(f) == GetUint(SubSeq(f.header, 11, 12)) <= GetLength(MTU)

\* The call the sender means a message for, with the endpoint its side
\* keyed the packet under.
Intended(m, endpoint) ==
    [call |-> IF IsSendACK(m) THEN "push+receive" ELSE "receive",
     type |-> m.type, id |-> m.id, sid |-> m.sid,
     msg |-> IF IsPayload(m) THEN Expected(m) ELSE Decoded(0, "none", <<>>, 0),
     acks |-> <<>>, endpoint |-> endpoint]

\* Over UDP each frame a peer sends reaches the handler it is meant for,
\* on both sides' receive loops, with the connection's handshake done: a
\* request, response, error reply or Reset reaches the receiver decoded
\* as it was built; user data is pushed to the ACK accumulator under the endpoint
\* the sender's Retry keys it by and reaches the receiver; an ACK batch
\* reaches Retry.Ack with its ids; a probe reaches Retry.Keepalive and its
\* answer Retry.Ack(nil); and the replies sendSyncUDP returns decode in
\* responseAuthentication and responseHandshake.  No such frame is
\* dropped, disconnects its sender or panics.  (Frames beyond the
\* receiver's size bound are excluded, see ClientSurvivesServerFrames.)
UdpFramesDispatched ==
    /\ \A x \in UdpMessages, obf \in BOOLEAN, fake \in FakeDraws :
          LET m == WithAck(x)
              f == Marshal(m, obf, fake)
              d == SendUDP(f, SenderKey(m))
          IN f.ok /\ InBound(f) =>
                /\ ServerStep(d, "user") = Intended(m, NoEndpoint)
                /\ ClientStep(d, "user") = Intended(m, NoEndpoint)
                /\ m.type \in {1, 2} => SyncReply(d) = [panic |-> FALSE, ok |-> TRUE, msg |-> Expected(m)]
    /\ \A pk \in SampleIPPackets, c \in 0..3, l \in Links :
          LET s == Decode(pk, l.tx)
              m == DataMessage(pk, c)
              f == Marshal(m, FALSE, <<>>)
              d == SendUDP(f, SenderKey(m))
              got == IF l.rx = ServerSockHash THEN ServerStep(d, "user") ELSE ClientStep(d, "user")
          IN s.ok /\ f.ok /\ InBound(f) => got = Intended(m, s.endpoint)
    /\ \A ack \in BOOLEAN :
          LET d == SendKeepalive(65539, ack)
              e == [call |-> IF ack THEN "alive" ELSE "keepalive", type |-> MessageTypeKeepalive,
                    id |-> 0, sid |-> 65539, msg |-> Decoded(0, "none", <<>>, 0), acks |-> <<>>,
                    endpoint |-> NoEndpoint]
          IN ServerStep(d, "user") = e /\ ClientStep(d, "user") = e
    /\ \A a \in AckSamples : \A ord \in MapOrders(DOMAIN a) :
          LET d == SendAck(a, AckEndpointSize + AckIdSize * Len(a[ord[1]]), ord, 65539)
              e == [call |-> "ack", type |-> MessageTypeData, id |-> 0, sid |-> 65539,
                    msg |-> Decoded(0, "none", <<>>, 0), acks |-> a, endpoint |-> NoEndpoint]
          IN d.ok /\ ServerStep(d, "user") = e /\ ClientStep(d, "user") = e

\* Every frame the server's sendUDP builds for the client, of any size
\* the codec lets through, is handled by the client's ReceiverUDP without
\* a panic.  (Violated: see the README.)
ClientSurvivesServerFrames ==
    \A pk \in SampleIPPackets, c \in 0..3 :
        LET f == Marshal(DataMessage(pk, c), FALSE, <<>>)
        IN f.ok => ClientStep(SendUDP(f, "user"), "user").call # "panic"
====
