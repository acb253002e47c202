-------------------------------- MODULE Ack --------------------------------
(***************************************************************************)
(* The ACK accumulator of one connection (adapter/ack/ack.go): Push from  *)
(* the receive loop into the buffered senderCh, the accumulator goroutine  *)
(* that batches the ids and sends them as one ACK message, and Stop.       *)
(*                                                                         *)
(* Time is counted in ticks.  Wait is RTO * WaitingTimePercentOfRTO / 100 *)
(* in ticks; age counts the ticks since firstAckTime (the first id of the  *)
(* batch) and quiet the ticks since the select was entered, which is when  *)
(* its time.After was created.  Both stop counting at Wait, the only       *)
(* value any test compares them with.                                      *)
(***************************************************************************)
EXTENDS AckData, UdpWire, FiniteSets

CONSTANTS
    Endpoints,   \* endpoints of the acknowledged frames
    FrameIds,    \* Message.ID values of the acknowledged frames
    Wait,        \* the waiting time in ticks
    MaxPushes    \* number of Push calls of a behaviour

ASSUME Wait \in Nat /\ MaxPushes \in Nat /\ MaxSize >= EndpointSize + IdSize

VARIABLES
    senderCh,    \* the channel: a sequence of [e, id, tag]
    acc,         \* ackIDs of the accumulator goroutine
    batch,       \* firstAckTime # 0
    age,         \* ticks since firstAckTime
    quiet,       \* ticks since the current select began
    apc,         \* accumulator goroutine: "loop" or "exited"
    ctxDone,     \* a.ctx cancelled (Stop)
    pushes,      \* ghost: Push calls so far, also the next tag
    sentTags,    \* ghost: tags of the ids sent in ACK messages
    sentBatch    \* ghost: the last ackIDs sendACK put on the wire

vars == <<senderCh, acc, batch, age, quiet, apc, ctxDone, pushes, sentTags, sentBatch>>

\* make(chan message, cfg.MaxSize)
ChanCap == MaxSize

Init ==
    /\ senderCh = <<>> /\ acc = NewAck /\ batch = FALSE
    /\ age = 0 /\ quiet = 0 /\ apc = "loop" /\ ctxDone = FALSE
    /\ pushes = 0 /\ sentTags = {} /\ sentBatch = NewAck

\* Push(msgID, endpoint): the receive loop's send on senderCh, which
\* blocks while the channel is full.
Push(e, x) ==
    /\ pushes < MaxPushes /\ Len(senderCh) < ChanCap
    /\ senderCh' = Append(senderCh, [e |-> e, id |-> [id |-> x, tag |-> pushes + 1]])
    /\ pushes' = pushes + 1
    /\ UNCHANGED <<acc, batch, age, quiet, apc, ctxDone, sentTags, sentBatch>>

Stop ==
    /\ ~ctxDone
    /\ ctxDone' = TRUE
    /\ UNCHANGED <<senderCh, acc, batch, age, quiet, apc, pushes, sentTags, sentBatch>>

\* send(): sendACK (a no-op for an empty accumulator, otherwise one ACK
\* message through the sender), Reset, firstAckTime = 0.
Flush(a) == sentTags \cup Tags(a)

\* sendACK's guard: an empty accumulator sends nothing.
SendACK(a) ==
    /\ sentTags' = Flush(a)
    /\ sentBatch' = IF a.size = 0 THEN sentBatch ELSE a

\* Slip: the id that did not fit is not pushed again after the flush.
AfterSendNoRepush(r, m) == NewAck

\* The accumulator after send(): empty, or holding the id that did not
\* fit, pushed again (its result is ignored).
AfterSend(r, m) == IF r.ok THEN NewAck ELSE AckPush(NewAck, m.e, m.id).acc

\* case msg := <-a.senderCh: stamp firstAckTime if the batch is new, push
\* the id, and when Wait has passed since firstAckTime or the id did not
\* fit, send(), then push a rejected id into the emptied accumulator
\* (firstAckTime stays 0 for it).
Recv ==
    /\ apc = "loop" /\ senderCh # <<>>
    /\ LET m     == Head(senderCh)
           start == ~batch
           r     == AckPush(acc, m.e, m.id)
           late  == (IF start THEN 0 ELSE age) >= Wait
       IN IF late \/ ~r.ok
          THEN /\ SendACK(r.acc)
               /\ acc' = AfterSend(r, m)
               /\ batch' = FALSE /\ age' = 0
          ELSE /\ acc' = r.acc /\ UNCHANGED <<sentTags, sentBatch>>
               /\ batch' = TRUE /\ age' = IF start THEN 0 ELSE age
    /\ senderCh' = Tail(senderCh) /\ quiet' = 0
    /\ UNCHANGED <<apc, ctxDone, pushes>>

\* Slip: the timeout case does not send.
TimeoutNoSend ==
    /\ apc = "loop" /\ quiet >= Wait
    /\ quiet' = 0
    /\ UNCHANGED <<senderCh, acc, batch, age, apc, ctxDone, pushes, sentTags, sentBatch>>

\* case <-time.After(wait): send().
Timeout ==
    /\ apc = "loop" /\ quiet >= Wait
    /\ SendACK(acc)
    /\ acc' = NewAck /\ batch' = FALSE /\ age' = 0 /\ quiet' = 0
    /\ UNCHANGED <<senderCh, apc, ctxDone, pushes>>

\* case <-a.ctx.Done(): return, with whatever ackIDs holds.
Done ==
    /\ apc = "loop" /\ ctxDone
    /\ apc' = "exited"
    /\ UNCHANGED <<senderCh, acc, batch, age, quiet, ctxDone, pushes, sentTags, sentBatch>>

\* One tick of the clock.
Tick ==
    /\ apc = "loop"
    /\ quiet < Wait \/ (batch /\ age < Wait)
    /\ quiet' = IF quiet < Wait THEN quiet + 1 ELSE quiet
    /\ age' = IF batch /\ age < Wait THEN age + 1 ELSE age
    /\ UNCHANGED <<senderCh, acc, batch, apc, ctxDone, pushes, sentTags, sentBatch>>

\* The goroutine has returned and nobody pushes any more.
Finished ==
    /\ apc = "exited" /\ pushes = MaxPushes
    /\ UNCHANGED vars

Next ==
    \/ \E e \in Endpoints, x \in FrameIds : Push(e, x)
    \/ Stop \/ Recv \/ Timeout \/ Done \/ Tick \/ Finished

\* The accumulator goroutine is scheduled and the clock advances.
Fairness == WF_vars(Recv) /\ WF_vars(Timeout) /\ WF_vars(Done) /\ WF_vars(Tick)

Spec == Init /\ [][Next]_vars /\ Fairness

-----------------------------------------------------------------------------
ChannelTags == {senderCh[j].id.tag : j \in 1..Len(senderCh)}

TypeOK ==
    /\ senderCh \in Seq([e : Endpoints, id : [id : FrameIds, tag : 1..MaxPushes]])
    /\ Len(senderCh) <= ChanCap
    /\ acc.size \in 0..MaxSize /\ DOMAIN acc.data \subseteq Endpoints
    /\ batch \in BOOLEAN /\ age \in 0..Wait /\ quiet \in 0..Wait
    /\ apc \in {"loop", "exited"} /\ ctxDone \in BOOLEAN
    /\ pushes \in 0..MaxPushes /\ sentTags \subseteq 1..MaxPushes
    /\ sentBatch.size \in 0..MaxSize

\* The accumulator is always encodable as one ACK payload: its byte count
\* is what MarshalAcknowledgement writes (the buffer is allocated from it),
\* it fits in MaxSize, and no endpoint holds more ids than its u8 count.
WireEncodable ==
    /\ acc.size = EncodedSize(acc)
    /\ acc.size <= MaxSize
    /\ \A e \in DOMAIN acc.data : Len(acc.data[e]) <= MaxUint8

\* No acknowledgement is lost inside the accumulator: every pushed id is
\* in the channel, in ackIDs, or was sent, also when Push failed for lack
\* of room and the batch was flushed first.
NoAckDropped ==
    \A t \in 1..pushes : t \in ChannelTags \cup Tags(acc) \cup sentTags

\* While the accumulator runs, every pushed id is eventually sent in an
\* ACK message, even when no further frame arrives.
AckEventuallySent ==
    \A t \in 1..MaxPushes :
        t \in ChannelTags \cup Tags(acc) ~> (t \in sentTags \/ ctxDone)

\* The ids of an accumulator as they go on the wire, per endpoint.
AckIds(a) == [e \in DOMAIN a.data |-> [k \in 1..Len(a.data[e]) |-> a.data[e][k].id]]

\* Every frame the connection sends reaches the peer intact.  Every batch
\* sendACK sends: in any order of the map, the datagram sendAsyncUDP
\* builds from ackIDs (a buffer of Size() bytes) passes the peer's readUDP
\* length checks and UnmarshalHeader, and UnmarshalAcknowledgement gives
\* back exactly the ids of every endpoint, in order.  And every other
\* frame within the peer's size bound decodes to what it was built from
\* (Codec's FrameRoundTrip, the same in every state), and a tunnelled
\* packet keeps its endpoint (Codec's EndpointsAgree); over TCP, however
\* the stream is cut into reads, each loop hands on exactly the frames the
\* other side wrote (TcpWire's TcpFramesIntact).
WireIntact ==
    /\ FrameRoundTrip
    /\ EndpointsAgree
    /\ TcpFramesIntact
    /\ sentBatch.size > 0 =>
          \A ord \in MapOrders(DOMAIN sentBatch.data) :
              LET d == AckDatagram(AckIds(sentBatch), sentBatch.size, ord, 1) IN
              d.ok /\ ReceiveAck(d) = [ok |-> TRUE, data |-> AckIds(sentBatch)]

\* Over UDP every frame either peer sends reaches the handler it is meant
\* for (UdpWire's UdpFramesDispatched), and the batch sendACK last put on
\* the wire, sealed with the primary key in any order of its endpoints,
\* reaches Retry.Ack with exactly its ids on the server's port loop and
\* on the client's ReceiverUDP.
UdpDispatched ==
    /\ UdpFramesDispatched
    /\ sentBatch.size > 0 =>
          \A ord \in MapOrders(DOMAIN sentBatch.data) :
              LET d == SendAck(AckIds(sentBatch), sentBatch.size, ord, 65539)
              IN \A r \in {ServerStep(d, "user"), ClientStep(d, "user")} :
                    r.call = "ack" /\ r.acks = AckIds(sentBatch)
====
