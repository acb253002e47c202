# TLA+ models of tapir

tapir is a user-space VPN. The client reads IP packets from a TUN device and
numbers them per flow ("endpoint"). It encrypts them and spreads them over
several UDP (or TCP) connections to the server. The server decrypts them,
puts each flow back in order in the *stream merger*, and writes them to its own
TUN device. Replies take the same path in the other direction.

Reliability over UDP comes from three parts. A *retry engine* retransmits a
frame until it is acknowledged. An *ACK accumulator* batches the
acknowledgements. Keepalive probes detect a dead peer.

This directory holds TLA+ modules for the parts whose behaviour depends on
ordering, loss, timing and concurrency. It also holds the TLC configurations
that check them, and `PROJECT.json`. That file lists every component (modelled
or not), every run, the mutants that show each property can fail, the map from
definitions to source lines, the findings and the hazards.

## Inventory of the system

| Component | Source | State | Operations | Hard behaviour |
|---|---|---|---|---|
| Stream merger, waiting list | `adapter/merger/wlist.go` | `lastID`, `firstSent`, sorted `data`, `idsMap`, `dataSize`, `firstMessageTs` | `send`, `push`, `pop`, `reset` | uint32 wrap of ids, insertion scan, drain loop, size accounting |
| Stream merger, worker loops | `adapter/merger/stream.v2.go`, `stream.v1.go` | one waiting list per (session, endpoint) | dedup test, pop, direct send, push, reset on size or TTL, idle expiry (V2) | reordering, duplicates, loss, reset across a gap, first message of a stream |
| Stream merger, table | `merger.v2.go`, `merger.v1.go` | sessions (ctx/cancel), `streams` map of channels | `CreateStream`, `DeleteStream`, `Push`, checker tick | worker exit vs. `Push` on the same channel, checker nil before the first message |
| Retry engine | `adapter/retry/retry.go` | `messages` map, per-message timer goroutine and `attempts`, `srtt`/`rttvar`/`rto`, keepalive loop (`lastAck`, `probes`), `keepaliveCh` (capacity `KeepaliveProbes`) | `Push`, `Ack`, `Keepalive`, `Stop`, timer expiry, keepalive tick | Karn's rule racing the timer, deferred delete by key, blocking send on `keepaliveCh` after `Stop` |
| ACK accumulator | `adapter/ack/ack.go`, `business/entity/ack.go` | `senderCh`, `ackIDs` (per endpoint ids, encoded size), `firstAckTime` | `Push`, accumulator loop (message, timeout, stop), `MessageAcknowledgement.Push/Reset` | size limit and 255 ids per endpoint, re-push after a failed push, no flush at stop |
| Server port loop | `adapter/server/udp.go`, `server.v1.go` | `connectionControl` per session, `curSessionsCount`, `maxSessionsCount`, `droppedSessions` | frame handling (keepalive, ACK, data), soft session cap, `DropSession` | stopped Retry/Ack still reachable from the loop |
| Server sessions | `business/usecase/server*.go` | `sessions`, `client2session`, `interfaces`, connections | authentication, handshake, data, reset, disconnect, `dropSession` | authentication split across several locks while an engine timeout on another port deletes the session; kernel reuse of tun names; early return in `dropSession` |
| Client connections | `business/usecase/client*.go` | `connections` slice with stored `idx`, `connectionsMap`, `interfaceConn`, `isConnected`, `isExit`, session id | sequential connect with attempts, disconnect and reconnect once, reset, `Stop`, `Exit`, `commandData` | stale slice index after a removal, `Exit` racing a disconnect, `Stop` racing `commandData` |
| Sequence pool | `adapter/wiface/iface.go` | per-endpoint counter and timestamp, `maxEndpoints` | `getMessageID`, eviction and `maxEndpoints` adjustment | counter restart while the peer's stream still holds a high `lastID` |
| Packet decoder | `adapter/packet/decoder.go`, `deploy/*/` | none (pure) | `Decode` (IPv4, IPv6), `fnvHash`, `fastHash`; the hash type each decoder is built with | 64-bit FNV wrap-around, header length checks, which address each side hashes |
| TCP framing | `adapter/server/tcp.go`, `adapter/client/tcp.go` | header and payload counters, header buffer | `sendTCP`, `sendAsyncTCP`, `sendSyncTCP`'s write, `receiverTCP`, `ReceiverTCP`, `readTCP` | a frame split over any number of reads, counters carried across frames, a header that does not decrypt |
| Codec, encryptors, compression | `pkg/codec/tapir.go`, `pkg/encryptor/*.go`, `pkg/compression/compress.go` | none (pure) | marshal/unmarshal, `GetLength`, compress | field length limits, padding, obfuscation bytes after the fields, compression that grows a frame |
| Connection manager and statistics | `business/usecase/connection.manager*.go`, `adapter/grpc/server/server.go` | `connections` map, `inStatCh` (capacity = number of connections), `updated`/`init` flags, `outStatCh` under `statMux` | `Connect`, `Disconnect`, `Shutdown`, statistic handler, statistics goroutine tick, gRPC `StatisticStream` | a handler left running after a failed `Start`, a tick blocked sending to a stream whose receiver left while port loops block on a full `inStatCh` |
| UDP datagram path | `adapter/server/udp.go`, `adapter/client/udp.go`, `pkg/encryptor/aes.gcm.go` | none per datagram (the session's `Retry`/`Ack` it reaches) | `sendUDP`, `sendKeepaliveUDP`, `readUDP`, `decodeUDP`, the port loop's dispatch, `ReceiverUDP`, `sendSyncUDP` | header and payload under different keys, length checks against the MTU, a nil message returned with a nil error, session id 0 |

The server is built with `server.NewV1` and `merger.New` in
`deploy/server/main.go`. `merger.New` picks the V2 merger for `ThreadingBy`
`endpoint` (the default) and V1 for `session`; `Merger.tla` composes both. The
gnet server (`server.v2.go`) is not used by any entry point and is not
modelled.

Not modelled, with the reason given in `PROJECT.json`: the TCP accept loop
and socket setup, the GUI, the gRPC and HTTP control beyond
`StatisticStream`, configuration, logging and deploy entry points. They are either pure I/O or
data transformation that no protocol property depends on.


## What is modelled now

### `WaitingList.tla`: the reordering buffer (`wlist.go`)

The struct is a record with the same fields. Each method is an operator that
takes a list (and a message) and returns the new list together with the
messages it handed to the sender callback, in order:

- `Pop` is `pop(req)`. `RunLength` is its drain loop.
- `Push` and `PushPos` are `push`, including the uint32 difference scan and
  its "wrong waiting list sort" error.
- `Reset` is `reset`.
- `SendTo` is `send`.

Ids are `IdBits` wide. `lastID+1` and `req.ID - data[i].ID` wrap as in Go
(`Succ`, `Diff`). Each message also carries a ghost `seq`, its position in the
flow, which the properties use.

### `StreamWorker.tla`: one flow through the merger

This module models the worker loop body (`stream.v2.go` lines 47-128,
`stream.v1.go` lines 37-92) for one (session, endpoint). `ThreadingBy` selects
the V2 or the V1 rule for the first message. `Handle(m)` has one disjunct per
exit of the loop body:

- `Discard`: the duplicate test.
- `PopWith`: `pop(req)`.
- `SendDirect`: the direct send followed by `pop(nil)`.
- `Buffer`: `push`, then a reset on size or TTL, or the `Fatalf` on a sort
  error.

The worker owns its list and handles one message at a time, so one pass of the
loop is one step.

The environment around the worker:

- `SendNext` numbers packets as `getMessageID` does: the counter starts at 0
  and is incremented before use.
- The path loses packets (`Lose`, at most `MaxLosses`) and reorders them (any
  in-flight packet may be received next).
- The path duplicates received packets (`Duplicate`, at most `MaxDuplicates`),
  as happens when an ACK is lost or late.
- `Retransmit` is the retry timer firing for a packet that has not been
  received.
- `Tick` advances the clock. `Idle` is the quiescent end state, reached when all
  packets are sent and acknowledged.

`ReorderWindow` bounds how far apart the packets in flight may be.

**Fairness.** Fairness is weak on receiving each in-flight packet, on
retransmitting each unacknowledged packet, and on sending. The code justifies
this:

- the retry timer keeps firing until the ACK arrives;
- losses are bounded in the model, so one of the copies gets through;
- the worker goroutine always drains its channel.

In the code, retransmission stops after `MaxTimeout`. The liveness property
therefore assumes a path that delivers within that time.

**Refinement.** `InOrderDelivery.tla` is what the merger promises one
endpoint's receiver, written without waiting lists. The sender numbers
packets 1, 2, and so on. The receiver is handed, in steps of one or more,
packets numbered after the last one handed, in increasing order. Packets
may be passed over, but while a newer packet has been sent, delivery never
stops (`WF` on `Hand`). `StreamWorker` instantiates it with `numbered <- sent`
and `handed` mapped to the seqs of `delivered`. The `stream` run checks
`ImplementsInOrderDelivery == InOrder!Spec` as a property. Every exit of the
loop body, including drains and resets, is therefore a `Hand` step or a
stutter, and the worker's fairness gives the abstract `WF`.

### `MergerV2.tla`: the V2 stream table (`merger.v2.go`)

This module models one session and one stream key. Two port loops (`Pushers`)
call `Push` concurrently. `Push` is two steps, because the channel can change
under a `Push` that holds only the read lock:

- `PushLoad`: take `RLock`, look up the session, `LoadOrStore` the channel,
  and start a worker if the channel was stored.
- `PushSend`: send on the channel, then `RUnlock`.

`DeleteStream` takes the write lock, so it waits until no `Push` holds the read
lock. The checker takes no lock: `CheckerLoad` is the `Range`, `CheckerSend`
the send of nil. Each worker has these steps:

- `WorkerRecv`: a message, or a nil that ends the loop when the stream is
  stale.
- `WorkerCancel`: `ctx.Done`.
- `ExitLoop`, then `WorkerClose`: the deferred `streams.Delete` followed by
  `close(ch)`.

`Age` stands for `StreamTTL` seconds passing without a message. A new worker
starts stale, because `lastMessageTs` is the zero time. A send on a closed
channel sets `panicked`, which stops the process: there is no `recover` in the
code.

The channel capacity is 2 (the code uses 100). What matters is whether a
channel is empty, holds a nil, or holds a nil followed by a message, and two
slots cover that. The model has 3 messages and 3 stream generations.
The initial state chooses `checkerEnabled` from `CheckerModes`. FALSE is the
code path where `StreamTTL` or `StreamCheckInterval` is 0, and one run covers
both settings.

**Fairness.** Fairness is weak on each started goroutine's steps: workers
draining their channel, the deferred close, a blocked `Push` send, and the
checker's send. Go schedules every runnable goroutine.

**Wiring.** `Wirings` says who calls `DeleteStream`. In the client (`Stop`,
`Exit`) no lock is held. In the server, `removeConnection` and `dropSession`
hold `connMux` while calling it, and the receiver a worker calls
(`commandData`) read-locks `connMux`. `ConnMuxHeld` is that lock.
`NoLockCycle` says the wait cycle never forms: `DeleteStream` waiting for the
write lock, a `Push` holding the read lock blocked on a full channel, and that
channel's worker inside the receiver waiting for `connMux`.
`DeleteCall` is coarser than the code: in one step the caller takes
`connMux` and `DeleteStream` requests the write lock. So no `Push` can start
between the two. The cycle is still reached without that window.

### `MergerV1.tla` and `Merger.tla`: the V1 table and the choice between them

`MergerV1.tla` models `merger.v1.go` and `stream.v1.go` for one session id
that may be created, deleted and created again (`MaxStreams` generations).
There is one channel and one worker per session:

- `CreateStream` (write lock): make the channel and start its worker.
- `PushLoad`, `PushSend`: under the read lock, look up the session (a
  missing one is `rejected`, the reset sent to the peer) and send.
- `DeleteCall`, `DeleteLock`, `DeleteSendNil`, `DeleteClose`: the caller
  asks, the write lock is taken, nil is sent, the channel is closed and
  forgotten before unlocking.
- `WorkerRecv`, `WorkerDeliver`: the worker takes a message and hands it to
  the receiver (appended to `processed`); nil ends it.

What the worker does with the waiting list is left to `StreamWorker.tla`.
Because `DeleteStream` closes under the write lock and `Push` sends under the
read lock, no send meets a closed channel; `DeleteStream` may block on its nil
send while the channel is full, and returns once the worker drains it.

`Merger.tla` composes the two as `merger.New` does: the initial state picks
`threadingBy` from `ThreadingModes`, and every step is a step of the chosen
merger while the other keeps its initial state. Each keeps its own fairness.
The V1 variables are renamed with `INSTANCE ... WITH`.

**Refinement.** `SessionMailbox.tla` is what either merger promises the use
case about the data messages of one session: while the session is open a
message given to `Push` is accepted, while it is closed it is rejected (the
reset to the peer), and every accepted message is handed to the receiver
exactly once. With `MayDrop`, accepted messages still undelivered after the
session is closed may be discarded. `Merger.tla` instantiates it twice:

- `MailboxV1` (`MayDrop` FALSE): `open` is "a stream exists"; the inbox is
  every message held by a pusher about to send, sitting in the channel
  buffer, or taken by the worker and not yet delivered.
- `MailboxV2` (`MayDrop` TRUE): the mapping is the same over the V2 variables
  when the checker is off; a cancelled V2 worker leaves its channel
  undrained, which is the discard. With the checker on, V2 is mapped to a
  mailbox that never receives anything, because TTL exits lose messages
  (the `merger_v2_closed_channel` finding) and no mapping can hide that.

`MergersImplementMailbox` checks both specs, fairness included, as a
property of the `merger` run. The mapping definitions (`BufMsgs`, `V1Inbox`,
`V2Inbox`, `V2Claimed`) describe state, not code, so like `InOrderDelivery`
they have no map entry.

### `ConnectionManager.tla`: the client process, its handlers and statistics

`connection.manager.go` keeps one handler (a `ClientUseCase`) per connection
id, all under `connMux`:

- `Connect(id, built, started)`: exit and delete one stored handler (the
  first the map's `range` yields), build a handler and `Start` it. `built`
  and `started` are the two error paths; a handler whose `Start` failed is
  neither stored nor exited, and its connected ports keep running
  (`"failed"`).
- `Disconnect(id)`, `Shutdown`: exit the stored handler(s); `Shutdown` ends
  the process.

The statistics path of `connection.manager.stat.go`:

- `StatCall(r)`, `StatEnqueue(r)`: a live handler's port loop calls the
  statistic handler and blocks until `inStatCh` (capacity = number of
  connections) has room.
- `StatRecv`, `StatTick`, `StatSent`: the statistics goroutine drains
  `inStatCh`, and on a tick with something new (or the first idle tick) takes
  `statMux` and sends on `outStatCh`, blocking until the stream receives.
- `StreamOpen(s)`, `StreamSend(s)`, `StreamUnset(s)`: the gRPC
  `StatisticStream` sets its unbuffered channel, receives and forwards, and
  on return (context done or send error) its deferred
  `SetStatisticChannel(nil)` waits for `statMux`.

Statistic values are abstracted away; the ticker fires at any step.

**Fairness.** Weak fairness on the goroutines' own steps: the enqueue of a
blocked caller, the statistics goroutine's receive, tick and send, and the
stream's `SendMsg` and deferred unset. GUI calls and statistic calls are not
forced.

### `UdpWire.tla`: one datagram from the sender to the handler it reaches

`UdpWire.tla` extends `TcpWire` (and so `Codec`) with the UDP path of
`server/udp.go` and `client/udp.go`. A ciphertext is a record of its length,
its plaintext and the key it was sealed with (`Keyed`, `Seal`); `Unseal`
succeeds when the key matches (or encryption is "none") and the length is
positive, which is what AES-GCM's `Open` does with a wrong key or a short
input.

- `SenderKey`, `SendUDP`, `SendKeepalive`, `SendAck`: the header is sealed
  with the primary key; user data with the session's user key, everything
  else with the primary key; an empty payload is not sealed.
- `PortRead`: `readUDP`'s checks, in order: too short, a header that does not
  decrypt, a length field past `GetLength(MTU)`, then the read.
- `PortDecode`: `decodeUDP`: user data under a key that is not the session's
  is dropped; Reset and keepalive frames are decoded without a payload; an
  ACK payload is unmarshalled as a batch; user data is decoded as an IP
  packet for its endpoint.
- `Dispatch`, `ServerStep`: the server port loop's choice (keepalive, ACK,
  data with an ACK push, receive), `disconnect` on a header error, `skip` on
  other errors, and `panic` for session id 0 where the `Retry` it
  dereferences is nil.
- `ClientStep`, `SyncReply`: `ReceiverUDP` and `sendSyncUDP`; a frame
  `readUDP` rejects comes back as a nil message with a nil error, which both
  dereference (`panic`).

`Ack.tla` states `UdpDispatched`: `UdpFramesDispatched` over the samples
below, and the batch the accumulator last sent (`sentBatch`) dispatched as an
ACK with exactly its ids on both sides, in every order of its endpoints.

The key abstraction is enough because the properties only ask whether a frame
decodes under the key its receiver uses, never what the bytes are.

### `EndpointSequence.tla`: message ids from the tunnel reader to the merger

The sender is the `listen` goroutine of `wiface/iface.go`. `Read(e)` is one
pass of its loop for a packet of endpoint `e`:

- `GetMessageID` takes the endpoint's entry, or a zeroed one from the pool
  (`pool.go`), increments its id and stamps it with `now`;
- the packet goes out;
- when `endpointsMapLen >= maxEndpoints`, the eviction scan deletes the
  entries with `now > ts + EndpointTTL` (`Expired`), and `NextMaxEndpoints`
  adapts `maxEndpoints` with the four branches of the code.

An evicted endpoint starts again at id 1.

The receiver is what the merger keeps per endpoint. In V2 that is a worker;
`CheckerTick` (the checker's nil and the worker's `StreamTTL` test) ends it.
In V1 it is a waiting list of the session stream, which lives as long as the
session. `Receive(e)` is the loop body: `lastMessageTs`, the duplicate test,
the direct send, or a push into the waiting list.

Each endpoint's datagrams arrive in order within `MaxDelay` seconds, the bound
the retry engine puts on a frame. `Tick` cannot pass a due checker tick or an
overdue datagram. Loss, duplication, reordering and the waiting list's own
logic are `StreamWorker`'s.

### `Retry.tla`: the retry engine of one connection (`retry.go`)

The variables are:

- `messages`: the keys of `r.messages`;
- per message, the timer (`off`, `armed`, or `fired` with a value waiting in
  `C`), `attempts`, the stop channel, and the timer goroutine's program
  counter;
- the keepalive goroutine: `probes`, the ticks since the last signal, and
  `keepaliveCh` as a bounded sequence.

Each method and goroutine step is an action:

- `Push`;
- the timer goroutine: `TimerRecv`, `TimerCheck` (the `MaxTimeout` test and
  `sendData`), `TimerRearm`, `TimerStop`, and `Exit` with the deferred
  `Delete`;
- `AckOne` per key (`LoadAndDelete`, `timer.Stop`, Karn's test, the stop
  signal), followed by the blocking `AckSignal` send;
- `KeepaliveSignal`, `StopEngine`;
- the keepalive loop: `KRecv`, `KDone`, `KTick`, `KDisconnect`.

The environment has three parts:

- the sender, whose send precedes `Push` (`sendAsyncUDP`);
- the receive loop, which calls `Ack` and `Keepalive`;
- a peer that may fall silent.

`syncTimers` is chosen in the initial state. It selects the timer semantics
of Go before 1.23 (a stale value may wait in `C` after `Stop`) or since 1.23.
`MaxTimeout` becomes `attempts = MaxRetransmits`, and the RTO estimator
becomes the set of samples fed to it.

**Fairness.** Every goroutine step is weakly fair, because Go runs every
runnable goroutine and timers fire.

### `AckData.tla` and `Ack.tla`: the ACK accumulator

`AckData` holds `MessageAcknowledgement` as operators:

- `AckPush`: the size limit and the 255-id count per endpoint;
- `AckReset`;
- `EncodedSize`: the bytes `MarshalAcknowledgement` writes.

`Ack` is the goroutine of `ack.go`:

- `Recv`: receive, the deadline test, `send()`, and the re-push of an id
  that did not fit;
- `Timeout`: the `time.After` case;
- `Done`: `ctx.Done`.

It also has `Push` into the buffered `senderCh`, `Stop`, and a clock `Tick`.
Ghost tags follow each id from `Push` to the ACK message that carries it.
The ghost `sentBatch` is the last non-empty `ackIDs` that `sendACK` put on
the wire. It is also set when `Recv` flushes an accumulator that was never
the value of `acc`.

### `Codec.tla`: every frame on the wire

`Codec` holds the Tapir codec (`pkg/codec/tapir.go`) as operators over
byte sequences (a byte is a number in 0..255):

- `MarshalAcknowledgement` encodes the endpoints in any Go map order
  (`MapOrders`) with a u8 count each;
- `Marshal` is the whole of `Tapir.Marshal`: `MarshalPayload` builds the
  error byte, the authentication request and response through
  `MarshalBytes` and `AddFakeData` (the obfuscation draw is an argument; a
  draw `rand.Intn` cannot return is no frame), the handshake key, or the
  data packet through `Compress`, and `MarshalHeader` writes type, flags,
  ids and the length field (0 for keepalive and reset);
- `Compress` keeps the input when LZ4 or LZO do not shrink it and always
  takes ZSTD's output. The algorithms are abstracted (`Squeeze`): one
  repeated byte shrinks to three bytes, anything else is a raw block behind
  `ZstdFrameOverhead` = 14 bytes of zstd framing (frame header with content
  size, block header, checksum);
- `GetLengthECB`/`GCM`/`None` are the encryptors' lengths, and `Encrypt` is
  modelled by that length and the plaintext the key gives back;
- `AckDatagram` and `Datagram` are `sendAsyncUDP` (an empty payload is not
  encrypted);
- `ReadUDP` is the peer's `readUDP`: the buffer size, `n < headerLength`,
  `UnmarshalHeader` with its maximum payload length, and the length
  equality; `UnmarshalHeader` decodes every flag, with LZ4 before LZO before
  ZSTD;
- `UnmarshalPayload` is the whole of `Tapir.UnmarshalPayload`, with
  `UnmarshalBytes` (`RECURSIVE UnmarshalBytesFrom`), which stops after `n`
  fields so that obfuscation bytes are never read; the ACK branch is
  `UnmarshalAckPayload` and the `UnmarshalAcknowledgement` loop
  (`RECURSIVE UnmarshalAckFrom`).

`Ack` extends `Codec`, and `MCAck` derives `MaxSize` as the code does,
from `GetMaxAcknowledgementSize`. `WireIntact` then checks two things.
For every batch sent in every reachable state and every map order, the peer
decodes exactly the ids sent. And `FrameRoundTrip`, a constant that TLC
evaluates once, holds over a sample of 114 messages, with obfuscation on or
off and four fake-data draws:

- error replies;
- authentication requests with empty or non-empty fields, every compression
  type and two levels;
- authentication responses with session ids 0 and 2^31-1;
- a 32-byte handshake key;
- data packets of 3, 4 and 41 bytes, compressible or not, under each
  compression;
- keepalive and reset;
- ids on both sides of 2^16.

Every frame whose length field is within `maxEncryptedPayloadSize` passes
`readUDP` and decodes to its type, ids and payload. The fake-data draws
include `<<0>>`, which reads as one more empty field, and `<<200, ...>>`,
which reads as a field past the end.

**Fairness.** The accumulator goroutine's cases are weakly fair, and so is
the clock.

### `PacketDecoder.tla`: endpoints of tunnelled packets (`decoder.go`)

`Decode` checks the length (`IpPacketMinLength`), the version nibble, and
for IPv4 the header length against 5..15 words and the total-length field;
IPv6 needs its 40-byte header. The endpoint is `fastHash` of the address
bytes the decoder's `EndpointHashType` selects. A uint64 is four 16-bit
limbs (`MulU64`, column by column with carries, dropping what passes
2^64), so FNV-1a keeps its wrap-around; `FnvKnownAnswers` checks it against
the published values for "", "a" and "foobar". `ClientSockHash` and the
other three constants are the hash types `deploy/client/connection.go` and
`deploy/server/main.go` build the decoders with, and `Links` pairs the
sending tun's decoder with the receiving socket's.

`Codec`'s `DecodeUserData` is the last step of the receive path for user
data, and `EndpointsAgree` (part of `WireIntact`) checks that a packet
decoded at the sending tun, framed under every compression with and
without obfuscation, decodes at the other side's socket to the same
endpoint and protocol in both directions. That endpoint keys the sender's
Retry entry, the receiver's ACK and its merger stream.

### `TcpWire.tla`: frames over a TCP connection (`server/tcp.go`, `client/tcp.go`)

A TCP connection is a byte stream: the senders write header ciphertext then
payload ciphertext, and the receive loops read the header into a buffer of
`GetLength(HeaderSize)` bytes, then `PayloadLength` bytes, in as many
`Read` calls as the stream's segments take. A stream byte is a token
naming its frame, part, offset and ciphertext length, and `Open` (the
decryptor) succeeds only on a buffer that is exactly one ciphertext; any
other buffer is taken to fail decryption or `UnmarshalHeader`. The
segments are given by a set of cut offsets: `ReadLen` returns what the
buffer has room for, up to the next cut.

- `SendTCP` is the server's `sendTCP` (an empty payload is not encrypted);
  `SendAsyncTCP` and `SendSyncTCP` are the client's, which encrypt the
  payload even when it is empty, so under AES a keepalive or reset fails
  with `ErrEmptyMessagePayload` and nothing is written.
- `ServerLoop` is `receiverTCP`: `receivedHeader` and `receivedPayload`
  live across frames and are reset by `HeaderDone` once a header is in; a
  header that fails returns (`Closed`); EOF returns; a payload that fails
  decryption, `UnmarshalPayload` or the packet decoder is dropped
  (`Deliver`).
- `ClientLoop` is `ReceiverTCP` with `readTCP` (`HeaderRead`), which starts
  from fresh counters each call; a header that fails makes `readTCP`
  return a nil message (`NilMessage`).

`TcpFramesIntact` (part of `WireIntact`) takes two frame sequences each
side sends (requests, handshakes, data, reset; responses, error replies,
data, reset) and every subset of eight cut points around the first header
and the first frame's end, and checks that the other side hands on exactly
the frames written, in order, decoded to what they were built from. The
mutant that leaves `receivedPayload` at its previous frame's value breaks
it: the next payload is read short, fails, and the header read after it is
misaligned, so the server closes the connection.

### `ServerSessions.tla`: server tables, port loops and a client

This is the control plane of the server. It covers two UDP port goroutines
(`receiverUDP`), the use case's tables, and one client that drives them.

**State.** The state follows the code's maps:

- `sessions[s]`: whether the session exists, and its `IfName`;
- `interfaces[n]`: whether tun device `n` exists, its session, and the
  connections appended by the handshake;
- `connections[k]`: the `serverConn` of socket `k`;
- `client2session` and the merger's `streams`;
- per port: `connectionControl` as `cc[p][s]`, whose engine is `live`,
  `stopped` by `dropSession`, or `exited` after its keepalive timeout;
  `curSessionsCount` and `maxSessionsCount` as `cnt` and `maxc`;
- the shared `droppedSessions` as `dropped`.

A client socket is a key `[port, gen]`. Every connection attempt opens a new
socket, and so a new remote address.

**Handlers.** Each handler is a chain of operators over a record of the
tables (`World`), one operator per function of the code:

- `DropSession` is `dropSession` with its early return. It stops the
  engines of the interface's connections and leaves `uc.connections` alone.
- `RemoveConnection` is `removeConnection`. It deletes the session and the
  device when the interface's last connection goes.
- `AddConnection` and `AddInterfaceConnection` replace the entry of the same
  session and port.
- `Arrive` is the `connectionControl` lookup, and `Purge` is the soft-cap
  cleanup.

`commandAuthentication` is split at its lock boundaries into these steps:

1. `SAuthNew`, `SAuthResume` or `SAuthReject`;
2. `SAuthStream` (`CreateStream`);
3. `SAuthIface` (`createInterface`, with its two nil dereferences recorded
   in `panicAt`);
4. `SAuthConn` (`addConnection`, the answer, and the purge).

Step 1 is coarser than the code: `SAuthNew` does `dropSessionByClientID`
(`DropSessionByClientID`) and `createSession` in one step, though each takes
`sessMux` on its own. Likewise `SHandshake` does `getConnection`,
`setConnectionEncryptor` and `addInterfaceConnection` in one step, though
each takes `connMux` on its own. So a removal between two of these sections
(the nil entry `server.connections.go:75` would meet) is not reached.

`SHandshake` and `SReset` are the other commands. `EngineTimeout` is the
Retry keepalive loop of one (port, session) calling
`disconnect` -> `removeConnection` for the connection it was created with.
`SBadHeader` is the port loop's header path (`udp.go` 38-70): a datagram
from one of the client's addresses whose header does not decrypt or parse
makes the loop call `disconnect` before `connection.SessionID` is set. So
`removeConnection` runs with session id 0. At most `MaxBadHeaders` such
datagrams arrive: 1 in `server_sessions` and `server_interface_closed`, 0 in
the other violation runs.

**The client.** These actions model `createConnection` with its attempts
under `connMux`, `responseAuthentication`, `responseHandshake`,
`disconnect`, `Stop` (with `sendReset` over another connection) and `Exit`:
`CConnect`, `CAuthOk`, `CAuthFail`, `CHsOk`, `CHsFail`, `CLinkFail` and
`CExit`.

**Abstractions.**

- Data frames, ACKs and keepalives are abstracted to "the client is up on
  port p with session s". `Silent(p, s)` is when the engine can time out.
- Time is not modelled. A keepalive timeout may happen whenever the client
  is silent towards the engine.
- Sockets are capped by `MaxGen` per port, and session ids by the set
  `SessionIds`. `Finished` is the stuttering end state once a bound is
  reached or nothing is left to do.

**Fairness.** Each port goroutine's handling of its datagrams is weakly
fair, and so is each engine's timeout. Its ticker keeps firing while the
engine's context is live. The client's `createConnection` reading its
answers is weakly fair too. The client's reconnects (`CConnect`), link
failures and `Exit` are not fair: a client may stop for good.


### `ClientConnections.tla`: the client's connections and goroutines

This is the client use case (`client.go`, `client.connections.go`,
`client.interface.go`) with the goroutines that call into it: `Start`, one
keepalive goroutine per socket (`retry.go:235-242`), the receive loops
(`adapter/client/udp.go`), the merger worker calling `commandData`, and the
connection manager calling `Exit`.

**State.** `connections` is the slice, `idx[k]` the index `addConnection`
stored in socket `k`'s `clientConn`, and `connectionsMap` the map. A UDP
connection's `Key()` (`entity/network.go:216`) is built from the local port,
which is the server port, so the map is keyed by port. A socket is a pair
`<<port, gen>>`, and every attempt opens a new one. `sock[k]` and `engine[k]`
are the socket and its Retry engine. `isConnected`, `isExit`, `sessionID`,
`ifaceOpen` (`interfaceConn != nil`) and `stream` (the merger stream) are the
use case's fields, and `mux` is `connMux`. `pc` and `frame` give each
goroutine its position and the locals of `createConnection`: the port, the
attempt `i`, and the caller it returns to.

**Actions.**

- `CCLock`, `CCRunFail`, `CCAttempt` and `CCGiveUp` are `createConnection`.
  `CCAttempt` opens a socket, runs `addConnection`, and then takes one of four
  outcomes: a failed authentication, a failed handshake (both run the closure
  `removeConnection` and leave the socket open), `ErrUnauthorized` (return
  with the connection still in the table), or success (`ReceiverUDP` starts
  the engine). `AfterCreate` is where the call returns: `Start`'s next port,
  `Start`'s error, or, for `disconnect`, `Stop` when the reconnect fails.
- `KeepaliveTimeout`, `DisconnectRemove` and `DisconnectClose` are the
  keepalive goroutine's `r.Stop()` and `disconnect`. `DisconnectRemove` is
  `removeConnection`, which calls `Stop` when the map is empty.
  `DisconnectClose` closes the socket and reconnects unless `isExit`.
- `StopCheck`, `StopInterface` and `StopReset` are `Stop`.
  `closeInterface` takes `connMux`, and `reset` clears `isConnected` last.
- `ExitCheck`, `ExitReset`, `ExitCloseAll` and `ExitInterface` are `Exit`.
- `ReceiverExit` is a receive loop leaving on its closed socket.
  `DataPick` and `CommandData` are a data frame passed by the merger worker
  to `commandData`.

`structs.Delete` is not in the repository. `Delete(s, i)` with `i` past the
end either panics or leaves the slice as it is, and the model takes both
outcomes. A panic ends the process: `panicAt` records where, and the model
then stutters.

**Fairness.** Each goroutine's steps under way are weakly fair:
`createConnection`, `Stop`, `disconnect` after its timeout, `Exit` after its
check, receive loops on closed sockets, and the worker's `commandData`.
Keepalive timeouts, `Exit` and the arrival of data are not fair: the link
may stay up and the user may never exit. `Exit` is called only after `Start`
returned without error. `ConnectionManager` calls `Start` and `Exit` under its
own lock and keeps the handler only when `Start` succeeds.

## Runs

Each run is a pair of an MC module and a cfg, listed in `PROJECT.json`.

| Run | cfg | Expect | What it shows |
|---|---|---|---|
| `stream` | `Stream.cfg` | pass | Both threading modes were checked, with loss, duplication, reordering and resets. Delivery is strictly increasing. Every packet is delivered or overtaken. The loop implements `InOrderDelivery`. A waiting list discards only stale ids. Per-session threading has no gap except at a reset. |
| `merger` | `Merger.cfg` | pass | Both mergers `merger.New` builds, in the client with two port loops. V2 runs one worker per stream key and, with the checker off, neither panics nor loses an accepted message. V1 never sends on a closed channel, delivers every accepted message across `DeleteStream` and re-creation, and its `DeleteStream` returns. Both implement `SessionMailbox` (about 2m20s). |
| `merger_v2_closed_channel` | `MergerV2ClosedChannel.cfg` | violation | A worker that leaves on `StreamTTL` closes its channel while `Push` still holds it. The next send panics. |
| `retry_client` | `RetryClient.cfg` | pass | Both Go timer semantics were checked: Karn's rule holds, the message map empties, a silent peer is detected, and the caller never blocks. |
| `stat_stream_deadlock` | `ConnectionManagerStatDeadlock.cfg` | violation | A GUI statistics stream that ends while the statistics goroutine sends to it leaves both waiting on `statMux`; `inStatCh` fills and the tunnel's port loops block in the statistic handler. |
| `ack_accumulator` | `AckAccumulator.cfg` | pass | The accumulator stays encodable and loses no id, also when a push fails. Every batch sent decodes at the peer to exactly its ids, through encryption padding and `readUDP`'s checks, and every other frame within the size bound decodes to what it was built from. Every UDP datagram a sender builds reaches the server's and the client's handler for its type, under the key each side uses, and a data packet keeps its sender's endpoint; the batch the accumulator last sent reaches `Retry.Ack` on both sides with its ids (`UdpDispatched`). A tunnelled packet keeps its endpoint from one side's tun to the other's socket, and over TCP each receive loop hands on exactly the frames written, however the stream is split into reads. Every id is sent while the goroutine runs. |
| `server_sessions` | `ServerSessions.cfg` | pass | With a bad-header datagram among the faults, an open tun device belongs to the live session that names it. `client2session` names exactly the live session. A session with a device has its merger stream. |
| `server_nil_dereference` | `ServerSessionsCrash.cfg` | violation | A keepalive timeout on one port deletes the session while another port is authenticating it. The server then dereferences nil. |
| `server_interface_closed` | `ServerInterfaceClosed.cfg` | violation | A datagram with an undecryptable header from the client's address closes the tun device of its live session. |
| `server_session_leak` | `ServerSessionsLeak.cfg` | violation | A timed-out engine is reused for the session's next connection on that port. The session and its device are never reclaimed. |
| `client_connections` | `ClientConnections.cfg` | pass | Two ports time out, reconnect, fail or are refused, and `Exit` runs. `getConnection` never indexes past the slice: the map never holds more connections than the slice. A lost port is always reconnected or the session is torn down. |
| `merger_server_lock_cycle` | `MergerV2LockCycle.cfg` | violation | On the server, `removeConnection` holds `connMux` in `DeleteStream` while a `Push` holding the read lock waits on a full channel whose worker waits for `connMux` in `commandData`: a wait cycle. |

Three cfgs stay on disk without a run, because the run budget went to the
findings above: `SequenceRestart.cfg` (`NoFreshDiscard`, the counter restart
dropped by the V1 merger), `ClientStaleIndex.cfg` (`ConnectionsOpen`, the
stale slice index) and `UdpClientCrash.cfg` (`ClientSurvivesServerFrames`, the
zstd client crash). Each is still violated when run by hand with its module's
MC module.

Every property of a passing run has a mutant in `PROJECT.json`. The mutant
swaps one mapped definition for a plausible slip in that code, such as a
dropped guard, a missing reset or a count that is off by one. TLC finds the
property violated under the run's own cfg.

## Bounds and why they are enough

**Stream merger.** The bounds are:

- `MaxSeq = 5` packets, with one loss and one duplicate;
- a reorder window of 5;
- `WaitingListMaxSize = 2` and `WaitingListMaxTTL = 2`.

A list of size 2 fills with two early packets, so a reset on size happens. A
TTL of 2 lets a reset on age happen with one packet still missing. `IdBits = 3`
keeps five packets from wrapping in the pass run. With `IdBits = 2` the ids
wrap after packet 3 (see the wrap hazard under Findings).

**Merger table.** The table has two pushers, `MaxMsgs = 3`, a channel capacity
of 2 and `MaxStreams = 3`, for both threading modes. With these, a V2 worker
can leave while a pusher holds its channel, a stream can be created again
after an expiry, and a V1 session is created, deleted with a full channel
and created twice more. The lock-cycle run uses four messages and four
streams in the server wiring: one message at the worker and two in the
channel make it full with a third `Push` waiting; TLC reaches the cycle in
10 steps.

**Connection manager.** One connection id, one `Connect`, two reporters,
two GUI streams and three statistic calls. `inStatCh` then has capacity 1,
so two blocked reporters show it full; two streams give the second
subscription racing the first one's deferred unset. The violation is found
among about 32,000 states.

**UDP datagrams.** `UdpFramesDispatched` quantifies over samples, not
behaviours: the 75 messages of `Codec`'s sample that a UDP port carries
(types other than 3 and 4, session id 0 only for the handshake types), with
every obfuscation setting and fake-data draw (about 600 frames within the
size bound); 30 data cases (every sample IP packet, compression 0..3, each
link's hash type); keepalives with and without the ACK flag; and ACK
batches of endpoints 1 and 258 with one or three ids in every map order.

**Retry.** `MaxRetransmits = 1` and `KeepaliveProbes = 2` are the smallest
values for which each of these happens:

- a message is retransmitted and then acknowledged (Karn's rule);
- a message gives up;
- `keepaliveCh` fills.

**Ack.** The run uses `aes-256-ecb` (the default) with `MTU = 41`, so
`GetMaxAcknowledgementSize = 41 - 16 = 25`. Endpoints 1 and 258 and frame
id 258 need more than one byte, so byte order matters. At the real default
of `MTU = 1400` the same arithmetic holds with larger numbers. `MaxSize = 25` holds one endpoint with three ids, or two endpoints
with three ids between them. `MaxUint8 = 3` makes a fourth id of one endpoint
fail on its count. A third id split across two endpoints fails on size. Five
pushes therefore reach both failures of `Push`. A wait of two ticks separates
the deadline test in the receive case from the `time.After` case.
For the frame sample, `MTU = 41` leaves room for a 32-byte handshake key
with up to seven bytes of fake data, for every request of the sample with
all four draws, and for a 41-byte packet, which under ECB pads to 48 bytes:
exactly `maxEncryptedPayloadSize`. Ids up to 2^31-1 are the largest TLC's
integers hold; the wrap at 2^32 is the merger's question, not the codec's.

**Endpoint sequence.** The run has two endpoints, and a table that is full at
two entries (`InitialEndpoints = 2`, `IncrementEndpoints = 1`, scaled down from
100 and 10). This is the least that makes the scan run. Time is counted in
units of 30 seconds:

- `StreamTTL = 10` (300 s) and `StreamCheckInterval = 2` (60 s), the defaults;
- `EndpointTTL = 2 * StreamTTL`, as both entry points set it;
- `MaxDelay = 1` (the retry engine's `MaxTimout` of 30 s);
- `MaxTime = 23`, enough for an entry to expire and the endpoint to send again.

The violation takes 27 states. The same configuration with `ThreadingBy`
`endpoint` has no violation (172,160 states, checked by hand, not a run). The V2
worker expires within `StreamTTL + StreamCheckInterval + MaxDelay` of the
endpoint's last packet, before the sender's eviction at `2 * StreamTTL`.

**Server sessions.** The model has:

- two ports, with `MaxGen` sockets per port (3 in the pass run, 2 in the
  violation runs);
- three session ids and two tun names.

Two ports are the least for the cross-port races. Three sessions allow a new
session after a delete, and a reuse of a freed tun name. The bug traces need
two sockets per port. The pass run adds a third socket for the reconnect after
a failed handshake. With one bad header the pass run has 3.3 million states
and takes about 90 seconds.

**Client connections.** Two ports and two sockets per port (`MaxGen = 2`)
are the least for which one port reconnects while the other still holds the
index it got before. `MaxConnectionAttempts = 1` still gives every outcome of
an attempt, and `CCGiveUp` after it. The stale-index trace needs 2 ports, and
the `Exit` trace (below, without a run) needs 1. The pass run has 124,043 states and takes about 35
seconds, including the liveness check.

## Findings

The findings from violation runs are:

- **Closed channel** (`stream.v2.go:15`): a worker that leaves on TTL closes
  the channel without the write lock, so `Push` can panic.
- **Nil dereference** (`server.interfaces.go:45`, `server.go:241`):
  `commandAuthentication` drops its lock between checking the session and
  using it.
- **Session leak** (`udp.go:146`): a `connectionControl` entry whose engine
  timed out is handed to the next connection.
- **Bad header tears down a session's device** (`udp.go:56, 68`): the
  spec says a frame with a bad header is dropped and the connection kept.
  The port loop calls `disconnect` instead, with session id 0. The
  connection goes and, with the last one, the tun device. The session stays
  live with a device that no longer exists.
- **Stale connection closes a reused device**
  (`server.connections.go:63`): `dropSession` leaves the dropped session's
  connections in the table. The kernel gives the next session the same
  device name. The old session's engine timing out then closes the new
  session's device. The same run reaches this with `MaxBadHeaders = 0`.
- **Statistics deadlock** (`connection.manager.stat.go:78`,
  `connection.manager.go:152`): the statistics goroutine sends on the GUI
  stream's unbuffered channel while holding `statMux`; a stream that ended
  waits for `statMux` in its deferred `SetStatisticChannel(nil)`. Neither
  moves, `inStatCh` fills, and every port loop of the tunnel blocks in the
  statistic handler.
- **Lock cycle on the server** (`server.connections.go:55, 117`):
  `removeConnection` and `dropSession` call `DeleteStream` holding
  `connMux`; a `Push` blocked on a full stream channel holds the merger's
  read lock; the channel's worker waits for `connMux` in `commandData`.
  Go's `RWMutex` then blocks every other reader, and the server's data path
  stops. V1 has the same cycle through its blocking nil send.

Several more divergences were met while modelling but have no run. They
are listed as hazards with notes:

- A stale engine blocks its caller (`retry.go:126`). `Ack` and `Keepalive`
  end with a blocking send on `keepaliveCh`. After `Stop`, KeepaliveProbes
  calls fill it and the next one blocks the port goroutine, which keeps
  stopped engines in `connectionControl`. `Retry` with
  `CallerOutlivesEngine = TRUE` violates `CallsReturn`. It has no run;
  `server_session_leak` shows the same stale engine
  at the server level.
- V2 sends the first message of a stream whatever its id
  (`stream.v2.go:103`), so an earlier packet that arrives second is dropped.
  The spec says delivery starts at id 1.
- The duplicate test drops id 0 after the uint32 wrap when it overtakes the
  last ids before it (`stream.v1.go:55`). TLC shows this with `IdBits = 2`;
  the code needs 2^32 packets.
- A message queued behind the checker's nil is stranded in a channel whose
  worker has left (`stream.v2.go:51`). The cause is the same as the closed
  channel.
- `Stop` clears `interfaceConn` before `isConnected`, so `commandData` in
  between dereferences nil (`client.go:324`).
- A failed authentication or handshake leaks the attempt's socket.
- `commandReset` never reconnects (`client.go:347`).
- `CompressZSTD` keeps output longer than its input (`compress.go:82`); the
  spec says the uncompressed form is kept when there is no size reduction.
  Under `Compression: zstd`, a full-MTU packet that does not compress (most
  encrypted traffic) gives a frame whose length field exceeds the peer's
  `maxEncryptedPayloadSize`. In the `Codec` sample, the 41-byte packet
  becomes 55 bytes, 64 once encrypted, against 48. The server's
  `UnmarshalHeader` rejects it and `receiverUDP` disconnects the
  connection (`udp.go:68`), which is the bad-header path of
  `server_interface_closed`. `WireIntact` is stated only for frames within
  the bound.
- TCP, met while modelling `TcpWire` (no run; the first two are outside
  the stream of whole frames that `TcpFramesIntact` states):
  - `readTCP` returns `(nil, 0, nil)` for a header that does not decrypt or
    parse (`client/tcp.go:119, 125`), and `ReceiverTCP` then calls
    `msg.IsUserData()` on nil (`client/tcp.go:42`): one damaged header
    panics the client.
  - A read error that is not EOF, closure or timeout is logged and the
    loop reads again (`server/tcp.go:79`, `client/tcp.go:107`), and a
    timeout during the payload is not EOF in `receiverTCP`'s payload loop
    (`server/tcp.go:115`), so it spins on the same error.
  - The client never sends keepalive or reset over TCP under AES:
    `sendAsyncTCP` encrypts the empty payload, which both AES encryptors
    refuse (`client/tcp.go:161`). `TcpFramesIntact` states what the
    receiver gets with that taken into account.
  - The statistic in `receiverTCP` adds `receivedHeader + receivedPayload`
    after `receivedHeader` was reset to 0 (`server/tcp.go:126`), so the
    header bytes are never counted.
- The counter restart is dropped by the V1 merger (`iface.go:139`,
  `SequenceRestart.cfg`): the reader
  evicts an endpoint idle for `2 * StreamTTL` and restarts it at id 1. The
  V1 session stream keeps that endpoint's `lastID` for the whole session, so
  the endpoint's new packets fail `lastID >= id` and are dropped until the
  counter passes the old value. Endpoints can be hashed from the destination
  address alone, so a destination revisited after ten idle minutes is enough.
- Client stale index (`client.connections.go:16, 32`, `ClientStaleIndex.cfg`): `cc.idx` is never
  renumbered, so a removal after a reconnect deletes another port's entry.
  When every port times out, the last removal indexes past the end.
- **Zstd crashes the client** (`compress.go:82`, `client/udp.go:53`).
  Under `Compression: zstd` a full-MTU packet that does not compress gives
  a frame whose length field exceeds `GetLength(MTU)`. The client's
  `readUDP` rejects it by returning a nil message with a nil error, and
  `ReceiverUDP` dereferences `msg.SessionID`: the client panics.
  `UdpClientCrash.cfg` violates `ClientSurvivesServerFrames` with it; with
  compressions 0..2 only it holds.
- `sendSyncUDP` returns `readUDP`'s nil reply the same way, and
  `responseAuthentication` or `responseHandshake` dereferences it
  (`client/udp.go:246`, `client.go:207`): an MTU mismatch or an oversize
  reply crashes the client during connection. `SyncReply` models it.
- A keepalive or ACK with session id 0 reaches the server's port loop, which
  calls the session's `Retry`, nil for id 0 (`server/udp.go:136-160`; the
  comment at line 163 names the nil dereference). Anyone holding the shared
  primary key can crash the server. `ServerStep` gives `panic` for it.
- A Reset or keepalive frame carries no decoded payload (`IsPayload` is
  false), so an error reply of type Reset loses its error code.
- The port loop returns when the receiver fails on a frame that is not user
  data (`server/udp.go:169-172`), leaving that port dead.
- `Connect` whose handler's `Start` fails after some ports connected
  neither stores nor exits the handler (`connection.manager.go:77`): its
  goroutines keep running out of reach. `ConnectionManager` states this as
  `StartedHandlersManaged`, which it violates at once.
- A second `StatisticStream` that subscribes before the first returns has
  its channel overwritten by the first one's deferred nil
  (`connection.manager.go:153`) and never receives statistics.
- Client `Exit` is ignored (`client.go:383`). `Exit` returns before setting
  `isExit` when a keepalive timeout has already stopped the client, and
  `disconnect` then reconnects. `ClientConnections` states this as
  `ExitStopsClient`, and TLC violates it with one port in 17 steps. Its run
  was given up for `server_interface_closed`.

Other hazards the models reach are noted in `PROJECT.json` without a run:

- the waiting-list TTL measured from the first message instead of the oldest
  one;
- `Ack` stopping without flushing;
- the `droppedSessions` purge drifting from `curSessionsCount`.

`Retry.tla` also has `Stop` racing a timer goroutine that has already taken
its timer value (`retry.go:166`). `TimerCheck` does not test the cancelled
context, so one more retransmission can go out after `Stop`. It goes to a
connection being torn down, so no property is spent on it, and the hazard
list names the V1 `DeleteStream` race instead.

## Not modelled

These parts are not modelled, for the reasons given:

- **The TCP accept loop and the gnet server.** `listenerTCP` only starts
  a `receiverTCP` per connection; the framing it drives is `TcpWire`. The
  gnet server (`server.v2.go`) is not used by any entry point.
- **Interface up and down, and `Close` in `iface.go`.** They run shell
  commands.
- **The ciphers and the compression algorithms themselves.** A ciphertext
  is its length and its plaintext; a compressor's output is the abstraction
  of `Squeeze`.
- **The GUI, gRPC and HTTP control other than `StatisticStream`,
  configuration and logging.** They are I/O. The statistic values are
  abstracted away in `ConnectionManager`; only who waits for whom is kept.
- **Client `commandReset`, `getConnection`'s port choice and the tun
  interface loop.** `commandReset` only runs on a server error reply. It
  needs the client composed with the server. The port choice moves
  payloads, and no property here depends on which connection carries them.

## Plan

The next steps are:

1. `ClientConnections` composed with the server's sessions, for
   `commandReset` and the server's error replies.
2. A refinement of `SessionMailbox` by V2 with the checker on, once the
   TTL exit no longer loses messages.
3. A gap-free refinement of `InOrderDelivery` for the threading-by-session
   mode, away from resets.
4. An abstract statistics channel for `ConnectionManager`, stating which
   stream receives, for the second-subscriber hazard.
5. Map coverage is about 30%; the client's `Start` path and the tun
   interface loop are the largest unmapped code.
