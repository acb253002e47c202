---------------------------- MODULE StreamWorker ----------------------------
(***************************************************************************)
(* One endpoint's traffic through the stream merger: the worker loop of    *)
(* adapter/merger/stream.v2.go (threading by "endpoint", one goroutine per *)
(* (session, endpoint)) or stream.v1.go (threading by "session", one       *)
(* goroutine per session and one waiting list per endpoint inside it), fed *)
(* by a sender that numbers packets as wiface/iface.go getMessageID does   *)
(* and a UDP path that loses, duplicates and reorders them.  The retry     *)
(* engine retransmits a packet until it has been received (its ACK), and   *)
(* the path may duplicate a received one (an ACK lost or late).            *)
(*                                                                         *)
(* A worker handles one message at a time and owns its waiting list, so    *)
(* one pass of the loop body is one atomic step.                           *)
(***************************************************************************)
EXTENDS WaitingList, FiniteSets

CONSTANTS
    ThreadingModes,       \* values of TunnelConfig.ThreadingBy explored
    MaxSeq,               \* packets the sender emits on the endpoint
    WaitingListMaxSize,   \* StreamMerger.WaitingListMaxSize (bytes)
    WaitingListMaxTTL,    \* StreamMerger.WaitingListMaxTTL (seconds)
    MaxTime,              \* last second of the clock
    MaxLosses,            \* datagrams the path may drop
    MaxDuplicates,        \* copies of received packets the path may deliver
    ReorderWindow         \* packets in flight span at most this many seqs

ASSUME ThreadingModes \subseteq {"endpoint", "session"}
ASSUME \A c \in {MaxSeq, WaitingListMaxSize, WaitingListMaxTTL, MaxTime,
                 MaxLosses, MaxDuplicates, ReorderWindow} : c \in Nat

VARIABLES
    wl,           \* the waiting list of the endpoint
    now,          \* time.Now().Unix()
    sent,         \* packets numbered so far by getMessageID
    net,          \* seqs of datagrams in flight
    received,     \* seqs that reached the worker at least once (ACKed)
    losses, dups, \* budget counters of the path
    delivered,    \* history: deliveries to the receiver callback, in order
    discarded,    \* history: seqs the worker dropped as duplicates
    crashed,      \* log.Fatalf("wrong waiting list sort") ended the process
    threadingBy   \* "endpoint" (V2) or "session" (V1), fixed at start

vars == <<wl, now, sent, net, received, losses, dups, delivered, discarded, crashed,
          threadingBy>>

Seqs == 1..MaxSeq

\* getMessageID: the per-endpoint counter starts at 0 and is incremented
\* before use, in uint32, so the s-th packet carries id s mod 2^IdBits.
Msg(s) == [id |-> s % IdMod, seq |-> s]

DeliveredSeqs == {delivered[i].seq : i \in 1..Len(delivered)}
BufferedSeqs  == {wl.data[i].seq : i \in 1..Len(wl.data)}
HighestDelivered == IF delivered = <<>> THEN 0 ELSE Max(DeliveredSeqs)

-----------------------------------------------------------------------------
(* The loop body for a message m, one disjunct per exit of the body.       *)

\* Slips in the duplicate test: > for >=, and lastID+1 for lastID.
IsDuplicateStrict(w, id) == (w.lastID > id /\ w.lastID < MaxUint32) \/ id \in w.idsMap
IsDuplicateAhead(w, id) == (w.lastID + 1 >= id /\ w.lastID < MaxUint32) \/ id \in w.idsMap

\* wl.getLastID() >= id && wl.getLastID() < MaxUint32 || wl.exists(id)
IsDuplicate(w, id) == (w.lastID >= id /\ w.lastID < MaxUint32) \/ id \in w.idsMap

\* Slip: any first message is sent straight away (V2's rule).
SendsDirectlyAnyFirst(w, id) ==
    \/ w.firstSent /\ (Succ(w.lastID) = id \/ id = 0)
    \/ ~w.firstSent

\* Condition for sending m straight away: it succeeds lastID, or is id 0,
\* or it is the first message of the list (V2: any id; V1: only id 1).
SendsDirectly(w, id) ==
    \/ w.firstSent /\ (Succ(w.lastID) = id \/ id = 0)
    \/ ~w.firstSent /\ (threadingBy = "endpoint" \/ id = 1)

\* The waiting list must be flushed after a push.
MustReset(w) ==
    \/ w.dataSize > WaitingListMaxSize
    \/ w.firstMessageTs # 0 /\ now - w.firstMessageTs >= WaitingListMaxTTL

Emit(w, out) ==
    /\ wl' = w
    /\ delivered' = delivered \o out
    /\ UNCHANGED <<discarded, crashed, threadingBy>>

Discard(m) ==
    /\ IsDuplicate(wl, m.id)
    /\ discarded' = discarded \cup {m.seq}
    /\ UNCHANGED <<wl, delivered, crashed>>

PopWith(m) ==
    /\ ~IsDuplicate(wl, m.id)
    /\ HeadDeliverable(wl)
    /\ LET p == Pop(wl, m) IN Emit(p.wl, p.out)

\* Slip: the trailing wl.pop(nil) after sending m is left out.
SendDirectNoPop(m) ==
    /\ ~IsDuplicate(wl, m.id)
    /\ ~HeadDeliverable(wl)
    /\ SendsDirectly(wl, m.id)
    /\ Emit(SendTo(wl, m), <<Delivery(m, "direct")>>)

SendDirect(m) ==
    /\ ~IsDuplicate(wl, m.id)
    /\ ~HeadDeliverable(wl)
    /\ SendsDirectly(wl, m.id)
    /\ LET p == Pop(SendTo(wl, m), <<>>)
       IN Emit(p.wl, <<Delivery(m, "direct")>> \o p.out)

Buffer(m) ==
    /\ ~IsDuplicate(wl, m.id)
    /\ ~HeadDeliverable(wl)
    /\ ~SendsDirectly(wl, m.id)
    /\ LET u == Push(wl, m, now)
           r == Reset(u.wl)
       IN \/ ~u.ok /\ crashed' = TRUE /\ wl' = u.wl
                   /\ UNCHANGED <<delivered, discarded>>
          \/ u.ok /\ MustReset(u.wl) /\ Emit(r.wl, r.out)
          \/ u.ok /\ ~MustReset(u.wl) /\ Emit(u.wl, <<>>)

Handle(m) == Discard(m) \/ PopWith(m) \/ SendDirect(m) \/ Buffer(m)

-----------------------------------------------------------------------------
(* Sender, path and clock.                                                 *)

InWindow(s) == s > sent - ReorderWindow

\* iface.go listen: the next packet of the endpoint gets its id and goes
\* out; the sender keeps every unacknowledged packet within the window.
SendNext ==
    /\ sent < MaxSeq
    /\ \A s \in net \cup ((1..sent) \ received) : s > sent + 1 - ReorderWindow
    /\ sent' = sent + 1
    /\ net' = net \cup {sent + 1}
    /\ UNCHANGED <<wl, now, received, losses, dups, delivered, discarded, crashed, threadingBy>>

\* The datagram is delivered to the worker (any in-flight one: reordering).
Receive(s) ==
    /\ s \in net
    /\ net' = net \ {s}
    /\ received' = received \cup {s}
    /\ Handle(Msg(s))
    /\ UNCHANGED <<now, sent, losses, dups, threadingBy>>

Lose(s) ==
    /\ s \in net
    /\ losses < MaxLosses
    /\ net' = net \ {s}
    /\ losses' = losses + 1
    /\ UNCHANGED <<wl, now, sent, received, dups, delivered, discarded, crashed, threadingBy>>

\* The retry timer fires for a packet whose ACK has not come back.
Retransmit(s) ==
    /\ s \in (1..sent) \ (net \cup received)
    /\ net' = net \cup {s}
    /\ UNCHANGED <<wl, now, sent, received, losses, dups, delivered, discarded, crashed, threadingBy>>

\* A packet already received arrives again (its ACK was lost or late).
Duplicate(s) ==
    /\ s \in received \ net
    /\ InWindow(s)
    /\ dups < MaxDuplicates
    /\ net' = net \cup {s}
    /\ dups' = dups + 1
    /\ UNCHANGED <<wl, now, sent, received, losses, delivered, discarded, crashed, threadingBy>>

Tick ==
    /\ now < MaxTime
    /\ now' = now + 1
    /\ UNCHANGED <<wl, sent, net, received, losses, dups, delivered, discarded, crashed, threadingBy>>

\* All packets sent and acknowledged, nothing in flight: the endpoint is idle.
Idle ==
    /\ sent = MaxSeq /\ net = {} /\ received = Seqs
    /\ UNCHANGED vars

Init ==
    /\ wl = NewWaitingList
    /\ now = 1
    /\ sent = 0
    /\ net = {}
    /\ received = {}
    /\ losses = 0
    /\ dups = 0
    /\ delivered = <<>>
    /\ discarded = {}
    /\ crashed = FALSE
    /\ threadingBy \in ThreadingModes

Next ==
    \/ ~crashed /\ \E s \in Seqs : Receive(s)
    \/ ~crashed /\ SendNext
    \/ \E s \in Seqs : Lose(s) \/ Retransmit(s) \/ Duplicate(s)
    \/ Tick
    \/ Idle

-----------------------------------------------------------------------------
(* Properties.                                                             *)

TypeOK ==
    /\ wl.lastID \in Ids /\ wl.firstSent \in BOOLEAN
    /\ wl.data \in Seq([id : Ids, seq : Seqs]) /\ wl.idsMap \subseteq Ids
    /\ wl.dataSize \in Nat /\ wl.firstMessageTs \in 0..MaxTime
    /\ now \in 1..MaxTime /\ sent \in 0..MaxSeq
    /\ net \subseteq 1..sent /\ received \subseteq 1..sent
    /\ losses \in 0..MaxLosses /\ dups \in 0..MaxDuplicates
    /\ delivered \in Seq([seq : Seqs, id : Ids, how : {"direct", "drain", "reset"}])
    /\ discarded \subseteq Seqs /\ crashed \in BOOLEAN

\* Between two messages the waiting list is what pop and push rely on:
\* sorted by id, above lastID, idsMap is exactly the buffered ids, dataSize
\* is their total length and at most WaitingListMaxSize, and the head never
\* closes the gap (else the loop would not have left it there; pop(req)
\* sends req without looking at it because of this).  The push scan never
\* reports "wrong waiting list sort".
WaitingListWellFormed ==
    /\ ~crashed
    /\ \A i \in 1..Len(wl.data) - 1 : wl.data[i].id < wl.data[i+1].id
    /\ \A i \in 1..Len(wl.data) : wl.data[i].id > wl.lastID
    /\ wl.idsMap = {wl.data[i].id : i \in 1..Len(wl.data)}
    /\ wl.dataSize = Len(wl.data) * PayloadLength
    /\ wl.dataSize <= WaitingListMaxSize
    /\ ~HeadDeliverable(wl)

GapOnlyOnReset ==
    \A i \in 1..Len(delivered) :
        \/ delivered[i].seq = (IF i = 1 THEN 0 ELSE delivered[i-1].seq) + 1
        \/ delivered[i].how = "reset"

\* Property 3 for the V1 worker, which starts a stream only with id 1.
SessionStreamGapFree == threadingBy = "session" => GapOnlyOnReset

\* What the duplicate test drops really is stale: it was delivered, is
\* waiting in the list, or lies behind a packet already delivered.
DiscardOnlyStale ==
    \A s \in discarded :
        s \in DeliveredSeqs \cup BufferedSeqs \/ s < HighestDelivered


\* Every packet is eventually delivered, or is overtaken by a delivered
\* packet (skipped by a reset, or dropped as stale).
EveryPacketDeliveredOrSkipped ==
    \A s \in Seqs : <>(s \in DeliveredSeqs \/ s < HighestDelivered)

\* The worker loop implements InOrderDelivery: numbered is the sender's
\* counter and handed the seqs given to the receiver callback.  Every
\* step of the loop body, pop, direct send, drain and reset alike, hands
\* over packets newer than the last one handed, in increasing order, and
\* while a newer packet has been sent the worker eventually hands one.
InOrder == INSTANCE InOrderDelivery
              WITH N <- MaxSeq, numbered <- sent,
                   handed <- [i \in 1..Len(delivered) |-> delivered[i].seq]

ImplementsInOrderDelivery == InOrder!Spec

-----------------------------------------------------------------------------
\* The path eventually delivers what is in flight and the retry engine
\* eventually retransmits what is unacknowledged; the sender keeps sending.
Fairness ==
    /\ WF_vars(~crashed /\ SendNext)
    /\ \A s \in Seqs : WF_vars(~crashed /\ Receive(s)) /\ WF_vars(Retransmit(s))

Spec == Init /\ [][Next]_vars /\ Fairness
=============================================================================
