--------------------------- MODULE EndpointSequence ---------------------------
(***************************************************************************)
(* Message ids per endpoint, from the tunnel reader to the stream merger.  *)
(* The sender is the listen goroutine of adapter/wiface/iface.go: for each *)
(* packet read from the device, getMessageID numbers it on its endpoint's *)
(* counter, and once the table holds maxEndpoints entries a scan evicts    *)
(* the entries idle for more than EndpointTTL and adapts maxEndpoints; an  *)
(* evicted endpoint starts again at id 1 (pool.go zeroes the entry).       *)
(* The receiver is what the merger keeps per endpoint of the session: a   *)
(* V2 worker (stream.v2.go, ThreadingBy "endpoint") that the checker       *)
(* (merger.v2.go streamChecker) ends after StreamTTL without a message,    *)
(* or a waiting list of the V1 session stream (stream.v1.go, ThreadingBy  *)
(* "session") that lives as long as the session.                          *)
(*                                                                         *)
(* One session.  Each endpoint's datagrams arrive in order within MaxDelay *)
(* seconds (the retry engine's bound); loss, duplication, reordering and  *)
(* the waiting list itself are StreamWorker's.  A receiver's state is     *)
(* what the duplicate test and the direct send read: lastID, firstSent    *)
(* and lastMessageTs.                                                      *)
(***************************************************************************)
EXTENDS Naturals, Sequences, FiniteSets, Functions

CONSTANTS
    Endpoints,           \* endpoints of the packets read (PacketEndpoint)
    InitialEndpoints,    \* initialEndpoints (100 in the code)
    IncrementEndpoints,  \* incrementEndpoints (10 in the code)
    EndpointTTL,         \* Config.EndpointTTL (seconds)
    StreamTTL,           \* StreamMerger.StreamTTL (seconds)
    StreamCheckInterval, \* StreamMerger.StreamCheckInterval (seconds)
    MaxDelay,            \* seconds a datagram may take to reach the merger
    MaxTime,             \* last second of the clock
    MaxSends,            \* packets read per endpoint
    ThreadingModes       \* values of ThreadingBy explored

ASSUME ThreadingModes \subseteq {"endpoint", "session"}
ASSUME \A c \in {InitialEndpoints, IncrementEndpoints, EndpointTTL, StreamTTL,
                 StreamCheckInterval, MaxDelay, MaxTime, MaxSends} : c \in Nat
ASSUME MaxDelay > 0

VARIABLES
    now,             \* time.Now().Unix()
    table,           \* endpointsMap: endpoint -> [id, ts]
    endpointsMapLen, \* the count the loop keeps beside the map
    maxEndpoints,
    sends,           \* packets read per endpoint so far
    net,             \* per endpoint, datagrams in flight: [id, seq, ts]
    stream,          \* per endpoint, the merger's state, or NoStream
    nextCheck,       \* second of the checker's next tick
    delivered,       \* history: highest seq handed to the receiver, per endpoint
    buffered,        \* history: [e, seq] pushed into a waiting list
    discarded,       \* history: [e, seq] dropped as duplicates
    threadingBy

vars == <<now, table, endpointsMapLen, maxEndpoints, sends, net, stream, nextCheck,
          delivered, buffered, discarded, threadingBy>>

NoStream == [live |-> FALSE, lastID |-> 0, firstSent |-> FALSE, lastTs |-> 0]

-----------------------------------------------------------------------------
(* The sender: the listen loop of iface.go.                                *)

\* endpointsPool.get: a zeroed endpointSequence (put zeroes id and ts).
PooledEntry == [id |-> 0, ts |-> 0]

\* getMessageID: take the entry of e, from the pool when it is missing,
\* increment its id and stamp it with now.
GetMessageID(t, e) ==
    LET old == IF e \in DOMAIN t THEN t[e] ELSE PooledEntry
    IN [x \in DOMAIN t \cup {e} |-> IF x = e THEN [id |-> old.id + 1, ts |-> now] ELSE t[x]]

\* The entries the scan deletes: curTs > es.ts + EndpointTTL.
Expired(t) == {x \in DOMAIN t : now > t[x].ts + EndpointTTL}

\* maxEndpoints after a scan that deleted d entries.
NextMaxEndpoints(m, d) ==
    CASE d = 0                                -> m + IncrementEndpoints
      [] m - d <= InitialEndpoints             -> InitialEndpoints
      [] m - IncrementEndpoints >= InitialEndpoints -> m - IncrementEndpoints
      [] OTHER                                 -> m - 1

\* One pass of the loop for a packet of endpoint e: number it, hand it to
\* the session (ifc.Receiver, then a connection), and, when the table is
\* full, the eviction scan.
Read(e) ==
    /\ sends[e] < MaxSends
    /\ LET t    == GetMessageID(table, e)
           len  == endpointsMapLen + (IF e \in DOMAIN table THEN 0 ELSE 1)
           scan == EndpointTTL > 0 /\ len >= maxEndpoints
           gone == IF scan THEN Expired(t) ELSE {}
       IN /\ table' = Restrict(t, DOMAIN t \ gone)
          /\ endpointsMapLen' = len - Cardinality(gone)
          /\ maxEndpoints' = IF scan THEN NextMaxEndpoints(maxEndpoints, Cardinality(gone))
                                     ELSE maxEndpoints
          /\ net' = [net EXCEPT ![e] = Append(@, [id |-> t[e].id, seq |-> sends[e] + 1,
                                                   ts |-> now])]
    /\ sends' = [sends EXCEPT ![e] = @ + 1]
    /\ UNCHANGED <<now, stream, nextCheck, delivered, buffered, discarded, threadingBy>>

-----------------------------------------------------------------------------
(* The receiver: the merger's loop body for the next datagram of e.        *)

\* V2 Push stores a new worker when the key has none; V1 getWaitingList
\* creates the endpoint's list on its first message.  Either starts empty.
StreamFor(e) == IF stream[e].live THEN stream[e] ELSE [NoStream EXCEPT !.live = TRUE]

\* wl.getLastID() >= id && wl.getLastID() < MaxUint32 || wl.exists(id)
IsDuplicate(w, id) == w.lastID >= id

\* The direct send: lastID+1 or id 0 after the first message; as the first
\* message any id for V2, only id 1 for V1.
SendsDirectly(w, id) ==
    \/ w.firstSent /\ (w.lastID + 1 = id \/ id = 0)
    \/ ~w.firstSent /\ (threadingBy = "endpoint" \/ id = 1)

Receive(e) ==
    /\ net[e] # <<>>
    /\ LET m == Head(net[e])
           w == [StreamFor(e) EXCEPT !.lastTs = now]
       IN \/ /\ IsDuplicate(w, m.id)
             /\ stream' = [stream EXCEPT ![e] = w]
             /\ discarded' = discarded \cup {[e |-> e, seq |-> m.seq]}
             /\ UNCHANGED <<delivered, buffered>>
          \/ /\ ~IsDuplicate(w, m.id) /\ SendsDirectly(w, m.id)
             /\ stream' = [stream EXCEPT ![e] = [w EXCEPT !.lastID = m.id, !.firstSent = TRUE]]
             /\ delivered' = [delivered EXCEPT ![e] = m.seq]
             /\ UNCHANGED <<buffered, discarded>>
          \/ /\ ~IsDuplicate(w, m.id) /\ ~SendsDirectly(w, m.id)
             /\ stream' = [stream EXCEPT ![e] = w]
             /\ buffered' = buffered \cup {[e |-> e, seq |-> m.seq]}
             /\ UNCHANGED <<delivered, discarded>>
    /\ net' = [net EXCEPT ![e] = Tail(@)]
    /\ UNCHANGED <<now, table, endpointsMapLen, maxEndpoints, sends, nextCheck, threadingBy>>

\* A tick of the V2 checker: nil to every stream; a worker whose
\* lastMessageTs is StreamTTL or more in the past returns.
CheckerTick ==
    /\ threadingBy = "endpoint" /\ StreamCheckInterval > 0 /\ StreamTTL > 0
    /\ now = nextCheck
    /\ nextCheck' = now + StreamCheckInterval
    /\ stream' = [e \in Endpoints |->
                    IF stream[e].live /\ now - stream[e].lastTs >= StreamTTL
                    THEN NoStream ELSE stream[e]]
    /\ UNCHANGED <<now, table, endpointsMapLen, maxEndpoints, sends, net, delivered,
                   buffered, discarded, threadingBy>>

CheckerDue == threadingBy = "endpoint" /\ StreamCheckInterval > 0 /\ StreamTTL > 0
              /\ now = nextCheck

\* A second passes; no datagram is older than MaxDelay and a due tick of
\* the checker has happened.
Tick ==
    /\ now < MaxTime
    /\ \A e \in Endpoints : \A i \in 1..Len(net[e]) : now < net[e][i].ts + MaxDelay
    /\ ~CheckerDue
    /\ now' = now + 1
    /\ UNCHANGED <<table, endpointsMapLen, maxEndpoints, sends, net, stream, nextCheck,
                   delivered, buffered, discarded, threadingBy>>

\* The clock has reached its bound and every datagram has arrived.
Done ==
    /\ now = MaxTime /\ \A e \in Endpoints : net[e] = <<>>
    /\ UNCHANGED vars

Init ==
    /\ now = 1
    /\ table = <<>>
    /\ endpointsMapLen = 0
    /\ maxEndpoints = InitialEndpoints
    /\ sends = [e \in Endpoints |-> 0]
    /\ net = [e \in Endpoints |-> <<>>]
    /\ stream = [e \in Endpoints |-> NoStream]
    /\ nextCheck = 1 + StreamCheckInterval
    /\ delivered = [e \in Endpoints |-> 0]
    /\ buffered = {}
    /\ discarded = {}
    /\ threadingBy \in ThreadingModes

Next ==
    \/ \E e \in Endpoints : Read(e) \/ Receive(e)
    \/ CheckerTick
    \/ Tick
    \/ Done

Spec == Init /\ [][Next]_vars

-----------------------------------------------------------------------------
(* Properties.                                                             *)

Entries == [id : 1..MaxSends, ts : 1..MaxTime]

TypeOK ==
    /\ now \in 1..MaxTime
    /\ DOMAIN table \subseteq Endpoints /\ \A e \in DOMAIN table : table[e] \in Entries
    /\ endpointsMapLen \in Nat /\ maxEndpoints \in Nat
    /\ sends \in [Endpoints -> 0..MaxSends]
    /\ \A e \in Endpoints : net[e] \in Seq([id : 1..MaxSends, seq : 1..MaxSends, ts : 1..MaxTime])
    /\ delivered \in [Endpoints -> 0..MaxSends]
    /\ buffered \subseteq [e : Endpoints, seq : 1..MaxSends]
    /\ discarded \subseteq [e : Endpoints, seq : 1..MaxSends]

\* The path neither loses nor duplicates here, so the duplicate test of the
\* merger (stream.v2.go:87, stream.v1.go:54) must never drop a packet:
\* whatever it drops lies behind a packet of its endpoint already handed to
\* the receiver.  It fails when getMessageID restarts an evicted endpoint
\* at id 1 while the receiver still holds that endpoint's old lastID.
NoFreshDiscard ==
    \A d \in discarded : d.seq <= delivered[d.e]
=============================================================================
