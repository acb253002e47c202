------------------------------ MODULE MergerV1 ------------------------------
(***************************************************************************)
(* The stream table of the V1 merger (adapter/merger/merger.v1.go), used   *)
(* when ThreadingBy is "session": one channel and one worker goroutine     *)
(* (stream.v1.go) per session, for one session id that may be created,    *)
(* deleted and created again.  Port loops call Push under streamsMux.RLock *)
(* and send while holding it; CreateStream and DeleteStream take the write *)
(* lock, and DeleteStream sends nil, closes the channel and forgets it     *)
(* before unlocking.  What the worker does with a message (the waiting     *)
(* lists, StreamWorker) is abstracted to calling the receiver, which ends  *)
(* by appending it to `processed`.                                         *)
(* The callers are wired as in MergerV2: the server calls DeleteStream     *)
(* holding connMux, which the receiver's commandData read-locks; the       *)
(* client holds no lock.                                                   *)
(***************************************************************************)
EXTENDS Naturals, Sequences, FiniteSets

CONSTANTS
    Pushers,      \* port loops calling Push (model values)
    MaxMsgs,      \* data messages pushed in total
    MaxStreams,   \* CreateStream calls that make a channel
    ChanCap,      \* initialMessageCount, the channel capacity
    Wirings       \* the use cases: "client", "server"

ASSUME MaxMsgs \in Nat /\ MaxStreams \in Nat \ {0} /\ ChanCap \in Nat \ {0}
ASSUME Wirings \subseteq {"client", "server"}

Nil    == 0       \* the nil DeleteStream sends
Msgs   == 1..MaxMsgs
Chans  == 1..MaxStreams
NoChan == 0

VARIABLES
    streamOf,     \* m.streams[sessionID].ch, NoChan when absent
    created,      \* channels made so far (channel c is the c-th)
    chan,         \* chan[c] = [buf, closed]
    worker,       \* worker[c]: "none" | "loop" | "done"
    wmsg,         \* wmsg[c]: the message worker c is handing to the receiver, or Nil
    pc, pch, pmsg,\* Push: "idle" | "send" (RLock held, channel pch, message pmsg)
    dpc,          \* DeleteStream's caller: "idle" | "call" (Lock pending) | "nil" | "close"
    pushed,       \* messages handed to Push so far
    rejected,     \* messages Push found no stream for (reset sent)
    processed,    \* messages the workers handed to the receiver, in order
    panicked,     \* a send on a closed channel: the process died
    wiring        \* the configuration: "client" or "server"

vars == <<streamOf, created, chan, worker, wmsg, pc, pch, pmsg, dpc, pushed,
          rejected, processed, panicked, wiring>>

pushVars == <<pc, pch, pmsg, pushed, rejected>>

\* A send on channel c: panic when closed, block when full.
CanSend(c) == chan[c].closed \/ Len(chan[c].buf) < ChanCap
SendOn(c, v) ==
    IF chan[c].closed
    THEN panicked' = TRUE /\ UNCHANGED chan
    ELSE chan' = [chan EXCEPT ![c].buf = Append(@, v)] /\ UNCHANGED panicked

\* A Push holds streamsMux for reading.
ReadLocked == \E p \in Pushers : pc[p] = "send"

\* DeleteStream waits for or holds streamsMux for writing; Go's RWMutex
\* then lets no new reader in.
WriterIn == dpc # "idle"

\* Slip: the receiver takes a lock DeleteStream's caller holds in every use
\* case (as the server's commandData does with connMux).
ConnMuxHeldAnyWiring == dpc # "idle"

\* The server's caller holds connMux from before DeleteStream until after.
ConnMuxHeld == wiring = "server" /\ dpc # "idle"

-----------------------------------------------------------------------------
(* CreateStream (39-60), from the authentication of a session: under the   *)
(* write lock, make the channel and start its worker unless one exists.    *)

CreateStream ==
    /\ ~ReadLocked /\ ~WriterIn
    /\ streamOf = NoChan /\ created < MaxStreams
    /\ created' = created + 1
    /\ streamOf' = created + 1
    /\ worker' = [worker EXCEPT ![created + 1] = "loop"]
    /\ UNCHANGED <<chan, wmsg, pushVars, dpc, processed, panicked, wiring>>

-----------------------------------------------------------------------------
(* Push (73-97).                                                            *)

\* Slip: the stream is looked up without waiting for the write lock.
PushLoadIgnoresWriter(p) ==
    /\ pc[p] = "idle" /\ pushed < MaxMsgs
    /\ pushed' = pushed + 1
    /\ IF streamOf = NoChan
       THEN rejected' = rejected \cup {pushed + 1} /\ UNCHANGED <<pc, pch, pmsg>>
       ELSE /\ pc' = [pc EXCEPT ![p] = "send"]
            /\ pch' = [pch EXCEPT ![p] = streamOf]
            /\ pmsg' = [pmsg EXCEPT ![p] = pushed + 1]
            /\ UNCHANGED rejected
    /\ UNCHANGED <<streamOf, created, chan, worker, wmsg, dpc, processed, panicked, wiring>>

\* RLock, look the session's stream up: absent, reset and RUnlock.
PushLoad(p) ==
    /\ pc[p] = "idle" /\ pushed < MaxMsgs
    /\ ~WriterIn
    /\ pushed' = pushed + 1
    /\ IF streamOf = NoChan
       THEN rejected' = rejected \cup {pushed + 1} /\ UNCHANGED <<pc, pch, pmsg>>
       ELSE /\ pc' = [pc EXCEPT ![p] = "send"]
            /\ pch' = [pch EXCEPT ![p] = streamOf]
            /\ pmsg' = [pmsg EXCEPT ![p] = pushed + 1]
            /\ UNCHANGED rejected
    /\ UNCHANGED <<streamOf, created, chan, worker, wmsg, dpc, processed, panicked, wiring>>

\* s.ch <- message, then RUnlock.
PushSend(p) ==
    /\ pc[p] = "send"
    /\ CanSend(pch[p])
    /\ SendOn(pch[p], pmsg[p])
    /\ pc' = [pc EXCEPT ![p] = "idle"]
    /\ UNCHANGED <<streamOf, created, worker, wmsg, pch, pmsg, pushed, rejected,
                   dpc, processed, wiring>>

-----------------------------------------------------------------------------
(* DeleteStream (62-71), from dropSession / removeConnection on the server *)
(* (under connMux) and Stop / Exit on the client.                          *)

\* The caller reaches DeleteStream; streamsMux.Lock() is pending.
DeleteCall ==
    /\ dpc = "idle"
    /\ dpc' = "call"
    /\ UNCHANGED <<streamOf, created, chan, worker, wmsg, pushVars, processed, panicked, wiring>>

\* Slip: the write lock is taken while a Push still holds the read lock.
DeleteLockNoReaderWait ==
    /\ dpc = "call"
    /\ dpc' = IF streamOf = NoChan THEN "idle" ELSE "nil"
    /\ UNCHANGED <<streamOf, created, chan, worker, wmsg, pushVars, processed, panicked, wiring>>

\* The write lock is granted once no Push holds the read lock; without a
\* stream DeleteStream unlocks and returns.
DeleteLock ==
    /\ dpc = "call"
    /\ ~ReadLocked
    /\ dpc' = IF streamOf = NoChan THEN "idle" ELSE "nil"
    /\ UNCHANGED <<streamOf, created, chan, worker, wmsg, pushVars, processed, panicked, wiring>>

\* st.ch <- nil, blocking while the channel is full.
DeleteSendNil ==
    /\ dpc = "nil"
    /\ CanSend(streamOf)
    /\ SendOn(streamOf, Nil)
    /\ dpc' = "close"
    /\ UNCHANGED <<streamOf, created, worker, wmsg, pushVars, processed, wiring>>

\* close(st.ch), delete(m.streams, sessionID), Unlock; the caller returns
\* (and the server's releases connMux).
DeleteClose ==
    /\ dpc = "close"
    /\ chan' = [chan EXCEPT ![streamOf].closed = TRUE]
    /\ streamOf' = NoChan
    /\ dpc' = "idle"
    /\ UNCHANGED <<created, worker, wmsg, pushVars, processed, panicked, wiring>>

-----------------------------------------------------------------------------
(* The worker of channel c (stream.v1.go 11-40): for req := range ch.      *)

\* A nil ends the worker; a message goes to the waiting list, whose sender
\* calls the receiver from this goroutine.  A closed, drained channel ends
\* the range loop.
WorkerRecv(c) ==
    /\ worker[c] = "loop" /\ wmsg[c] = Nil
    /\ \/ /\ chan[c].buf # <<>>
          /\ chan' = [chan EXCEPT ![c].buf = Tail(@)]
          /\ IF Head(chan[c].buf) = Nil
             THEN worker' = [worker EXCEPT ![c] = "done"] /\ UNCHANGED wmsg
             ELSE wmsg' = [wmsg EXCEPT ![c] = Head(chan[c].buf)] /\ UNCHANGED worker
       \/ /\ chan[c].buf = <<>> /\ chan[c].closed
          /\ worker' = [worker EXCEPT ![c] = "done"]
          /\ UNCHANGED <<chan, wmsg>>
    /\ UNCHANGED <<streamOf, created, pushVars, dpc, processed, panicked, wiring>>

\* The receiver returns; on the server its commandData waits for
\* connMux.RLock while DeleteStream's caller holds connMux.
WorkerDeliver(c) ==
    /\ wmsg[c] # Nil
    /\ ~ConnMuxHeld
    /\ processed' = Append(processed, wmsg[c])
    /\ wmsg' = [wmsg EXCEPT ![c] = Nil]
    /\ UNCHANGED <<streamOf, created, chan, worker, pushVars, dpc, panicked, wiring>>

\* The process died of a panic: nothing more happens.
Crashed ==
    /\ panicked
    /\ UNCHANGED vars

\* NewV1 (26-37): an empty table; the use case sets the handlers.
Init ==
    /\ streamOf = NoChan /\ created = 0
    /\ chan = [c \in Chans |-> [buf |-> <<>>, closed |-> FALSE]]
    /\ worker = [c \in Chans |-> "none"]
    /\ wmsg = [c \in Chans |-> Nil]
    /\ pc = [p \in Pushers |-> "idle"]
    /\ pch = [p \in Pushers |-> NoChan]
    /\ pmsg = [p \in Pushers |-> Nil]
    /\ dpc = "idle"
    /\ pushed = 0 /\ rejected = {} /\ processed = <<>> /\ panicked = FALSE
    /\ wiring \in Wirings

Next ==
    \/ ~panicked /\ (CreateStream \/ DeleteCall \/ DeleteLock \/ DeleteSendNil \/ DeleteClose)
    \/ ~panicked /\ \E p \in Pushers : PushLoad(p) \/ PushSend(p)
    \/ ~panicked /\ \E c \in Chans : WorkerRecv(c) \/ WorkerDeliver(c)
    \/ Crashed

\* Goroutines blocked on a channel or a lock run once it lets them; Go's
\* RWMutex grants a waiting writer once the readers leave.  Port loops,
\* authentication and deletion get no fairness.
Fairness ==
    /\ \A p \in Pushers : WF_vars(~panicked /\ PushSend(p))
    /\ \A c \in Chans : WF_vars(~panicked /\ WorkerRecv(c))
                        /\ WF_vars(~panicked /\ WorkerDeliver(c))
    /\ WF_vars(~panicked /\ DeleteLock)
    /\ WF_vars(~panicked /\ DeleteSendNil)
    /\ WF_vars(~panicked /\ DeleteClose)

Spec == Init /\ [][Next]_vars /\ Fairness

-----------------------------------------------------------------------------
(* Properties.                                                             *)

Processed == {processed[i] : i \in 1..Len(processed)}

TypeOK ==
    /\ streamOf \in Chans \cup {NoChan} /\ created \in 0..MaxStreams
    /\ \A c \in Chans : /\ chan[c].buf \in Seq(Msgs \cup {Nil})
                        /\ Len(chan[c].buf) <= ChanCap
                        /\ chan[c].closed \in BOOLEAN
    /\ worker \in [Chans -> {"none", "loop", "done"}]
    /\ wmsg \in [Chans -> Msgs \cup {Nil}]
    /\ pc \in [Pushers -> {"idle", "send"}] /\ pch \in [Pushers -> Chans \cup {NoChan}]
    /\ pmsg \in [Pushers -> Msgs \cup {Nil}]
    /\ dpc \in {"idle", "call", "nil", "close"}
    /\ pushed \in 0..MaxMsgs /\ rejected \subseteq Msgs
    /\ processed \in Seq(Msgs) /\ panicked \in BOOLEAN
    /\ wiring \in {"client", "server"}

\* A Push never sends on a channel DeleteStream closed: the close happens
\* under the write lock, and Push sends while holding the read lock.
NoSendOnClosedChannel == ~panicked

\* Every message Push accepted is eventually handed to the receiver, also
\* when the session is deleted meanwhile: DeleteStream's nil queues behind
\* every accepted message, and nothing is sent after it.
AcceptedEventuallyProcessed ==
    \A m \in Msgs :
        [](m <= pushed /\ m \notin rejected => <>(m \in Processed))

\* DeleteStream returns: its caller (the client's Stop or Exit, the
\* server's removeConnection or dropSession) is not left waiting on the
\* write lock or on the nil send.
DeleteStreamReturns == dpc # "idle" ~> dpc = "idle"

\* With no lock between DeleteStream's caller and the receiver (the client
\* use case), deletion always completes.
ClientDeleteStreamReturns == wiring = "client" => DeleteStreamReturns
====
