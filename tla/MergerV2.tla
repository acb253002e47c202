------------------------------ MODULE MergerV2 ------------------------------
(***************************************************************************)
(* The stream table of the V2 merger (adapter/merger/merger.v2.go) and the *)
(* life cycle of its worker goroutines (stream.v2.go): one session and one *)
(* endpoint, so one stream key.  Port loops call Push concurrently under    *)
(* sessionsMux.RLock; DeleteStream takes the write lock; the checker and   *)
(* the workers take no lock.  A channel is a buffer of capacity ChanCap    *)
(* and a closed flag; what a worker does with a message (the waiting list, *)
(* StreamWorker) is abstracted to handing it to the receiver, whose call   *)
(* ends by appending it to `processed`.                                    *)
(* DeleteStream's caller is the use case: on the server, removeConnection  *)
(* and dropSession call it holding their connMux for writing, and the      *)
(* receiver (socketReceiver -> commandData -> getConnection) read-locks    *)
(* that connMux; the client's Stop and Exit call it holding no lock and    *)
(* its commandData takes none.                                             *)
(***************************************************************************)
EXTENDS Naturals, Sequences, FiniteSets

CONSTANTS
    Pushers,          \* port loops calling Push (model values)
    MaxMsgs,          \* data messages pushed in total
    MaxStreams,       \* channels (stream generations) that may be created
    ChanCap,          \* initialMessageCount, the channel capacity
    CheckerModes,     \* values of StreamCheckInterval > 0 /\ StreamTTL > 0 to explore
    Wirings           \* the use cases the merger is wired into: "client", "server"

ASSUME MaxMsgs \in Nat /\ MaxStreams \in Nat \ {0} /\ ChanCap \in Nat \ {0}
ASSUME CheckerModes \subseteq BOOLEAN /\ MaxStreams >= MaxMsgs
ASSUME Wirings \subseteq {"client", "server"}

Nil  == 0                 \* the nil the checker sends
Msgs == 1..MaxMsgs
Chans == 1..MaxStreams
NoChan == 0

VARIABLES
    sessionLive,  \* m.sessions[sessionID] exists
    ctxDone,      \* the session's context was cancelled
    streamOf,     \* the channel stored under the stream key, NoChan if none
    chan,         \* chan[c] = [buf, closed]
    worker,       \* "none" | "loop" | "deleted" (Delete done, close pending) | "done"
    stale,        \* stale[c]: time.Since(lastMessageTs) >= StreamTTL
    pc, pch, pmsg,\* Push: "idle" | "send" (RLock held, channel pch loaded, message pmsg)
    cpc, cch,     \* checker: "idle" | "send" (channel cch loaded by Range)
    pushed,       \* messages handed to Push so far
    rejected,     \* messages Push refused (ErrSessionNotExists, reset sent)
    processed,    \* messages taken from a channel by a worker, in order
    panicked,     \* a send on a closed channel: the process died
    checkerEnabled,\* the configuration: the stream checker runs
    wiring,       \* the configuration: "client" or "server" use case
    dpc,          \* DeleteStream's caller: "idle" | "del" (calling it) | "done"
    wmsg          \* wmsg[c]: the message worker c is handing to the receiver, or Nil

vars == <<sessionLive, ctxDone, streamOf, chan, worker, stale, pc, pch, pmsg,
          cpc, cch, pushed, rejected, processed, panicked, checkerEnabled, wiring, dpc, wmsg>>

pushVars == <<pc, pch, pmsg, pushed, rejected>>
checkerVars == <<cpc, cch, checkerEnabled, wiring>>

\* A send on channel c of value v: panic when closed, block when full.
CanSendUnbounded(c) == TRUE
CanSend(c) == chan[c].closed \/ Len(chan[c].buf) < ChanCap
SendOn(c, v) ==
    IF chan[c].closed
    THEN panicked' = TRUE /\ UNCHANGED chan
    ELSE chan' = [chan EXCEPT ![c].buf = Append(@, v)] /\ UNCHANGED panicked

LockHeld == \E p \in Pushers : pc[p] = "send"

\* DeleteStream waits for sessionsMux: Go's RWMutex then blocks new RLocks.
WriterWaiting == dpc = "del"

\* The server's caller holds its connMux from before DeleteStream until it
\* returns.
ConnMuxHeld == wiring = "server" /\ dpc = "del"

FirstUnused == CHOOSE c \in Chans : worker[c] = "none" /\ \A d \in Chans : d < c => worker[d] # "none"

-----------------------------------------------------------------------------
(* Push (merger.v2.go 79-119).                                              *)

\* Slip: the stored channel gets no worker goroutine.
PushLoadNoWorker(p) ==
    /\ pc[p] = "idle" /\ pushed < MaxMsgs /\ sessionLive
    /\ ~WriterWaiting
    /\ pushed' = pushed + 1
    /\ pmsg' = [pmsg EXCEPT ![p] = pushed + 1]
    /\ pc' = [pc EXCEPT ![p] = "send"]
    /\ IF streamOf # NoChan
       THEN pch' = [pch EXCEPT ![p] = streamOf] /\ UNCHANGED streamOf
       ELSE streamOf' = FirstUnused /\ pch' = [pch EXCEPT ![p] = FirstUnused]
    /\ UNCHANGED <<rejected, worker, stale, sessionLive, ctxDone, chan, checkerVars,
                   processed, panicked, dpc, wmsg>>

\* Slip: Store instead of LoadOrStore, a new stream on every Push.
PushLoadAlwaysStore(p) ==
    /\ pc[p] = "idle" /\ pushed < MaxMsgs /\ sessionLive
    /\ ~WriterWaiting
    /\ \E c \in Chans : worker[c] = "none"
    /\ pushed' = pushed + 1
    /\ pmsg' = [pmsg EXCEPT ![p] = pushed + 1]
    /\ pc' = [pc EXCEPT ![p] = "send"]
    /\ streamOf' = FirstUnused
    /\ worker' = [worker EXCEPT ![FirstUnused] = "loop"]
    /\ stale' = [stale EXCEPT ![FirstUnused] = TRUE]
    /\ pch' = [pch EXCEPT ![p] = FirstUnused]
    /\ UNCHANGED <<rejected, sessionLive, ctxDone, chan, checkerVars, processed, panicked, dpc, wmsg>>

\* Slip: the session is not looked up; the message goes to the stream
\* key's channel (a new one once the old worker left) after DeleteStream.
PushLoadNoSessionCheck(p) ==
    /\ pc[p] = "idle" /\ pushed < MaxMsgs /\ ~WriterWaiting
    /\ pushed' = pushed + 1
    /\ pc' = [pc EXCEPT ![p] = "send"]
    /\ pmsg' = [pmsg EXCEPT ![p] = pushed + 1]
    /\ IF streamOf # NoChan
       THEN pch' = [pch EXCEPT ![p] = streamOf] /\ UNCHANGED <<streamOf, worker, stale>>
       ELSE /\ streamOf' = FirstUnused
            /\ worker' = [worker EXCEPT ![FirstUnused] = "loop"]
            /\ stale' = [stale EXCEPT ![FirstUnused] = TRUE]
            /\ pch' = [pch EXCEPT ![p] = FirstUnused]
    /\ UNCHANGED <<rejected, sessionLive, ctxDone, chan, checkerVars, processed, panicked, dpc, wmsg>>

\* RLock and look the session up; if it is gone, reset and return the
\* error.  Otherwise LoadOrStore a fresh channel and, when it was stored,
\* start its worker, whose lastMessageTs is the zero time: stale.
PushLoad(p) ==
    /\ pc[p] = "idle"
    /\ pushed < MaxMsgs
    /\ ~WriterWaiting
    /\ pushed' = pushed + 1
    /\ \/ /\ ~sessionLive
          /\ rejected' = rejected \cup {pushed + 1}
          /\ UNCHANGED <<pc, pch, pmsg, streamOf, worker, stale>>
       \/ /\ sessionLive
          /\ pc' = [pc EXCEPT ![p] = "send"]
          /\ pmsg' = [pmsg EXCEPT ![p] = pushed + 1]
          /\ UNCHANGED rejected
          /\ \/ /\ streamOf # NoChan
                /\ pch' = [pch EXCEPT ![p] = streamOf]
                /\ UNCHANGED <<streamOf, worker, stale>>
             \/ /\ streamOf = NoChan
                /\ streamOf' = FirstUnused
                /\ worker' = [worker EXCEPT ![FirstUnused] = "loop"]
                /\ stale' = [stale EXCEPT ![FirstUnused] = TRUE]
                /\ pch' = [pch EXCEPT ![p] = FirstUnused]
    /\ UNCHANGED <<sessionLive, ctxDone, chan, checkerVars, processed, panicked, dpc, wmsg>>

\* send(ch) with the message, then RUnlock.
PushSend(p) ==
    /\ pc[p] = "send"
    /\ CanSend(pch[p])
    /\ SendOn(pch[p], pmsg[p])
    /\ pc' = [pc EXCEPT ![p] = "idle"]
    /\ UNCHANGED <<pch, pmsg, pushed, rejected>>
    /\ UNCHANGED <<sessionLive, ctxDone, streamOf, worker, stale, checkerVars, processed, dpc, wmsg>>

-----------------------------------------------------------------------------
(* DeleteStream (69-77) and its caller.  The server's removeConnection     *)
(* (server.connections.go 40-70) takes connMux.Lock, and when the          *)
(* interface's last connection goes calls DeleteStream at line 55, still    *)
(* holding it; the client's Stop (client.go 372-380) calls it bare.        *)

\* The caller reaches merger.DeleteStream (holding connMux on the server);
\* its m.sessionsMux.Lock() is now pending.
DeleteCall ==
    /\ dpc = "idle"
    /\ dpc' = "del"
    /\ UNCHANGED <<sessionLive, ctxDone, streamOf, chan, worker, stale, pushVars,
                   checkerVars, processed, panicked, wmsg>>

\* Slip: DeleteStream without the write lock.
DeleteStreamNoLock ==
    /\ dpc = "del"
    /\ sessionLive' = FALSE
    /\ ctxDone' = TRUE
    /\ dpc' = "done"
    /\ UNCHANGED <<streamOf, chan, worker, stale, pushVars, checkerVars, processed, panicked, wmsg>>

\* Once no Push holds the read lock: cancel the session's context, forget
\* the session, unlock; the caller then releases connMux.
DeleteStream ==
    /\ dpc = "del"
    /\ ~LockHeld
    /\ sessionLive' = FALSE
    /\ ctxDone' = TRUE
    /\ dpc' = "done"
    /\ UNCHANGED <<streamOf, chan, worker, stale, pushVars, checkerVars, processed, panicked, wmsg>>

-----------------------------------------------------------------------------
(* streamChecker (140-159): each tick, Range over the streams and send nil  *)
(* to every channel; disabled when StreamCheckInterval or StreamTTL is 0.   *)

CheckerLoad ==
    /\ checkerEnabled
    /\ cpc = "idle"
    /\ streamOf # NoChan
    /\ cpc' = "send"
    /\ cch' = streamOf
    /\ UNCHANGED <<checkerEnabled, wiring, sessionLive, ctxDone, streamOf, chan, worker, stale, pushVars, processed, panicked, dpc, wmsg>>

CheckerSend ==
    /\ cpc = "send"
    /\ CanSend(cch)
    /\ SendOn(cch, Nil)
    /\ cpc' = "idle"
    /\ UNCHANGED <<cch, checkerEnabled, wiring, sessionLive, ctxDone, streamOf, worker, stale, pushVars, processed, dpc, wmsg>>

-----------------------------------------------------------------------------
(* The worker goroutine of channel c (stream.v2.go 12-137).                *)

\* The deferred function's first half: m.streams.Delete(key).
ExitLoop(c) ==
    /\ worker' = [worker EXCEPT ![c] = "deleted"]
    /\ streamOf' = NoChan

\* case req := <-ch.  nil: leave when lastMessageTs is older than StreamTTL,
\* else go on.  A message: lastMessageTs = now, then the waiting list,
\* which calls the sender (m.receiver) on it from this goroutine.
WorkerRecv(c) ==
    /\ worker[c] = "loop"
    /\ wmsg[c] = Nil
    /\ chan[c].buf # <<>>
    /\ chan' = [chan EXCEPT ![c].buf = Tail(@)]
    /\ LET v == Head(chan[c].buf) IN
       \/ v = Nil /\ stale[c] /\ ExitLoop(c) /\ UNCHANGED <<stale, wmsg>>
       \/ v = Nil /\ ~stale[c] /\ UNCHANGED <<worker, streamOf, stale, wmsg>>
       \/ v # Nil /\ wmsg' = [wmsg EXCEPT ![c] = v]
                  /\ stale' = [stale EXCEPT ![c] = FALSE]
                  /\ UNCHANGED <<worker, streamOf>>
    /\ UNCHANGED <<sessionLive, ctxDone, pushVars, checkerVars, panicked, processed, dpc>>

\* The receiver returns.  On the server it is socketReceiver -> command ->
\* commandData (server.go 155-195, 322-351), whose getConnection read-locks
\* connMux (server.connections.go 33-37): it waits while removeConnection
\* holds it.  The client's commandData (client.go 319-338) takes no lock.
WorkerDeliver(c) ==
    /\ wmsg[c] # Nil
    /\ ~ConnMuxHeld
    /\ processed' = Append(processed, wmsg[c])
    /\ wmsg' = [wmsg EXCEPT ![c] = Nil]
    /\ UNCHANGED <<sessionLive, ctxDone, streamOf, chan, worker, stale, pushVars, checkerVars, panicked, dpc>>

\* case <-ctx.Done(): DeleteStream cancelled the session.  When a message
\* is also ready, select picks either case.
WorkerCancel(c) ==
    /\ worker[c] = "loop"
    /\ wmsg[c] = Nil
    /\ ctxDone
    /\ ExitLoop(c)
    /\ UNCHANGED <<sessionLive, ctxDone, chan, stale, pushVars, checkerVars, processed, panicked, dpc, wmsg>>

\* The deferred function's second half: close(ch).
WorkerClose(c) ==
    /\ worker[c] = "deleted"
    /\ worker' = [worker EXCEPT ![c] = "done"]
    /\ chan' = [chan EXCEPT ![c].closed = TRUE]
    /\ UNCHANGED <<sessionLive, ctxDone, streamOf, stale, pushVars, checkerVars, processed, panicked, dpc, wmsg>>

\* StreamTTL seconds pass without a message on the stream.
Age(c) ==
    /\ checkerEnabled
    /\ worker[c] = "loop"
    /\ ~stale[c]
    /\ stale' = [stale EXCEPT ![c] = TRUE]
    /\ UNCHANGED <<sessionLive, ctxDone, streamOf, chan, worker, pushVars, checkerVars, processed, panicked, dpc, wmsg>>

\* Every message pushed and every Push returned, or the process died:
\* nothing more happens.
Finished ==
    /\ \/ pushed = MaxMsgs /\ \A p \in Pushers : pc[p] = "idle"
       \/ panicked
    /\ UNCHANGED vars

Init ==
    /\ sessionLive = TRUE
    /\ ctxDone = FALSE
    /\ streamOf = NoChan
    /\ chan = [c \in Chans |-> [buf |-> <<>>, closed |-> FALSE]]
    /\ worker = [c \in Chans |-> "none"]
    /\ stale = [c \in Chans |-> FALSE]
    /\ pc = [p \in Pushers |-> "idle"]
    /\ pch = [p \in Pushers |-> NoChan]
    /\ pmsg = [p \in Pushers |-> Nil]
    /\ cpc = "idle"
    /\ cch = NoChan
    /\ pushed = 0
    /\ rejected = {}
    /\ processed = <<>>
    /\ panicked = FALSE
    /\ checkerEnabled \in CheckerModes
    /\ wiring \in Wirings
    /\ dpc = "idle"
    /\ wmsg = [c \in Chans |-> Nil]

Next ==
    \/ ~panicked /\ \E p \in Pushers : PushLoad(p) \/ PushSend(p)
    \/ ~panicked /\ (DeleteCall \/ DeleteStream \/ CheckerLoad \/ CheckerSend)
    \/ ~panicked /\ \E c \in Chans : \/ WorkerRecv(c) \/ WorkerDeliver(c) \/ WorkerCancel(c)
                                     \/ WorkerClose(c) \/ Age(c)
    \/ Finished

Fairness ==
    /\ \A p \in Pushers : WF_vars(~panicked /\ PushSend(p))
    /\ \A c \in Chans : WF_vars(~panicked /\ WorkerRecv(c))
                        /\ WF_vars(~panicked /\ WorkerDeliver(c))
                        /\ WF_vars(~panicked /\ WorkerCancel(c))
                        /\ WF_vars(~panicked /\ WorkerClose(c))
    /\ WF_vars(~panicked /\ CheckerSend)
    /\ WF_vars(~panicked /\ DeleteStream)

Spec == Init /\ [][Next]_vars /\ Fairness

-----------------------------------------------------------------------------
(* Properties.                                                             *)

Processed == {processed[i] : i \in 1..Len(processed)}

TypeOK ==
    /\ sessionLive \in BOOLEAN /\ ctxDone \in BOOLEAN
    /\ streamOf \in Chans \cup {NoChan}
    /\ \A c \in Chans : /\ chan[c].buf \in Seq(Msgs \cup {Nil})
                        /\ Len(chan[c].buf) <= ChanCap
                        /\ chan[c].closed \in BOOLEAN
    /\ worker \in [Chans -> {"none", "loop", "deleted", "done"}]
    /\ stale \in [Chans -> BOOLEAN]
    /\ pc \in [Pushers -> {"idle", "send"}] /\ pch \in [Pushers -> Chans \cup {NoChan}]
    /\ pmsg \in [Pushers -> Msgs \cup {Nil}]
    /\ cpc \in {"idle", "send"} /\ cch \in Chans \cup {NoChan}
    /\ pushed \in 0..MaxMsgs /\ rejected \subseteq Msgs
    /\ processed \in Seq(Msgs) /\ panicked \in BOOLEAN
    /\ checkerEnabled \in BOOLEAN /\ wiring \in {"client", "server"}
    /\ dpc \in {"idle", "del", "done"} /\ wmsg \in [Chans -> Msgs \cup {Nil}]

\* Neither Push nor the checker ever sends on a channel its worker closed
\* (Go panics, and nothing in the process recovers).
NoSendOnClosedChannel == ~panicked

\* At most one goroutine runs the loop of the stream key, so one waiting
\* list orders the endpoint's messages (LoadOrStore stores a channel and
\* starts a worker only when none is stored).
SingleStreamWorker ==
    Cardinality({c \in Chans : worker[c] = "loop"}) <= 1

\* Every message Push accepted for a live session is eventually read by a
\* worker, unless the session is deleted in the meantime.
AcceptedEventuallyProcessed ==
    \A m \in Msgs :
        [](m <= pushed /\ m \notin rejected => <>(m \in Processed \/ ctxDone))

\* With the stream checker disabled (StreamTTL = 0), workers end only by
\* DeleteStream: no Push panics and every accepted message is read.
CheckerOffNoPanic == ~checkerEnabled => NoSendOnClosedChannel
CheckerOffAcceptedProcessed == ~checkerEnabled => AcceptedEventuallyProcessed

\* No wait cycle through the merger: never does DeleteStream wait for
\* sessionsMux while a Push holds its read lock blocked on a full channel
\* whose worker is inside the receiver waiting for a lock DeleteStream's
\* caller holds.
NoLockCycle ==
    ~ \E p \in Pushers :
        /\ WriterWaiting /\ pc[p] = "send" /\ ~CanSend(pch[p])
        /\ wmsg[pch[p]] # Nil /\ ConnMuxHeld
=============================================================================
