------------------------------- MODULE Retry -------------------------------
(***************************************************************************)
(* The retry engine of one connection (adapter/retry/retry.go): the map   *)
(* of in-flight messages, one timer goroutine per pushed message, Ack with *)
(* Karn's rule, and the keepalive goroutine fed through the buffered       *)
(* keepaliveCh.  Around it: the sender that transmits a message and then   *)
(* calls Push (client/udp.go sendAsyncUDP, server/udp.go sendUDP), the     *)
(* receive loop that calls Ack and Keepalive for the peer's frames, the    *)
(* owner that may call Stop, and the peer, which may fall silent.          *)
(*                                                                         *)
(* Time is abstracted: a timer fires at some later step; the wall-clock    *)
(* test ts - start >= MaxTimeout becomes "attempts = MaxRetransmits" (the  *)
(* backoff makes elapsed time a function of attempts), and the keepalive   *)
(* clock counts KeepaliveInterval ticks since the last signal.  The RTO    *)
(* estimator itself (floating-point EWMA) is abstracted to the set of     *)
(* samples fed to it.                                                      *)
(***************************************************************************)
EXTENDS Naturals, Sequences, FiniteSets

CONSTANTS
    MsgIds,             \* keys (endpoint, id) of the messages sent
    MaxRetransmits,     \* retransmissions before elapsed >= MaxTimeout
    KeepaliveProbes,    \* cfg.KeepaliveProbes
    TimeoutIntervals,   \* ceil(KeepaliveTimeout / KeepaliveInterval)
    CallerOutlivesEngine \* the receive loop keeps calling a stopped engine

ASSUME KeepaliveProbes \in Nat \ {0} /\ TimeoutIntervals \in Nat \ {0}
       /\ MaxRetransmits \in Nat
       /\ CallerOutlivesEngine \in BOOLEAN

VARIABLES
    phase,        \* sender: "new", "sent" (on the wire, not pushed), "pushed"
    messages,     \* keys present in r.messages (sync.Map)
    tmr,          \* m.timer: "off", "armed", or "fired" (value waiting in C)
    attempts,     \* m.attempts
    stopSig,      \* m.stop holds a value / is closed
    gpc,          \* timer goroutine: "none", "wait", "check", "sent", "done"
    cpc,          \* receive loop: "idle", "acking" (in Ack), "keepalive"
    pending,      \* ids of the Ack payload not yet looked up
    kch,          \* r.keepaliveCh: a sequence of "ack" / "nil" values
    kpc,          \* keepalive goroutine: "loop", "disconnecting", "exited"
    probes,       \* its probes counter
    sinceAck,     \* intervals since max(lastAck, started)
    ctxDone,      \* r.ctx cancelled (Stop)
    disconnected, \* r.disconnect was called
    peerAlive,    \* the peer still sends frames
    resent,       \* ghost: retransmissions (sendData calls) per id
    samples,      \* ghost: RTO samples, as [id, resent] at sampling time
    syncTimers    \* the build's timers are Go >= 1.23 ones: timer channels are
                  \* synchronous and Stop discards a fired, unreceived value

vars == <<phase, messages, tmr, attempts, stopSig, gpc, cpc, pending, kch,
          kpc, probes, sinceAck, ctxDone, disconnected, peerAlive, resent,
          samples, syncTimers>>
timerVars == <<tmr, attempts, stopSig, gpc>>
keepVars  == <<kpc, probes, sinceAck, disconnected>>
ghostVars == <<resent, samples, syncTimers>>

\* Capacity of keepaliveCh: make(chan *struct{}, cfg.KeepaliveProbes).
ChanCapacityUnbuffered == 0
ChanCapacity == KeepaliveProbes

Init ==
    /\ phase = [i \in MsgIds |-> "new"]
    /\ messages = {}
    /\ tmr = [i \in MsgIds |-> "off"]
    /\ attempts = [i \in MsgIds |-> 0]
    /\ stopSig = [i \in MsgIds |-> FALSE]
    /\ gpc = [i \in MsgIds |-> "none"]
    /\ cpc = "idle" /\ pending = {}
    /\ kch = <<>>
    /\ kpc = "loop" /\ probes = 0 /\ sinceAck = 0
    /\ ctxDone = FALSE /\ disconnected = FALSE /\ peerAlive = TRUE
    /\ resent = [i \in MsgIds |-> 0] /\ samples = {}
    /\ syncTimers \in BOOLEAN    \* go.mod is absent: either runtime

-----------------------------------------------------------------------------
(* The sender: c.send, then retry.Push(msg) (the first transmission is not *)
(* a retransmission).  Push stores the message with a fresh armed timer   *)
(* and starts its goroutine; it does not look at the context.             *)

Send(i) ==
    /\ phase[i] = "new"
    /\ phase' = [phase EXCEPT ![i] = "sent"]
    /\ UNCHANGED <<messages, timerVars, cpc, pending, kch, keepVars, ctxDone,
                   peerAlive, ghostVars>>

Push(i) ==
    /\ phase[i] = "sent"
    /\ phase' = [phase EXCEPT ![i] = "pushed"]
    /\ messages' = messages \cup {i}
    /\ tmr' = [tmr EXCEPT ![i] = "armed"]
    /\ gpc' = [gpc EXCEPT ![i] = "wait"]
    /\ UNCHANGED <<attempts, stopSig, cpc, pending, kch, keepVars, ctxDone,
                   peerAlive, ghostVars>>

-----------------------------------------------------------------------------
(* The timer goroutine of one message.                                    *)

\* Slip: a return path that skips the deferred messages.Delete.
ExitNoDelete(i) ==
    /\ gpc' = [gpc EXCEPT ![i] = "done"]
    /\ UNCHANGED messages

\* Every return runs the deferred MessagePool.Put and messages.Delete.
Exit(i) ==
    /\ gpc' = [gpc EXCEPT ![i] = "done"]
    /\ messages' = messages \ {i}

\* The runtime fires an armed timer: its value waits in m.timer.C.
TimerExpire(i) ==
    /\ tmr[i] = "armed"
    /\ tmr' = [tmr EXCEPT ![i] = "fired"]
    /\ UNCHANGED <<phase, messages, attempts, stopSig, gpc, cpc, pending, kch,
                   keepVars, ctxDone, peerAlive, ghostVars>>

\* select: case ts := <-m.timer.C.
TimerRecv(i) ==
    /\ gpc[i] = "wait" /\ tmr[i] = "fired"
    /\ tmr' = [tmr EXCEPT ![i] = "off"]
    /\ gpc' = [gpc EXCEPT ![i] = "check"]
    /\ UNCHANGED <<phase, messages, attempts, stopSig, cpc, pending, kch,
                   keepVars, ctxDone, peerAlive, ghostVars>>

\* select: case <-m.stop, or case <-r.ctx.Done(): return.
TimerStop(i) ==
    /\ gpc[i] = "wait" /\ (stopSig[i] \/ ctxDone)
    /\ Exit(i)
    /\ UNCHANGED <<phase, tmr, attempts, stopSig, cpc, pending, kch, keepVars,
                   ctxDone, peerAlive, ghostVars>>

\* Slip: the give-up test one retransmission late.
TimerCheckLate(i) ==
    /\ gpc[i] = "check"
    /\ IF attempts[i] > MaxRetransmits
       THEN Exit(i) /\ UNCHANGED resent
       ELSE /\ gpc' = [gpc EXCEPT ![i] = "sent"]
            /\ resent' = [resent EXCEPT ![i] = @ + 1]
            /\ UNCHANGED messages
    /\ UNCHANGED <<phase, tmr, attempts, stopSig, cpc, pending, kch, keepVars,
                   ctxDone, peerAlive, samples, syncTimers>>

\* The fired branch: give up once MaxTimeout has elapsed, otherwise
\* sendData (the context is not consulted).
TimerCheck(i) ==
    /\ gpc[i] = "check"
    /\ IF attempts[i] = MaxRetransmits
       THEN Exit(i) /\ UNCHANGED resent
       ELSE /\ gpc' = [gpc EXCEPT ![i] = "sent"]
            /\ resent' = [resent EXCEPT ![i] = @ + 1]
            /\ UNCHANGED messages
    /\ UNCHANGED <<phase, tmr, attempts, stopSig, cpc, pending, kch, keepVars,
                   ctxDone, peerAlive, samples, syncTimers>>

\* m.attempts++, then m.timer.Reset(duration), back to the select.
TimerRearm(i) ==
    /\ gpc[i] = "sent"
    /\ attempts' = [attempts EXCEPT ![i] = @ + 1]
    /\ tmr' = [tmr EXCEPT ![i] = "armed"]
    /\ gpc' = [gpc EXCEPT ![i] = "wait"]
    /\ UNCHANGED <<phase, messages, stopSig, cpc, pending, kch, keepVars,
                   ctxDone, peerAlive, ghostVars>>

-----------------------------------------------------------------------------
(* The receive loop: for a keepalive frame, Keepalive() (a request) or     *)
(* Ack(nil) (an answer); for an ACK frame, Ack(payload).  A frame arrives  *)
(* only while the peer is alive and, unless the caller outlives the        *)
(* engine, only while the engine runs (the client closes the socket in its *)
(* disconnect handler and the loop returns).                              *)

CanCall == peerAlive /\ (CallerOutlivesEngine \/ ~ctxDone)

\* Ack(ids): S is the set of keys the payload names, {} for Ack(nil).  The
\* peer can acknowledge only what it has received.
AckCall(S) ==
    /\ cpc = "idle" /\ CanCall
    /\ S \subseteq {i \in MsgIds : phase[i] # "new"}
    /\ cpc' = "acking" /\ pending' = S
    /\ UNCHANGED <<phase, messages, timerVars, kch, keepVars, ctxDone,
                   peerAlive, ghostVars>>

\* Slip: the RTO is sampled whenever Stop succeeds, retransmitted or not.
AckOneNoKarn(i) ==
    /\ cpc = "acking" /\ i \in pending
    /\ pending' = pending \ {i}
    /\ IF i \in messages
       THEN LET stop == tmr[i] = "armed" \/ (syncTimers /\ tmr[i] = "fired")
            IN /\ messages' = messages \ {i}
               /\ tmr' = [tmr EXCEPT ![i] = IF stop THEN "off" ELSE @]
               /\ samples' = IF stop
                             THEN samples \cup {[id |-> i, resent |-> resent[i]]}
                             ELSE samples
               /\ stopSig' = [stopSig EXCEPT ![i] = TRUE]
       ELSE UNCHANGED <<messages, tmr, samples, stopSig>>
    /\ UNCHANGED <<phase, attempts, gpc, cpc, kch, keepVars, ctxDone, peerAlive,
                   resent, syncTimers>>

\* One key of the payload: LoadAndDelete; when present, timer.Stop()
\* (TRUE if it stopped a pending timer; with synchronous timer channels a
\* fired value not yet received is discarded too), the RTO sample when
\* Stop succeeded and the message was never retransmitted, then the value
\* on m.stop and close(m.stop).
AckOne(i) ==
    /\ cpc = "acking" /\ i \in pending
    /\ pending' = pending \ {i}
    /\ IF i \in messages
       THEN LET stop == tmr[i] = "armed" \/ (syncTimers /\ tmr[i] = "fired")
            IN /\ messages' = messages \ {i}
               /\ tmr' = [tmr EXCEPT ![i] = IF stop THEN "off" ELSE @]
               /\ samples' = IF stop /\ attempts[i] = 0
                             THEN samples \cup {[id |-> i, resent |-> resent[i]]}
                             ELSE samples
               /\ stopSig' = [stopSig EXCEPT ![i] = TRUE]
       ELSE UNCHANGED <<messages, tmr, samples, stopSig>>
    /\ UNCHANGED <<phase, attempts, gpc, cpc, kch, keepVars, ctxDone, peerAlive,
                   resent, syncTimers>>

\* The last statement of Ack: r.keepaliveCh <- &struct{}{}, which blocks
\* while the channel is full.
AckSignal ==
    /\ cpc = "acking" /\ pending = {}
    /\ Len(kch) < ChanCapacity
    /\ kch' = Append(kch, "ack")
    /\ cpc' = "idle"
    /\ UNCHANGED <<phase, messages, timerVars, pending, keepVars, ctxDone,
                   peerAlive, ghostVars>>

KeepaliveCall ==
    /\ cpc = "idle" /\ CanCall
    /\ cpc' = "keepalive"
    /\ UNCHANGED <<phase, messages, timerVars, pending, kch, keepVars, ctxDone,
                   peerAlive, ghostVars>>

\* Keepalive(): r.keepaliveCh <- nil.
KeepaliveSignal ==
    /\ cpc = "keepalive"
    /\ Len(kch) < ChanCapacity
    /\ kch' = Append(kch, "nil")
    /\ cpc' = "idle"
    /\ UNCHANGED <<phase, messages, timerVars, pending, keepVars, ctxDone,
                   peerAlive, ghostVars>>

\* Stop from the owner: the client's receive loop on exit, the server's
\* dropSession.  A client loop stops the engine only after its last call.
StopEngine ==
    /\ ~ctxDone
    /\ CallerOutlivesEngine \/ cpc = "idle"
    /\ ctxDone' = TRUE
    /\ UNCHANGED <<phase, messages, timerVars, cpc, pending, kch, keepVars,
                   peerAlive, ghostVars>>

PeerDies ==
    /\ peerAlive
    /\ peerAlive' = FALSE
    /\ UNCHANGED <<phase, messages, timerVars, cpc, pending, kch, keepVars,
                   ctxDone, ghostVars>>

-----------------------------------------------------------------------------
(* The keepalive goroutine started by New.                                *)

\* case m := <-r.keepaliveCh: lastAck = now, probes = 0; a nil value (a
\* peer's keepalive request) is answered with sendKeepalive(conn, true).
KRecv ==
    /\ kpc = "loop" /\ kch # <<>>
    /\ kch' = Tail(kch)
    /\ probes' = 0 /\ sinceAck' = 0
    /\ UNCHANGED <<phase, messages, timerVars, cpc, pending, kpc, disconnected,
                   ctxDone, peerAlive, ghostVars>>

\* case <-r.ctx.Done(): return.
KDone ==
    /\ kpc = "loop" /\ ctxDone
    /\ kpc' = "exited"
    /\ UNCHANGED <<phase, messages, timerVars, cpc, pending, kch, probes,
                   sinceAck, disconnected, ctxDone, peerAlive, ghostVars>>

\* Slip: the probe is sent but not counted.
KTickUncounted ==
    /\ kpc = "loop" /\ kch = <<>>
    /\ sinceAck' = IF sinceAck < TimeoutIntervals THEN sinceAck + 1 ELSE sinceAck
    /\ IF sinceAck + 1 < TimeoutIntervals \/ probes < KeepaliveProbes
       THEN UNCHANGED <<kpc, ctxDone, probes>>
       ELSE kpc' = "disconnecting" /\ ctxDone' = TRUE /\ UNCHANGED probes
    /\ UNCHANGED <<phase, messages, timerVars, cpc, pending, kch, disconnected,
                   peerAlive, ghostVars>>

\* case <-time.After(KeepaliveInterval), taken once the interval passed
\* with nothing received: continue while the last signal (or the start)
\* is less than KeepaliveTimeout old; after KeepaliveProbes unanswered
\* probes call r.Stop(); otherwise send a probe and count it.
KTick ==
    /\ kpc = "loop" /\ kch = <<>>
    /\ sinceAck' = IF sinceAck < TimeoutIntervals THEN sinceAck + 1 ELSE sinceAck
    /\ IF sinceAck + 1 < TimeoutIntervals
       THEN UNCHANGED <<kpc, ctxDone, probes>>
       ELSE IF probes >= KeepaliveProbes
       THEN kpc' = "disconnecting" /\ ctxDone' = TRUE /\ UNCHANGED probes
       ELSE probes' = probes + 1 /\ UNCHANGED <<kpc, ctxDone>>
    /\ UNCHANGED <<phase, messages, timerVars, cpc, pending, kch, disconnected,
                   peerAlive, ghostVars>>

\* r.disconnect(r.conn, ErrKeepaliveTimeoutExceeded), then return.
KDisconnect ==
    /\ kpc = "disconnecting"
    /\ kpc' = "exited" /\ disconnected' = TRUE
    /\ UNCHANGED <<phase, messages, timerVars, cpc, pending, kch, probes,
                   sinceAck, ctxDone, peerAlive, ghostVars>>

\* Every goroutine has finished and the peer is gone or has nothing left to
\* acknowledge: the system is at rest.
Quiescent ==
    /\ \A i \in MsgIds : phase[i] = "pushed" /\ gpc[i] = "done"
    /\ kpc = "exited" /\ cpc = "idle"
    /\ UNCHANGED vars

Next ==
    \/ \E i \in MsgIds :
          \/ Send(i) \/ Push(i) \/ TimerExpire(i) \/ TimerRecv(i)
          \/ TimerStop(i) \/ TimerCheck(i) \/ TimerRearm(i) \/ AckOne(i)
    \/ \E S \in SUBSET MsgIds : AckCall(S)
    \/ AckSignal \/ KeepaliveCall \/ KeepaliveSignal \/ StopEngine \/ PeerDies
    \/ KRecv \/ KDone \/ KTick \/ KDisconnect \/ Quiescent

\* The Go runtime runs every runnable goroutine and fires every armed
\* timer; time.After always fires.  The sender pushes what it sent.  The
\* peer, the owner's Stop and new frames get no fairness.
Fairness ==
    /\ \A i \in MsgIds :
          /\ WF_vars(Push(i)) /\ WF_vars(TimerExpire(i)) /\ WF_vars(TimerRecv(i))
          /\ WF_vars(TimerStop(i)) /\ WF_vars(TimerCheck(i))
          /\ WF_vars(TimerRearm(i)) /\ WF_vars(AckOne(i))
    /\ WF_vars(AckSignal) /\ WF_vars(KeepaliveSignal)
    /\ WF_vars(KRecv) /\ WF_vars(KDone) /\ WF_vars(KTick) /\ WF_vars(KDisconnect)

Spec == Init /\ [][Next]_vars /\ Fairness

-----------------------------------------------------------------------------
TypeOK ==
    /\ phase \in [MsgIds -> {"new", "sent", "pushed"}]
    /\ messages \subseteq MsgIds
    /\ tmr \in [MsgIds -> {"off", "armed", "fired"}]
    /\ attempts \in [MsgIds -> 0..MaxRetransmits]
    /\ stopSig \in [MsgIds -> BOOLEAN]
    /\ gpc \in [MsgIds -> {"none", "wait", "check", "sent", "done"}]
    /\ cpc \in {"idle", "acking", "keepalive"} /\ pending \subseteq MsgIds
    /\ kch \in Seq({"ack", "nil"}) /\ Len(kch) <= KeepaliveProbes
    /\ kpc \in {"loop", "disconnecting", "exited"}
    /\ probes \in 0..KeepaliveProbes /\ sinceAck \in 0..TimeoutIntervals
    /\ ctxDone \in BOOLEAN /\ disconnected \in BOOLEAN /\ peerAlive \in BOOLEAN

\* Karn's rule (retry.go Ack: stop && attempts == 0): every RTT sample fed
\* to updateRTO comes from a message of which no retransmission had been
\* sent when the acknowledgement was processed, in every interleaving of
\* Ack with the message's timer goroutine.
KarnsRule == \A s \in samples : s.resent = 0

\* Every message Push stores leaves r.messages again (acknowledged, given
\* up at MaxTimeout, or its goroutine ended by Stop): the map never leaks.
MessagesReleased == \A i \in MsgIds : i \in messages ~> i \notin messages

\* A peer that falls silent is declared dead: the keepalive goroutine
\* sends its probes, stops the engine and calls disconnect, or ends
\* because the owner stopped the engine first.
DeadPeerDetected == ~peerAlive ~> kpc = "exited"

\* Ack and Keepalive return: a receive loop that calls them is never left
\* blocked on r.keepaliveCh.
CallsReturn == cpc # "idle" ~> cpc = "idle"
====
