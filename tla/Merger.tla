------------------------------- MODULE Merger -------------------------------
(***************************************************************************)
(* The stream merger as the use cases get it from merger.New              *)
(* (adapter/merger/merger.go 32-45): cfg.ThreadingBy "session" builds the  *)
(* V1 merger (MergerV1), "endpoint" the V2 merger (MergerV2).  One process *)
(* runs one of them, so a behaviour is a behaviour of the chosen one while *)
(* the other keeps its initial state.                                      *)
(***************************************************************************)
EXTENDS Naturals, FiniteSets

CONSTANTS
    Pushers, MaxMsgs, MaxStreams, ChanCap, CheckerModes, Wirings,
    ThreadingModes    \* values of cfg.ThreadingBy to explore

ASSUME ThreadingModes \subseteq {"session", "endpoint"}

VARIABLES
    threadingBy,      \* cfg.ThreadingBy
    \* the V2 merger, under MergerV2's names (wiring is shared)
    sessionLive, ctxDone, streamOf, chan, worker, stale, pc, pch, pmsg,
    cpc, cch, pushed, rejected, processed, panicked, checkerEnabled, wiring,
    dpc, wmsg,
    \* the V1 merger
    v1streamOf, v1created, v1chan, v1worker, v1wmsg, v1pc, v1pch, v1pmsg,
    v1dpc, v1pushed, v1rejected, v1processed, v1panicked

V2 == INSTANCE MergerV2

V1 == INSTANCE MergerV1 WITH
        streamOf <- v1streamOf, created <- v1created, chan <- v1chan,
        worker <- v1worker, wmsg <- v1wmsg, pc <- v1pc, pch <- v1pch,
        pmsg <- v1pmsg, dpc <- v1dpc, pushed <- v1pushed,
        rejected <- v1rejected, processed <- v1processed,
        panicked <- v1panicked

v1vars == <<v1streamOf, v1created, v1chan, v1worker, v1wmsg, v1pc, v1pch,
            v1pmsg, v1dpc, v1pushed, v1rejected, v1processed, v1panicked>>
v2vars == <<sessionLive, ctxDone, streamOf, chan, worker, stale, pc, pch, pmsg,
            cpc, cch, pushed, rejected, processed, panicked, checkerEnabled,
            dpc, wmsg>>
vars == <<threadingBy, wiring, v1vars, v2vars>>

\* The switch of New: NewV1 or NewV2 (an unknown value is fatal).
Init ==
    /\ threadingBy \in ThreadingModes
    /\ V1!Init
    /\ V2!Init

Next ==
    \/ threadingBy = "session" /\ V1!Next /\ UNCHANGED <<threadingBy, v2vars>>
    \/ threadingBy = "endpoint" /\ V2!Next /\ UNCHANGED <<threadingBy, v1vars>>

\* Each merger's own fairness; the other one has no enabled step.
Spec == Init /\ [][Next]_vars /\ V1!Fairness /\ V2!Fairness

-----------------------------------------------------------------------------
(* Properties.                                                             *)

TypeOK ==
    /\ threadingBy \in ThreadingModes
    /\ V1!TypeOK
    /\ V2!TypeOK

\* V2: at most one worker runs the loop of a stream key.
SingleStreamWorker == V2!SingleStreamWorker

\* V2 with the stream checker disabled: no Push panics and every accepted
\* message is read (see MergerV2).
CheckerOffNoPanic == V2!CheckerOffNoPanic
CheckerOffAcceptedProcessed == V2!CheckerOffAcceptedProcessed

\* V1: DeleteStream closes the session's channel under the write lock, so
\* no Push (which sends under the read lock) sends on it.
SessionNoSendOnClosedChannel == V1!NoSendOnClosedChannel

\* V1: every message Push accepted reaches the receiver, also across
\* DeleteStream, whose nil queues behind it.
SessionAcceptedProcessed == V1!AcceptedEventuallyProcessed

\* V1 in the client: DeleteStream, which blocks on its nil send while the
\* channel is full, always returns to Stop or Exit.
SessionDeleteStreamReturns == V1!ClientDeleteStreamReturns

-----------------------------------------------------------------------------
(* The refinement: each merger implements SessionMailbox.                 *)

\* The messages a channel buffer holds, the nil DeleteStream or the checker
\* sends aside.
BufMsgs(b) == {b[i] : i \in DOMAIN b} \ {V1!Nil}

\* V1: a message is accepted and undelivered while the Push that accepted
\* it is about to send it, while it waits in the session's channel (the
\* worker drains a closed channel up to DeleteStream's nil), and while the
\* worker hands it to the receiver.
V1Inbox ==
    ({v1pmsg[p] : p \in {q \in Pushers : v1pc[q] = "send"}}
       \cup UNION {BufMsgs(v1chan[c].buf) : c \in V1!Chans}
       \cup {v1wmsg[c] : c \in V1!Chans}) \ {V1!Nil}

\* V2: the same, but a channel whose worker has left the loop is read by
\* nobody: what it holds is discarded.
V2Inbox ==
    ({pmsg[p] : p \in {q \in Pushers : pc[q] = "send"}}
       \cup UNION {BufMsgs(chan[c].buf) : c \in {d \in V2!Chans : worker[d] = "loop"}}
       \cup {wmsg[c] : c \in V2!Chans}) \ {V2!Nil}

\* With the stream checker enabled V2 drops accepted messages of a live
\* session (merger_v2_closed_channel): no claim is made for it, and its
\* behaviours map to the abstract initial state.
V2Claimed == ~checkerEnabled

MailboxV1 == INSTANCE SessionMailbox WITH
    MayDrop <- FALSE, open <- v1streamOf # V1!NoChan, inbox <- V1Inbox,
    delivered <- v1processed, given <- v1pushed, refused <- v1rejected

MailboxV2 == INSTANCE SessionMailbox WITH
    MayDrop <- TRUE, open <- V2Claimed /\ sessionLive,
    inbox <- IF V2Claimed THEN V2Inbox ELSE {},
    delivered <- IF V2Claimed THEN processed ELSE <<>>,
    given <- IF V2Claimed THEN pushed ELSE 0,
    refused <- IF V2Claimed THEN rejected ELSE {}

\* Both mergers keep SessionMailbox's promise in the client: a Push given
\* while the session exists is accepted and one given after DeleteStream
\* (or before CreateStream) is rejected; every accepted message reaches
\* the receiver exactly once, across concurrent Pushes, DeleteStream and,
\* for V1, re-creation of the session's stream; V1 never loses one, and V2
\* with the checker off loses only what DeleteStream's cancellation finds
\* still queued.
MergersImplementMailbox == MailboxV1!Spec /\ MailboxV2!Spec
====
