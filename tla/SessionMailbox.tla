---------------------------- MODULE SessionMailbox ----------------------------
(***************************************************************************)
(* What the stream merger promises the use case about the data messages of *)
(* one session, whatever goroutines and channels carry them: a session is  *)
(* opened (CreateStream) and closed (DeleteStream), possibly again; a      *)
(* message Push is given while the session is open is accepted, one given  *)
(* while it is closed is rejected (the reset to the peer); every accepted  *)
(* message is handed to the receiver exactly once, and nothing else is.    *)
(* Where MayDrop holds, accepted messages still undelivered when the       *)
(* session has been closed may be discarded instead.  Delivery order is    *)
(* the waiting list's business (InOrderDelivery), so the undelivered       *)
(* messages form a set.                                                    *)
(***************************************************************************)
EXTENDS Naturals, Sequences

CONSTANTS
    MaxMsgs,    \* messages given to Push, numbered 1..MaxMsgs
    MayDrop     \* closing the session may discard undelivered messages

VARIABLES
    open,       \* the session exists
    inbox,      \* accepted, not yet delivered or discarded
    delivered,  \* the messages handed to the receiver, in order
    given,      \* messages given to Push so far
    refused     \* the messages rejected

vars == <<open, inbox, delivered, given, refused>>

Init ==
    /\ open \in BOOLEAN
    /\ inbox = {} /\ delivered = <<>> /\ given = 0 /\ refused = {}

Open ==
    /\ ~open /\ open' = TRUE
    /\ UNCHANGED <<inbox, delivered, given, refused>>

Close ==
    /\ open /\ open' = FALSE
    /\ UNCHANGED <<inbox, delivered, given, refused>>

Accept ==
    /\ open /\ given < MaxMsgs
    /\ given' = given + 1
    /\ inbox' = inbox \cup {given + 1}
    /\ UNCHANGED <<open, delivered, refused>>

Reject ==
    /\ ~open /\ given < MaxMsgs
    /\ given' = given + 1
    /\ refused' = refused \cup {given + 1}
    /\ UNCHANGED <<open, inbox, delivered>>

Deliver(m) ==
    /\ m \in inbox
    /\ inbox' = inbox \ {m}
    /\ delivered' = Append(delivered, m)
    /\ UNCHANGED <<open, given, refused>>

Discard(S) ==
    /\ MayDrop /\ ~open
    /\ S # {} /\ S \subseteq inbox
    /\ inbox' = inbox \ S
    /\ UNCHANGED <<open, delivered, given, refused>>

\* An accepted message leaves the inbox: delivered, or discarded.
Progress == (\E m \in inbox : Deliver(m)) \/ (\E S \in SUBSET inbox : Discard(S))

Next == Open \/ Close \/ Accept \/ Reject \/ Progress

Spec == Init /\ [][Next]_vars /\ WF_vars(Progress)
=============================================================================
