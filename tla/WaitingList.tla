---------------------------- MODULE WaitingList ----------------------------
(***************************************************************************)
(* The reordering buffer of the stream merger (adapter/merger/wlist.go).   *)
(* A waiting list is a record holding the fields of the Go struct; its     *)
(* methods are operators from a list (and a message) to a result record    *)
(* that carries the new list and the messages the method handed to the     *)
(* sender callback, in the order it called it.                             *)
(*                                                                         *)
(* A message is a record [id, seq]: id is Message.ID as the wire carries   *)
(* it (an IdBits-wide unsigned integer), seq is the position of the packet *)
(* in the endpoint's stream, a ghost the code never reads.  Every message  *)
(* has the same PayloadLength, which is all dataSize needs.                *)
(***************************************************************************)
EXTENDS Integers, Sequences, SequencesExt

CONSTANTS
    IdBits,          \* width of Message.ID (uint32 in the code)
    PayloadLength    \* Message.PayloadLength of every data message

ASSUME IdBits \in Nat \ {0} /\ PayloadLength \in Nat \ {0}

IdMod     == 2^IdBits
MaxUint32 == IdMod - 1          \* math.MaxUint32 at width IdBits
Ids       == 0..MaxUint32

\* uint32 arithmetic of the code: lastID+1 and req.ID - data[i].ID wrap.
Succ(i)    == (i + 1) % IdMod
Diff(a, b) == (a - b) % IdMod

\* newWaitingList: zero value of every field.
NewWaitingList ==
    [lastID |-> 0, firstSent |-> FALSE, data |-> <<>>, dataSize |-> 0,
     firstMessageTs |-> 0, idsMap |-> {}]

\* A delivery: the message handed to the sender callback and which path
\* of the code handed it over ("direct", "drain" or "reset").
Delivery(m, how) == [seq |-> m.seq, id |-> m.id, how |-> how]
Deliveries(s, how) == [i \in 1..Len(s) |-> Delivery(s[i], how)]

\* send: the callback, then lastID and firstSent.
SendTo(w, m) == [w EXCEPT !.lastID = m.id, !.firstSent = TRUE]

\* Condition under which pop delivers anything: the head closes the gap,
\* or it has id 0 (taken as the successor of MaxUint32).
HeadDeliverable(w) ==
    Len(w.data) > 0 /\ (w.data[1].id = Succ(w.lastID) \/ w.data[1].id = 0)

\* Slip: the loop breaks after the head whatever follows it.
RunLengthHeadOnly(d) == 1

\* Number of messages the loop of pop sends: the head, then each next one
\* as long as its id is lastID+1 for the lastID the previous send set.
RECURSIVE RunLength(_)
RunLength(d) ==
    IF Len(d) > 1 /\ d[2].id = Succ(d[1].id) THEN 1 + RunLength(Tail(d)) ELSE 1

\* Slip: dataSize is decremented once too often.
PopSizeOffByOne(w, req) ==
    LET k == RunLength(w.data)
        rest == SubSeq(w.data, k + 1, Len(w.data))
    IN [popped |-> HeadDeliverable(w),
        out |-> IF HeadDeliverable(w)
                THEN Deliveries(IF req = <<>> THEN <<>> ELSE <<req>>, "direct")
                     \o Deliveries(SubSeq(w.data, 1, k), "drain")
                ELSE <<>>,
        wl |-> IF ~HeadDeliverable(w) THEN w
               ELSE [w EXCEPT !.lastID = w.data[k].id, !.firstSent = TRUE,
                              !.data = rest,
                              !.idsMap = @ \ {w.data[j].id : j \in 1..k},
                              !.dataSize = @ - (k + 1) * PayloadLength,
                              !.firstMessageTs = IF rest = <<>> THEN 0 ELSE @]]

\* pop(req): req (if any) is sent first, unchecked, then the run at the
\* head; the list keeps what follows the run, firstMessageTs is cleared
\* only when the whole list went out.  popped = TRUE is Go's return value
\* false: req went out, and the caller's "if !wl.pop(req) { continue }"
\* goes on to the next message.
Pop(w, req) ==
    IF ~HeadDeliverable(w)
    THEN [popped |-> FALSE, wl |-> w, out |-> <<>>]
    ELSE LET pre   == IF req = <<>> THEN <<>> ELSE <<req>>
             k     == RunLength(w.data)
             run   == SubSeq(w.data, 1, k)
             rest  == SubSeq(w.data, k + 1, Len(w.data))
         IN [popped |-> TRUE,
             out    |-> Deliveries(pre, "direct") \o Deliveries(run, "drain"),
             wl     |-> [w EXCEPT
                           !.lastID         = run[k].id,
                           !.firstSent      = TRUE,
                           !.data           = rest,
                           !.idsMap         = @ \ {run[j].id : j \in 1..k},
                           !.dataSize       = @ - k * PayloadLength,
                           !.firstMessageTs = IF rest = <<>> THEN 0 ELSE @]]

\* Position push inserts id at, 0 when its scan finds none (the error
\* "wrong waiting list sort").  The scan starts with lastMinID = MaxUint32,
\* which no difference exceeds, so it can only pick an index >= 2.
PushPos(d, id) ==
    IF d[Len(d)].id < id THEN Len(d) + 1
    ELSE IF d[1].id > id THEN 1
    ELSE LET fits == {i \in 2..Len(d) : Diff(id, d[i].id) > Diff(id, d[i-1].id)}
         IN IF fits = {} THEN 0 ELSE Min(fits)

\* push(m) at time now: dataSize grows first, even when push then fails;
\* only a push into an empty list stamps firstMessageTs.
Push(w, m, now) ==
    LET grown == [w EXCEPT !.dataSize = @ + PayloadLength]
    IN IF w.data = <<>>
       THEN [ok |-> TRUE,
             wl |-> [grown EXCEPT !.data = <<m>>, !.idsMap = @ \cup {m.id},
                                  !.firstMessageTs = now]]
       ELSE LET p == PushPos(w.data, m.id)
            IN IF p = 0
               THEN [ok |-> FALSE, wl |-> grown]
               ELSE [ok |-> TRUE,
                     wl |-> [grown EXCEPT !.data = InsertAt(@, p, m),
                                          !.idsMap = @ \cup {m.id}]]

\* reset: every buffered message is sent in list order, then the list,
\* idsMap and dataSize are cleared; firstMessageTs is left as it is.
Reset(w) ==
    [out |-> Deliveries(w.data, "reset"),
     wl  |-> [w EXCEPT !.lastID    = IF w.data = <<>> THEN @ ELSE Last(w.data).id,
                       !.firstSent = @ \/ w.data # <<>>,
                       !.data = <<>>, !.idsMap = {}, !.dataSize = 0]]
=============================================================================
