--------------------------- MODULE InOrderDelivery ---------------------------
(***************************************************************************)
(* What the stream merger promises the receiver of one endpoint's packets *)
(* (spec: ordering (a), properties 3 and 4), as a high-level spec: the      *)
(* sender numbers packets 1, 2, ...; the receiver is handed, in steps of    *)
(* one or more, packets sent after the last one handed, in increasing      *)
(* order.  A packet may be passed over (lost, or given up by a reset), but  *)
(* delivery never stops while a packet newer than the last one handed has  *)
(* been sent.                                                              *)
(***************************************************************************)
EXTENDS Naturals, Sequences, FiniteSets
LOCAL INSTANCE SequencesExt

CONSTANT N          \* packets the sender numbers

VARIABLES
    numbered,   \* packets numbered so far: 1..numbered
    handed      \* the packets handed to the receiver, in order

vars == <<numbered, handed>>

LastHanded == IF handed = <<>> THEN 0 ELSE handed[Len(handed)]

Init == numbered = 0 /\ handed = <<>>

Number ==
    /\ numbered < N
    /\ numbered' = numbered + 1
    /\ UNCHANGED handed

\* Hand over a nonempty set of packets newer than the last one handed.
Hand ==
    /\ \E b \in SUBSET ((LastHanded + 1)..numbered) \ {{}} :
          handed' = handed \o SetToSortSeq(b, <)
    /\ UNCHANGED numbered

Next == Number \/ Hand

Spec == Init /\ [][Next]_vars /\ WF_vars(Hand)
=============================================================================
