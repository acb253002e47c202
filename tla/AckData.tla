------------------------------ MODULE AckData ------------------------------
(***************************************************************************)
(* The acknowledgement payload (business/entity/ack.go): a map from       *)
(* endpoint to the list of acknowledged ids, with a byte count kept next   *)
(* to it: 9 bytes per endpoint (u64 endpoint, u8 count) and 4 per id, the  *)
(* layout MarshalAcknowledgement writes into a buffer of exactly that      *)
(* size.  An id is a record [id, tag]; tag is a ghost naming the Push that *)
(* carried it, which the code never reads.                                 *)
(***************************************************************************)
EXTENDS Naturals, Sequences, Functions, TLC

CONSTANTS
    MaxSize,     \* cfg.MaxSize: the MTU less the encrypted header
    MaxUint8     \* math.MaxUint8: the largest per-endpoint count

EndpointSize == 9    \* acknowledgementEndpointSize
IdSize       == 4

\* NewMessageAcknowledgement(nil).SetMaxSize(MaxSize)
NewAck == [data |-> <<>>, size |-> 0]

\* The bytes MarshalAcknowledgement writes for the map.
EncodedSize(a) ==
    SumFunction([e \in DOMAIN a.data |-> EndpointSize + IdSize * Len(a.data[e])])

\* Slip: a new endpoint is admitted when its 9 bytes fit, the id's not.
AckPushRoomSlip(a, e, x) ==
    IF e \notin DOMAIN a.data
    THEN IF a.size + EndpointSize > MaxSize
         THEN [ok |-> FALSE, acc |-> a]
         ELSE [ok |-> TRUE,
               acc |-> [data |-> (e :> <<x>>) @@ a.data,
                        size |-> a.size + EndpointSize + IdSize]]
    ELSE IF a.size + IdSize > MaxSize \/ Len(a.data[e]) + 1 > MaxUint8
    THEN [ok |-> FALSE, acc |-> a]
    ELSE [ok |-> TRUE,
          acc |-> [data |-> [a.data EXCEPT ![e] = Append(@, x)],
                   size |-> a.size + IdSize]]

\* Slip: the per-endpoint count test admits one id too many.
AckPushCountSlip(a, e, x) ==
    IF e \notin DOMAIN a.data
    THEN IF a.size + EndpointSize + IdSize > MaxSize
         THEN [ok |-> FALSE, acc |-> a]
         ELSE [ok |-> TRUE,
               acc |-> [data |-> (e :> <<x>>) @@ a.data,
                        size |-> a.size + EndpointSize + IdSize]]
    ELSE IF a.size + IdSize > MaxSize \/ Len(a.data[e]) > MaxUint8
    THEN [ok |-> FALSE, acc |-> a]
    ELSE [ok |-> TRUE,
          acc |-> [data |-> [a.data EXCEPT ![e] = Append(@, x)],
                   size |-> a.size + IdSize]]

\* Push(endpoint, id): a new endpoint needs room for its 9 bytes and the
\* id; a known one needs room for the id and a count below MaxUint8.
AckPush(a, e, x) ==
    IF e \notin DOMAIN a.data
    THEN IF a.size + EndpointSize + IdSize > MaxSize
         THEN [ok |-> FALSE, acc |-> a]
         ELSE [ok |-> TRUE,
               acc |-> [data |-> (e :> <<x>>) @@ a.data,
                        size |-> a.size + EndpointSize + IdSize]]
    ELSE IF a.size + IdSize > MaxSize \/ Len(a.data[e]) + 1 > MaxUint8
    THEN [ok |-> FALSE, acc |-> a]
    ELSE [ok |-> TRUE,
          acc |-> [data |-> [a.data EXCEPT ![e] = Append(@, x)],
                   size |-> a.size + IdSize]]

\* Reset: clear(data), size = 0.
AckReset(a) == NewAck

\* The ghost tags an accumulator holds.
Tags(a) == UNION {{a.data[e][j].tag : j \in 1..Len(a.data[e])} : e \in DOMAIN a.data}
====
