------------------------------- MODULE MCAck -------------------------------
(* Endpoints and frame ids are the u64 and u32 values the codec writes;   *)
(* 258 needs two bytes.  MaxSize is derived as the code derives it.       *)
EXTENDS Ack

MCEndpoints == {1, 258}

MCMaxSize == MaxAckSize
====
