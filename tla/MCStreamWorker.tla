--------------------------- MODULE MCStreamWorker ---------------------------
(* Model-checking instance of StreamWorker: a few packets on one endpoint. *)
EXTENDS StreamWorker
=============================================================================
