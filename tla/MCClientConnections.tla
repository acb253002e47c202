------------------------ MODULE MCClientConnections ------------------------
(* Model-checking instance of ClientConnections; ports, socket generations *)
(* and attempts are numbers, given in the .cfg files.                      *)
EXTENDS ClientConnections
=============================================================================
