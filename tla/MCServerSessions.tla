-------------------------- MODULE MCServerSessions --------------------------
(* Model-checking instance of ServerSessions: two UDP ports.               *)
EXTENDS ServerSessions

CONSTANTS p1, p2, s1, s2, s3

MCPorts == {p1, p2}
MCSessionIds == {s1, s2, s3}
=============================================================================
