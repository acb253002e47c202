------------------------- MODULE MCEndpointSequence -------------------------
(* Model-checking instance of EndpointSequence: two endpoints, a table     *)
(* that is full with two entries, and the deployed EndpointTTL.            *)
EXTENDS EndpointSequence

CONSTANTS e1, e2

MCEndpoints == {e1, e2}

\* deploy/server/main.go and deploy/client/connection.go: EndpointTTL is
\* twice StreamTTL.
MCEndpointTTL == 2 * StreamTTL
=============================================================================
