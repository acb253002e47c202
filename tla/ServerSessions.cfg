\* Two UDP ports and one client opening up to three sockets per port (two
\* handshake retries, or a reconnect after a link failure); three session
\* ids, two tun device numbers, a soft cap of one session per port.
CONSTANTS
  p1 = p1
  p2 = p2
  s1 = s1
  s2 = s2
  s3 = s3
  Ports <- MCPorts
  SessionIds <- MCSessionIds
  IfNames = {0, 1}
  MaxGen = 3
  MaxSessionsCount = 1
  MaxBadHeaders = 1
SPECIFICATION Spec
INVARIANTS
  TypeOK
  OpenInterfaceOwned
  ClientSessionMapping
  SessionHasStream
