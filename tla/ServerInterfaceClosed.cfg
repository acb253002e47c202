\* Two UDP ports, one client; two sockets per port, and one datagram whose
\* header fails to decrypt or parse, from an address of the client.
CONSTANTS
  p1 = p1
  p2 = p2
  s1 = s1
  s2 = s2
  s3 = s3
  Ports <- MCPorts
  SessionIds <- MCSessionIds
  IfNames = {0, 1}
  MaxGen = 2
  MaxSessionsCount = 1
  MaxBadHeaders = 1
SPECIFICATION Spec
INVARIANT SessionInterfaceOpen
