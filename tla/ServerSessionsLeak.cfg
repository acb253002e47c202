\* Two UDP ports, one client; two sockets per port.  The client may stop
\* for good on every port, after which each engine of the session times out.
CONSTANTS
  p1 = p1
  p2 = p2
  s1 = s1
  s2 = s2
  s3 = s3
  Ports <- MCPorts
  SessionIds <- MCSessionIds
  IfNames = {0, 1}
  MaxGen = 2
  MaxSessionsCount = 1
  MaxBadHeaders = 0
SPECIFICATION Spec
PROPERTY SessionReclaimed
