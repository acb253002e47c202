\* Two UDP ports, two sockets per port and one attempt per createConnection:
\* a keepalive timeout on each port, a reconnect that succeeds, one that
\* fails (then Stop), the table emptied by the last removal, and Exit.
CONSTANTS
    NumPorts = 2
    MaxGen = 2
    MaxConnectionAttempts = 1
SPECIFICATION Spec
INVARIANT TypeOK
INVARIANT GetConnectionInRange
PROPERTY LostPortReconnectedOrStopped
