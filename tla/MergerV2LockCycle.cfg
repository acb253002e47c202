\* The server use case: removeConnection and dropSession call DeleteStream
\* holding connMux, and the receiver's commandData read-locks connMux.
\* Stream checker disabled; four messages fill the channel behind the one
\* the worker is delivering.
CONSTANTS
    p1 = p1
    p2 = p2
    Pushers <- MCPushers
    MaxMsgs = 4
    MaxStreams = 4
    ChanCap = 2
    CheckerModes = {FALSE}
    Wirings = {"server"}

SYMMETRY PusherSymmetry
SPECIFICATION Spec
INVARIANT
    NoLockCycle
