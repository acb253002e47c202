\* The stream checker enabled (the defaults StreamCheckInterval 60, StreamTTL 300).
CONSTANTS
    p1 = p1
    p2 = p2
    Pushers <- MCPushers
    MaxMsgs = 3
    MaxStreams = 3
    ChanCap = 2
    CheckerModes = {TRUE}
    Wirings = {"client"}
SYMMETRY PusherSymmetry
SPECIFICATION Spec
INVARIANT NoSendOnClosedChannel
