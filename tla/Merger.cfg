\* Both mergers merger.New can build, in the client use case (Stop and Exit
\* call DeleteStream holding no lock), and for V2 both settings of the
\* stream checker: disabled (StreamTTL = 0, workers end only by
\* DeleteStream) and enabled (StreamCheckInterval 60, StreamTTL 300).
\* V1 creates the session's stream twice, so a Push and a deletion meet a
\* second generation too.
CONSTANTS
    p1 = p1
    p2 = p2
    Pushers <- MCPushers
    MaxMsgs = 3
    MaxStreams = 3
    ChanCap = 2
    CheckerModes = {FALSE, TRUE}
    Wirings = {"client"}
    ThreadingModes = {"session", "endpoint"}

SYMMETRY PusherSymmetry
SPECIFICATION Spec
INVARIANTS
    TypeOK
    SingleStreamWorker
    CheckerOffNoPanic
    SessionNoSendOnClosedChannel
PROPERTIES
    CheckerOffAcceptedProcessed
    SessionAcceptedProcessed
    SessionDeleteStreamReturns
    MergersImplementMailbox
