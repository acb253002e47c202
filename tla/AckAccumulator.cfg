\* ACK accumulator of one connection over aes-256-ecb.  MTU 41 gives
\* GetMaxAcknowledgementSize = 41 - GetLength(12) = 25: one endpoint with
\* three ids, or two endpoints with one and two ids; MaxUint8 = 3 makes a
\* fourth id of one endpoint fail on its count.  Five pushes reach both
\* failures of Push; a wait of two ticks separates the deadline test in
\* the receive case from the time.After case.
CONSTANTS
    Endpoints <- MCEndpoints
    FrameIds = {258}
    Encryption = "aes-256-ecb"
    MTU = 41
    MaxSize <- MCMaxSize
    MaxUint8 = 3
    Wait = 2
    MaxPushes = 5
SPECIFICATION Spec
INVARIANT TypeOK WireEncodable NoAckDropped WireIntact UdpDispatched
PROPERTY AckEventuallySent
