\* Retry engine owned by a client connection: the receive loop stops
\* calling it once it is stopped.  Two messages, one retransmission before
\* MaxTimeout, two keepalive probes, a timeout of two intervals.
\* Both timer semantics (before and since Go 1.23) are explored.
CONSTANTS
    m1 = m1
    m2 = m2
    MsgIds <- MCMsgIds
    MaxRetransmits = 1
    KeepaliveProbes = 2
    TimeoutIntervals = 2
    CallerOutlivesEngine = FALSE
SPECIFICATION Spec
INVARIANT TypeOK KarnsRule
PROPERTY MessagesReleased DeadPeerDetected CallsReturn
