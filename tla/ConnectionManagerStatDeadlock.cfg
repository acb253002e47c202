\* The GUI's statistics stream ends while the statistics goroutine is
\* sending to it: does every statistic call of a port loop still return?
CONSTANTS
    ConnIds = {0}
    MaxConnects = 1
    r1 = r1
    r2 = r2
    s1 = s1
    s2 = s2
    Reporters <- MCReporters
    Streams <- MCStreams
    NoStream = NoStream
    MaxReports = 3
SPECIFICATION Spec
PROPERTY StatCallsReturn
\* Shutdown ends the process and the calls are bounded: stopping is allowed.
CHECK_DEADLOCK FALSE
