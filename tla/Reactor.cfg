CONSTANTS
    MaxFd = 1
    MaxConn = 2
    MaxReq = 2
    SndBuf = 1
    Workers = {w1}
    Faults = {"reset", "bad", "throw", "signal"}
SPECIFICATION Spec
INVARIANTS OwnResponses FramesIntact InflightExact InterestMatchesOutbuffer HalfCloseNotForgotten
PROPERTIES JustifiedClose HalfCloseServed UsesDonequeue StopEnds
CHECK_DEADLOCK FALSE
