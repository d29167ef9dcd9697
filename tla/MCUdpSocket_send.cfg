SPECIFICATION FairSpec
CONSTANTS
    NoDatagram = NoDatagram
    Workers = {w1, w2}
    Datagrams = {d1, d2, d3, d4, d5}
    Arming = {d1, d2, d3, d4}
    Refused = {d4}
    SndBuf = 2
INVARIANTS TypeOK EachDatagramOnce
PROPERTIES WatchedIsSent
CHECK_DEADLOCK FALSE
