SPECIFICATION FairSpec
CONSTANTS
    NoDatagram = NoDatagram
    Workers = {w1}
    Datagrams = {d1, d2, d3}
    Arming = {d1, d2, d3}
    Refused = {}
    SndBuf = 1
PROPERTIES QueuedIsSent
