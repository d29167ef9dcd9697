SPECIFICATION FairSpec
CONSTANTS
    Workers = {w1, w2}
    Messages <- MCMessages
    Frames <- MCFrames
    SndBuf = 1
    BufSize = 65536
    Junk = {0, 1, 255}
INVARIANTS TypeOK SentInOrder FramesUnlessOverlapped
PROPERTIES BufferedIsSent FramesDelivered
CHECK_DEADLOCK FALSE
