SPECIFICATION ServerSpec
CONSTANTS
    Threads = {w1, w2}
    MaxJobs = 4
    NoJob = NoJob
    Sockets = {"udpServer", "tcpServer"}
    Remotes = {r1}
INVARIANTS ServerTypeOK NoIdleThread DrainedWhenDestroyed SocketsOutliveJobs
PROPERTIES DestructorReturns ImplementsJobQueue TerminatedOnSignal
