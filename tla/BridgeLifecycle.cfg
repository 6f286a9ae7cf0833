SPECIFICATION FairBridgeSpec
INVARIANTS
    SocketsClosedAtExit
    PipelineStoppedAtExit
PROPERTIES
    MainExits
    ThreadsEnd
