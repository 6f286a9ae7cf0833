SPECIFICATION BridgeSpec
INVARIANTS
    CommandThreadNeverCrashes
