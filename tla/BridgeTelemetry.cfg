SPECIFICATION VideoSpec
CONSTANTS
    MaxFrames = 5
    WireLength = 2
INVARIANTS
    EndToEndOrder
    NewestKept
    NeverRefused
PROPERTIES
    VideoNeverBlocked
CHECK_DEADLOCK FALSE
