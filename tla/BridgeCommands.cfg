\* A queue of two stands for the bridge's queue of ten, three thresholds for
\* its six.
SPECIFICATION FairCommandSpec
CONSTANTS
    Fields <- MCFields
    QueueLength = 2
    MaxCommands = 4
    ChannelLength = 1
INVARIANTS
    FrameThresholdsRecent
PROPERTIES
    CommandsNeverGoBack
    NewestReceivedApplied
CHECK_DEADLOCK FALSE
