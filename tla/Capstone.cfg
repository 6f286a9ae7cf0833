SPECIFICATION FairRunSpec
CONSTANTS
    Width = 320
    Height = 240
    BoxSize = 48
    Wrap = 65536
    NumBuffers = 4
    QueueSize = 2
PROPERTIES
    ImplementsPrinter
    EndsWithAllPrinted
