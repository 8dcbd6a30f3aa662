CONSTANTS
    Commands <- MCCommands
    FileSize = 5
    BufSize = 2
    Stride = 2
    MaxFailures = 1
SPECIFICATION Spec
INVARIANTS EveryByteOnce SummaryAddsUp FaultDelta NoZombiesLeft
PROPERTIES Terminates
