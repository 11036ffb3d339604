CONSTANTS
    SignalOrder <- Order
    Loads <- SomeLoads
    ChannelCapacity = 1
    RingCapacity = 1
    Modes <- AllModes
    MaxFaults = 1
SPECIFICATION Spec
INVARIANTS HandlesAwaitedOnce ExitZeroKeepsBuffered CleanDrainDelivers FailuresAreReported
PROPERTIES FinalizedIsFinal DrainEnds
CHECK_DEADLOCK FALSE
