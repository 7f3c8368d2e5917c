SPECIFICATION Spec
CONSTANTS
    MAX_THREAD_NUM = 4
    MaxSleep = 2
    QuantumCap = 1
INVARIANTS
    TypeOK
    ReadyOnce
    SomeoneRuns
    IdsPartition
    SleepersBlocked
    ContextsFresh
PROPERTIES
    FifoOrder
    ImplementsContract
