SPECIFICATION FairSpec
CONSTANTS
    MAX_THREAD_NUM = 3
    MaxSleep = 2
    QuantumCap = 5
INVARIANTS
    QuantumsAccounted
PROPERTIES
    ReadyRuns
    SleepEnds
