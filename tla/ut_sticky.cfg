SPECIFICATION HSpec
CONSTANTS
    MAX_THREAD_NUM = 3
    MaxSleep = 1
    QuantumCap = 8
INVARIANTS
    SleepersComeBack
