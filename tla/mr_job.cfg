SPECIFICATION FairSpec
CONSTANTS
    NumWorkers = 3
    NumInputs = 2
    EmitChoices <- MCEmits
    MaxEmit = 2
    FieldSize = 16
INVARIANTS
    TypeOK
    ShuffleAlone
    ClaimsDistinct
    GroupsReady
    DispatchStage
    ContextsOutliveWorkers
    PhaseInv
    WaitMeansComplete
PROPERTIES
    ProgressMonotone
    ImplementsContract
    JobTerminates
    WaitReturns
