SPECIFICATION Spec
CONSTANTS
    NumWorkers = 2
    NumInputs = 2
    EmitChoices <- MCEmits
    MaxEmit = 2
    FieldSize = 16
INVARIANTS
    FinishedReportsDone
