SPECIFICATION Spec
CONSTANTS
    MaxGroupNum = 3
    GroupBase = 2
    BatchSize = 2
    Interval = 2
    Spacing = 2
    Gap = {1, 4}
    Level = {1, 2}
    MaxHeight = 3
    MaxForks = 1
INVARIANTS
    TypeOK
    SharedWork
    TargetFollows
    WorkDone
CHECK_DEADLOCK FALSE
