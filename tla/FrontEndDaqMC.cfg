SPECIFICATION Spec
CONSTANTS
    NSys = 2
    NB = 3
    MaxTp = 2
    Selections <- SomeSelections
    Unselected <- None
    MaxLag = 0
    TpModels = {1}
    MaxSelects = 2
    MaxReconfigs = 1
    MaxStops = 1
    LastBlock = 7
INVARIANTS
    TypeOK
    BlockIntact
    RunningTogether
    LabelsMatch
    TableIsSelection
PROPERTIES
    SlicesAdvance
CHECK_DEADLOCK FALSE
