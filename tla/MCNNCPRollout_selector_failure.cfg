\* One node whose labels never match the selector: can it still apply?
CONSTANTS
    n1 = n1
    n2 = n2
    n3 = n3
    Nodes = {n1}
    NodeSelector <- MCNodeSelector
    LabelChoices <- MCLabelsInfra
    MaxUnavailableSpec <- MCBudgetOne
    Window = 2
    ApplyTimeout = 1
    DecrementRetries = 1
    MaxGeneration = 1
    MaxTime = 0
    MaxCrashes = 0
    MaxLabelChanges = 0
    UpdateTimeouts = FALSE
    NoTime = NoTime
SPECIFICATION Spec
INVARIANT ApplyOnlyOnMatchingNodes
CHECK_DEADLOCK FALSE
