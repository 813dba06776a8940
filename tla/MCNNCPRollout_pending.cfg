\* Two matching nodes and a budget of one node: the second handler finds
\* the budget saturated while the first applies.
CONSTANTS
    n1 = n1
    n2 = n2
    n3 = n3
    Nodes = {n1, n2}
    NodeSelector <- MCNodeSelector
    LabelChoices <- MCLabelsWorker
    MaxUnavailableSpec <- MCBudgetOne
    Window = 2
    ApplyTimeout = 1
    DecrementRetries = 1
    MaxGeneration = 1
    MaxTime = 0
    MaxCrashes = 0
    MaxLabelChanges = 0
    UpdateTimeouts = FALSE
    NoTime = NoTime
SPECIFICATION Spec
INVARIANT WaitingNodeReportsPending
CHECK_DEADLOCK FALSE
