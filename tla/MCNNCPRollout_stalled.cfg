\* Two controllers of one handler reconcile the same policy while the
\* policy is updated: can a node be left with no verdict for the current
\* generation and nothing queued?
CONSTANTS
    n1 = n1
    n2 = n2
    n3 = n3
    Nodes = {n1}
    NodeSelector <- MCNodeSelector
    LabelChoices <- MCLabelsBoth
    MaxUnavailableSpec <- MCBudgetOne
    Window = 2
    ApplyTimeout = 1
    DecrementRetries = 1
    MaxGeneration = 2
    MaxTime = 0
    MaxCrashes = 0
    MaxLabelChanges = 2
    UpdateTimeouts = FALSE
    NoTime = NoTime
SPECIFICATION Spec
INVARIANT RolloutNotStalled
CHECK_DEADLOCK FALSE
