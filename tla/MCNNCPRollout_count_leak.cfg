\* Two matching nodes, a budget of two, the decrement's retry limit of
\* retry.DefaultRetry (5 attempts) and one user update of the policy: the
\* writes of the other handlers and of the user exhaust the retries of one
\* decrement, which then gives up and leaves the count above zero for good.
CONSTANTS
    n1 = n1
    n2 = n2
    n3 = n3
    Nodes = {n1, n2}
    NodeSelector <- MCNodeSelector
    LabelChoices <- MCLabelsWorker
    MaxUnavailableSpec <- MCBudgetTwo
    Window = 2
    ApplyTimeout = 1
    DecrementRetries = 5
    MaxGeneration = 2
    MaxTime = 0
    MaxCrashes = 0
    MaxLabelChanges = 0
    UpdateTimeouts = FALSE
    NoTime = NoTime
SPECIFICATION Spec
INVARIANT CountReturnsToZero
CHECK_DEADLOCK FALSE
