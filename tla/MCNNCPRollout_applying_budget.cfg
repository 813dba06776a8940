\* Two matching nodes with fixed labels (only the policy controller runs),
\* a budget of one node, a policy update and the clock running past the
\* hysteresis window: can both nodes apply the policy at once?
CONSTANTS
    n1 = n1
    n2 = n2
    n3 = n3
    Nodes = {n1, n2}
    NodeSelector <- MCNodeSelector
    LabelChoices <- MCLabelsWorker
    MaxUnavailableSpec <- MCBudgetOne
    Window = 2
    ApplyTimeout = 1
    DecrementRetries = 1
    MaxGeneration = 2
    MaxTime = 3
    MaxCrashes = 0
    MaxLabelChanges = 0
    UpdateTimeouts = FALSE
    NoTime = NoTime
SPECIFICATION Spec
INVARIANT ApplyingWithinBudget
CHECK_DEADLOCK FALSE
