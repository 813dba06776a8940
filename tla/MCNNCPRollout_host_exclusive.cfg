\* One node whose labels change while its handler reconciles the policy:
\* can its two controllers apply the policy to the host at once?
CONSTANTS
    n1 = n1
    n2 = n2
    n3 = n3
    Nodes = {n1}
    NodeSelector <- MCNodeSelector
    LabelChoices <- MCLabelsBoth
    MaxUnavailableSpec <- MCBudgetOne
    Window = 2
    ApplyTimeout = 1
    DecrementRetries = 1
    MaxGeneration = 1
    MaxTime = 0
    MaxCrashes = 0
    MaxLabelChanges = 2
    UpdateTimeouts = FALSE
    NoTime = NoTime
SPECIFICATION Spec
INVARIANT HostExclusive
CHECK_DEADLOCK FALSE
