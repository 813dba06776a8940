\* Two matching nodes and an integer budget of two: both are admitted, then
\* one node's labels stop matching the selector while the other applies,
\* which lowers the budget below the admitted count.
CONSTANTS
    n1 = n1
    n2 = n2
    n3 = n3
    Nodes = {n1, n2}
    NodeSelector <- MCNodeSelector
    LabelChoices <- MCLabelsBoth
    MaxUnavailableSpec <- MCBudgetTwo
    Window = 2
    ApplyTimeout = 1
    DecrementRetries = 1
    MaxGeneration = 1
    MaxTime = 0
    MaxCrashes = 0
    MaxLabelChanges = 1
    UpdateTimeouts = FALSE
    NoTime = NoTime
SPECIFICATION Spec
INVARIANT UnavailableWithinBudget
CHECK_DEADLOCK FALSE
