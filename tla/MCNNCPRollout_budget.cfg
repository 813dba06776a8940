\* Two nodes whose labels change once, a budget of one node, no policy
\* update and one tick of the clock.  Both controllers of a handler run.
\* Deadlock is not checked: once the bounded environment is spent and every
\* queue is empty the handlers idle, waiting for events, as they do.
CONSTANTS
    n1 = n1
    n2 = n2
    n3 = n3
    Nodes = {n1, n2}
    NodeSelector <- MCNodeSelector
    LabelChoices <- MCLabelsBoth
    MaxUnavailableSpec <- MCBudgetOne
    Window = 2
    ApplyTimeout = 1
    DecrementRetries = 1
    MaxGeneration = 1
    MaxTime = 1
    MaxCrashes = 0
    MaxLabelChanges = 1
    UpdateTimeouts = FALSE
    NoTime = NoTime
SPECIFICATION Spec
SYMMETRY MCSymmetry
INVARIANT TypeOK
INVARIANT UnavailableWithinBudget
CHECK_DEADLOCK FALSE
