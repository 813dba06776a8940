\* Two matching nodes whose labels do not change, a budget of two nodes, a
\* policy update, a handler restart, the clock running past the hysteresis
\* window, and decrements retried twice on conflict.  Deadlock is not
\* checked: once the bounded environment is spent and every queue is empty
\* the handlers idle, waiting for events, as they do.
CONSTANTS
    n1 = n1
    n2 = n2
    n3 = n3
    Nodes = {n1, n2}
    NodeSelector <- MCNodeSelector
    LabelChoices <- MCLabelsWorker
    MaxUnavailableSpec <- MCBudgetTwo
    Window = 2
    ApplyTimeout = 1
    DecrementRetries = 2
    MaxGeneration = 2
    MaxTime = 2
    MaxCrashes = 1
    MaxLabelChanges = 0
    UpdateTimeouts = TRUE
    NoTime = NoTime
SPECIFICATION Spec
SYMMETRY MCSymmetry
INVARIANT UnavailableWithinBudget
INVARIANT RolloutNotStalled
PROPERTY ImplementsSlotCounter
CHECK_DEADLOCK FALSE
