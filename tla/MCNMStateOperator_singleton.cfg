\* Two NMState instances of different names, created in the same or in
\* different seconds, with one failed store call: the reconciler only ever
\* deletes an instance in favour of one created no later.
CONSTANTS
    a1 = a1
    a2 = a2
    b1 = b1
    a = a
    b = b
    Uids = {a1, b1}
    Names = {a, b}
    NameOf <- MCTwoNames
    MaxTime = 1
    MaxFailures = 1
    NoUid = NoUid
SPECIFICATION Spec
PROPERTY DeletesOnlyLaterInstances
CHECK_DEADLOCK FALSE
