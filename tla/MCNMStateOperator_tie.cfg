\* Two NMState instances of different names and no store failures: two
\* instances created within the same second can both survive.
CONSTANTS
    a1 = a1
    a2 = a2
    b1 = b1
    a = a
    b = b
    Uids = {a1, b1}
    Names = {a, b}
    NameOf <- MCTwoNames
    MaxTime = 1
    MaxFailures = 0
    NoUid = NoUid
SPECIFICATION Spec
INVARIANT SingletonAtRest
CHECK_DEADLOCK FALSE
