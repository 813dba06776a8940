\* One NMState name, deleted and re-created under a second UID, with two
\* failed store calls: the handler is deployed and owned by the live
\* instance whenever the operator is at rest.
CONSTANTS
    a1 = a1
    a2 = a2
    b1 = b1
    a = a
    b = b
    Uids = {a1, a2}
    Names = {a}
    NameOf <- MCRecreateNames
    MaxTime = 1
    MaxFailures = 2
    NoUid = NoUid
SPECIFICATION FairSpec
INVARIANT TypeOK AtRestDeployed
PROPERTY Settles
CHECK_DEADLOCK FALSE
