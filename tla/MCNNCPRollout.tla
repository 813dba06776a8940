---------------------------- MODULE MCNNCPRollout ----------------------------
(* Small instances of NNCPRollout for TLC. *)
EXTENDS NNCPRollout, TLC

CONSTANTS n1, n2, n3

\* One selector key "role"; a node is a worker (matching) or infra.
MCNodeSelector == "role" :> "worker"
WorkerLabels == "role" :> "worker"
InfraLabels == "role" :> "infra"

MCLabelsBoth == {WorkerLabels, InfraLabels}
MCLabelsWorker == {WorkerLabels}
MCLabelsInfra == {InfraLabels}

MCBudgetOne == [kind |-> "int", value |-> 1]
MCBudgetTwo == [kind |-> "int", value |-> 2]

MCSymmetry == Permutations({n1, n2, n3})

=============================================================================
