------------------------------ MODULE Selectors ------------------------------
(***************************************************************************)
(* The node-selector evaluator of pkg/selectors/labels.go.  A selector and *)
(* a node's labels are functions from label keys to values; a key missing  *)
(* from a node's labels is a key outside the domain of its function.       *)
(***************************************************************************)

\* unmatchingLabels: the selector entries the labels do not satisfy, either
\* because the key is absent or because its value differs.
UnmatchingLabels(nodeSelector, labels) ==
    [k \in {key \in DOMAIN nodeSelector :
                key \notin DOMAIN labels \/ labels[key] # nodeSelector[key]}
        |-> nodeSelector[k]]

\* A node matches when no selector entry is left unmatched.
Matches(nodeSelector, labels) == DOMAIN UnmatchingLabels(nodeSelector, labels) = {}

=============================================================================
