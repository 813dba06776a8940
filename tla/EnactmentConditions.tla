------------------------- MODULE EnactmentConditions -------------------------
(***************************************************************************)
(* The condition vector of a NodeNetworkConfigurationEnactment (NNCE), the *)
(* per-reason setters that write it, and the enactment counter that        *)
(* tallies a list of enactments against a policy generation.               *)
(*                                                                         *)
(* A condition list is a function from condition type to status; a type   *)
(* missing from the list is "Unknown", so the empty list is the vector     *)
(* that is Unknown everywhere.  Reason tags and messages are left out: no  *)
(* decision of the handler reads them.                                     *)
(***************************************************************************)
EXTENDS Naturals, FiniteSets

\* The informative condition types counted by the counter
\* (api/shared/nodenetworkconfigurationenactment_types.go).
CountedTypes == {"Available", "Failing", "Progressing", "Pending", "Aborted"}

\* Matching is written by the handler but not counted.
CondTypes == CountedTypes \cup {"Matching"}

Statuses == {"True", "False", "Unknown"}

ConditionList == [CondTypes -> Statuses]

\* An empty condition list: every type is missing, hence Unknown.
EmptyConditions == [t \in CondTypes |-> "Unknown"]

\* The full vector a setter writes, Matching first, then the five counted
\* types in the order Pending, Progressing, Available, Failing, Aborted.
Vector(m, pe, pr, av, fa, ab) ==
    [Matching |-> m, Pending |-> pe, Progressing |-> pr,
     Available |-> av, Failing |-> fa, Aborted |-> ab]

-----------------------------------------------------------------------------
(* Setters.  The counted part of each vector is the one the counter tests  *)
(* pin down (counter_test.go); the Matching column follows the setter      *)
(* table of the design.                                                    *)

SetNotMatching == Vector("False", "False", "False", "False", "False", "False")

SetMatching(c) == [c EXCEPT !["Matching"] = "True"]

\* NodeSelectorFailure: the Node could not be read.  Its vector is not
\* pinned by any test; it is taken to be the NotMatching one.
SetNodeSelectorFailure == SetNotMatching

SetProgressing ==
    Vector("True", "False", "True", "Unknown", "Unknown", "False")

SetSuccess == Vector("True", "False", "False", "True", "False", "False")

SetFailedToConfigure ==
    Vector("True", "False", "False", "False", "True", "False")

SetConfigurationAborted ==
    Vector("True", "False", "False", "False", "False", "True")

\* enactmentstatus.IsProgressing: the Progressing condition is True.
IsProgressing(c) == c["Progressing"] = "True"

-----------------------------------------------------------------------------
(* The counter.  An enactment is a record with its conditions and the      *)
(* policy generation it reports on.  One written for another generation   *)
(* contributes Unknown on every counted type (counter_test.go, the p(2)    *)
(* cases).                                                                 *)

CountedStatus(e, generation, t) ==
    IF e.gen = generation THEN e.conds[t] ELSE "Unknown"

\* Count(list, generation)[t][s]: how many enactments of the list (a
\* function from names to enactments) are counted with status s on type t.
Count(list, generation) ==
    [t \in CountedTypes |->
        [s \in Statuses |->
            Cardinality({k \in DOMAIN list :
                            CountedStatus(list[k], generation, t) = s})]]

\* ConditionCount.Failed(): enactments counted Failing=True.
Failed(list, generation) == Count(list, generation)["Failing"]["True"]

=============================================================================
