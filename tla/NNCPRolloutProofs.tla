-------------------------- MODULE NNCPRolloutProofs --------------------------
(***************************************************************************)
(* Proofs about NNCPRollout for every value of its constants.              *)
(*                                                                         *)
(* TypeOK is not inductive on its own: DecrementUpdate adds one to the     *)
(* retry count, and only the fact that a reconcile at decGet or decUpdate  *)
(* is still under retry.DefaultRetry's limit keeps it in range.            *)
(*                                                                         *)
(* The budget invariant needs three more facts about the locals of the     *)
(* reconciles: a read that is still current holds the stored count, an    *)
(* increment about to be written was admitted under the budget, and a     *)
(* decrement about to be written read a positive count.                    *)
(***************************************************************************)
EXTENDS NNCPRollout, FiniteSetTheorems, TLAPS

\* A reconcile in the deferred decrement has retries left, and one that
\* has not reached it has met no conflict on it yet.
RetriesBelowLimit ==
    \A n \in Nodes, w \in Workers :
        /\ pc[n][w] \in {"decGet", "decUpdate"} => retries[n][w] < DecrementRetries
        /\ pc[n][w] \notin {"decGet", "decUpdate", "update"} => retries[n][w] = 0

TypeInv == TypeOK /\ RetriesBelowLimit

\* A policy read that no write has overtaken holds the stored count: the
\* store accepts an Update only from such a read.
FreshReadsCurrent == \A p \in fresh : snap[p[1]][p[2]].count = unavailable

\* An increment about to be written read a count below the budget.
AdmittedBelowBudget ==
    \A n \in Nodes, w \in Workers :
        pc[n][w] = "incUpdate" => snap[n][w].count < MaxUnavailableNodeCount

\* A decrement about to be written read a positive count.
DecrementAboveZero ==
    \A n \in Nodes, w \in Workers :
        pc[n][w] = "decUpdate" => snap[n][w].count > 0

BudgetInv ==
    /\ TypeInv
    /\ UnavailableWithinBudget
    /\ FreshReadsCurrent
    /\ AdmittedBelowBudget
    /\ DecrementAboveZero

-----------------------------------------------------------------------------
(* Lemmas on the data the actions write.                                   *)

\* Every setter writes a well-formed condition list.
LEMMA SettersTyped ==
    /\ EmptyConditions \in ConditionList
    /\ SetNotMatching \in ConditionList
    /\ SetMatching(EmptyConditions) \in ConditionList
    /\ SetMatching(SetNodeSelectorFailure) \in ConditionList
    /\ SetProgressing \in ConditionList
    /\ SetSuccess \in ConditionList
    /\ SetFailedToConfigure \in ConditionList
    /\ SetConfigurationAborted \in ConditionList
BY DEF EmptyConditions, SetNotMatching, SetMatching, SetNodeSelectorFailure,
       SetProgressing, SetSuccess, SetFailedToConfigure,
       SetConfigurationAborted, Vector, ConditionList, CondTypes,
       CountedTypes, Statuses

\* The policy as a Get returns it is a well-formed snapshot.
LEMMA ReadPolicyTyped ==
    ASSUME TypeOK, NEW n \in Nodes, NEW w \in Workers
    PROVE  ReadPolicy(n, w) \in Snapshot
BY ConstantsAssumption DEF TypeOK, ReadPolicy, Snapshot, Times

\* The locals of an idle reconcile are a well-formed snapshot.
LEMMA NoSnapshotTyped == NoSnapshot \in Snapshot
BY ConstantsAssumption DEF NoSnapshot, Snapshot, Times

\* node.MaxUnavailableNodeCount is a positive integer whatever the labels:
\* the set of matching nodes is finite, and the result is floored at 1.
LEMMA BudgetPositive == MaxUnavailableNodeCount \in Nat \ {0}
<1>1. IsFiniteSet(MatchingNodes)
  BY ConstantsAssumption, FS_Subset DEF MatchingNodes
<1>2. Cardinality(MatchingNodes) \in Nat
  BY <1>1, FS_CardinalityType
<1>3. QED
  BY <1>2, ConstantsAssumption DEF MaxUnavailableNodeCount

\* SetConds writes a well-formed condition list into one enactment.
LEMMA SetCondsTyped ==
    ASSUME TypeOK, NEW n \in Nodes, NEW c \in ConditionList, SetConds(n, c)
    PROVE  enactment' \in [Nodes -> Enactment]
BY DEF TypeOK, SetConds, Enactment

-----------------------------------------------------------------------------
(* Type correctness.                                                       *)

\* The initial state, every handler idle with its policy key queued, is typed.
LEMMA InitTypeInv == Init => TypeInv
BY SettersTyped, NoSnapshotTyped, ConstantsAssumption
DEF Init, TypeInv, TypeOK, RetriesBelowLimit, Enactment, Times, Workers, PCs

\* Every step keeps the variables typed and the retry count within
\* retry.DefaultRetry's limit.  Each case first states what the action
\* writes, then the type of each variable it writes.
LEMMA TypeInvStep == TypeInv /\ [Next]_vars => TypeInv'
<1> SUFFICES ASSUME TypeInv, [Next]_vars PROVE TypeInv'
  OBVIOUS
<1>1. ASSUME NEW n \in Nodes, NEW w \in Workers, GetPolicy(n, w) PROVE TypeInv'
  BY <1>1, ReadPolicyTyped
  DEF TypeInv, TypeOK, RetriesBelowLimit, GetPolicy, Goto, PCs
<1>2. ASSUME NEW n \in Nodes, NEW w \in Workers, InitializeEnactment(n, w)
      PROVE TypeInv'
  <2>1. PICK c \in ConditionList, step \in {"update", "count"} :
          /\ enactment' = [enactment EXCEPT ![n] = Initialized(n, w, c)]
          /\ Goto(n, w, step)
    BY <1>2, SettersTyped DEF InitializeEnactment
  <2>2. Initialized(n, w, c) \in Enactment
    BY DEF TypeInv, TypeOK, Initialized, Enactment, Snapshot
  <2>3. pc' \in [Nodes -> [Workers -> PCs]]
    BY <2>1 DEF TypeInv, TypeOK, Goto, PCs
  <2>4. RetriesBelowLimit'
    BY <1>2, <2>1 DEF TypeInv, RetriesBelowLimit, InitializeEnactment, Goto
  <2>5. QED
    BY <1>2, <2>1, <2>2, <2>3, <2>4 DEF TypeInv, TypeOK, InitializeEnactment
<1>3. ASSUME NEW n \in Nodes, NEW w \in Workers, CountAndAdmit(n, w)
      PROVE TypeInv'
  <2>1. PICK step \in {"update", "incGet", "progressing"} :
          /\ enactment' \in [Nodes -> Enactment]
          /\ Goto(n, w, step)
    BY <1>3, SettersTyped, SetCondsTyped
    DEF TypeInv, TypeOK, CountAndAdmit, SetConds
  <2>2. pc' \in [Nodes -> [Workers -> PCs]]
    BY <2>1 DEF TypeInv, TypeOK, Goto, PCs
  <2>3. RetriesBelowLimit'
    BY <1>3, <2>1 DEF TypeInv, RetriesBelowLimit, CountAndAdmit, Goto
  <2>4. QED
    BY <1>3, <2>1, <2>2, <2>3 DEF TypeInv, TypeOK, CountAndAdmit
<1>4. ASSUME NEW n \in Nodes, NEW w \in Workers, IncrementGet(n, w)
      PROVE TypeInv'
  <2>1. snap' \in [Nodes -> [Workers -> Snapshot]]
    BY <1>4, ReadPolicyTyped DEF TypeInv, TypeOK, IncrementGet
  <2>2. CASE unavailable >= MaxUnavailableNodeCount
    <3>1. queued' = [queued EXCEPT ![n][w] = TRUE] /\ Goto(n, w, "update")
      BY <1>4, <2>2, BudgetPositive DEF TypeInv, TypeOK, IncrementGet, Requeue
    <3>2. QED
      BY <1>4, <2>1, <3>1
      DEF TypeInv, TypeOK, RetriesBelowLimit, IncrementGet, Goto, PCs
  <2>3. CASE ~(unavailable >= MaxUnavailableNodeCount)
    <3>1. UNCHANGED queued /\ Goto(n, w, "incUpdate")
      BY <1>4, <2>3 DEF IncrementGet
    <3>2. QED
      BY <1>4, <2>1, <3>1
      DEF TypeInv, TypeOK, RetriesBelowLimit, IncrementGet, Goto, PCs
  <2>4. QED
    BY <2>2, <2>3
<1>5. ASSUME NEW n \in Nodes, NEW w \in Workers, IncrementUpdate(n, w)
      PROVE TypeInv'
  <2> DEFINE Applied == /\ unavailable' = snap[n][w].count + 1
                        /\ lastUpdate' = now
                        /\ fresh' = {}
  <2>1. Applied => unavailable' \in Int /\ lastUpdate' \in Times
    BY ConstantsAssumption DEF TypeInv, TypeOK, Snapshot, Times
  <2>2. CASE Applied /\ Goto(n, w, "progressing") /\ UNCHANGED queued
    BY <1>5, <2>1, <2>2
    DEF TypeInv, TypeOK, RetriesBelowLimit, IncrementUpdate, Goto, PCs
  <2>3. CASE Applied /\ Requeue(n, w) /\ Goto(n, w, "update")
    BY <1>5, <2>1, <2>3
    DEF TypeInv, TypeOK, RetriesBelowLimit, IncrementUpdate, Goto, PCs, Requeue
  <2>4. CASE /\ Requeue(n, w) /\ Goto(n, w, "update")
             /\ UNCHANGED <<unavailable, lastUpdate, fresh>>
    BY <1>5, <2>4
    DEF TypeInv, TypeOK, RetriesBelowLimit, IncrementUpdate, Goto, PCs, Requeue
  <2>5. QED
    BY <1>5, <2>2, <2>3, <2>4 DEF IncrementUpdate
<1>6. ASSUME NEW n \in Nodes, NEW w \in Workers, NotifyProgressing(n, w)
      PROVE TypeInv'
  <2>1. enactment' \in [Nodes -> Enactment]
    BY <1>6, SettersTyped, SetCondsTyped
    DEF TypeInv, TypeOK, NotifyProgressing, SetConds
  <2>2. snap' \in [Nodes -> [Workers -> Snapshot]]
    BY <1>6 DEF TypeInv, TypeOK, NotifyProgressing, Snapshot
  <2>3. pc' \in [Nodes -> [Workers -> PCs]]
    BY <1>6 DEF TypeInv, TypeOK, NotifyProgressing, Goto, PCs
  <2>4. RetriesBelowLimit'
    BY <1>6 DEF TypeInv, RetriesBelowLimit, NotifyProgressing, Goto
  <2>5. QED
    BY <1>6, <2>1, <2>2, <2>3, <2>4 DEF TypeInv, TypeOK, NotifyProgressing
<1>7. ASSUME NEW n \in Nodes, NEW w \in Workers, ApplyFinish(n, w)
      PROVE TypeInv'
  <2>1. enactment' \in [Nodes -> Enactment]
    BY <1>7, SettersTyped, SetCondsTyped
    DEF TypeInv, TypeOK, ApplyFinish, SetConds
  <2>2. pc' \in [Nodes -> [Workers -> PCs]]
    BY <1>7 DEF TypeInv, TypeOK, ApplyFinish, Goto, PCs
  <2>3. RetriesBelowLimit'
    BY <1>7, ConstantsAssumption
    DEF TypeInv, TypeOK, RetriesBelowLimit, ApplyFinish, Goto
  <2>4. QED
    BY <1>7, <2>1, <2>2, <2>3 DEF TypeInv, TypeOK, ApplyFinish
<1>8. ASSUME NEW n \in Nodes, NEW w \in Workers, DecrementGet(n, w)
      PROVE TypeInv'
  BY <1>8, ReadPolicyTyped
  DEF TypeInv, TypeOK, RetriesBelowLimit, DecrementGet, Goto, PCs
<1>9. ASSUME NEW n \in Nodes, NEW w \in Workers, DecrementUpdate(n, w)
      PROVE TypeInv'
  <2>1. CASE <<n, w>> \in fresh
    <3>1. /\ unavailable' = snap[n][w].count - 1
          /\ lastUpdate' = now
          /\ fresh' = {}
          /\ Goto(n, w, "update")
          /\ UNCHANGED retries
      BY <1>9, <2>1 DEF DecrementUpdate
    <3>2. unavailable' \in Int /\ lastUpdate' \in Times
      BY <3>1, ConstantsAssumption DEF TypeInv, TypeOK, Snapshot, Times
    <3>3. pc' \in [Nodes -> [Workers -> PCs]]
      BY <3>1 DEF TypeInv, TypeOK, Goto, PCs
    <3>4. RetriesBelowLimit'
      BY <3>1 DEF TypeInv, RetriesBelowLimit, Goto
    <3>5. QED
      BY <1>9, <3>1, <3>2, <3>3, <3>4 DEF TypeInv, TypeOK, DecrementUpdate
  <2>2. CASE <<n, w>> \notin fresh
    <3>1. /\ retries' = [retries EXCEPT ![n][w] = @ + 1]
          /\ Goto(n, w, IF retries[n][w] + 1 < DecrementRetries
                        THEN "decGet" ELSE "update")
      BY <1>9, <2>2 DEF DecrementUpdate
    <3>2. retries[n][w] < DecrementRetries
      BY <1>9 DEF TypeInv, RetriesBelowLimit, DecrementUpdate
    <3>3. retries' \in [Nodes -> [Workers -> 0..DecrementRetries]]
      BY <3>1, <3>2, ConstantsAssumption DEF TypeInv, TypeOK
    <3>4. pc' \in [Nodes -> [Workers -> PCs]]
      BY <3>1 DEF TypeInv, TypeOK, Goto, PCs
    <3>5. RetriesBelowLimit'
      BY <3>1, ConstantsAssumption DEF TypeInv, TypeOK, RetriesBelowLimit, Goto
    <3>6. UNCHANGED <<unavailable, lastUpdate, fresh>>
      BY <1>9, <2>2 DEF DecrementUpdate
    <3>7. QED
      BY <1>9, <3>3, <3>4, <3>5, <3>6 DEF TypeInv, TypeOK, DecrementUpdate
  <2>3. QED
    BY <2>1, <2>2
<1>10. ASSUME NEW n \in Nodes, NEW w \in Workers, UpdatePolicyConditions(n, w)
       PROVE TypeInv'
  <2>1. pc' \in [Nodes -> [Workers -> PCs]]
    BY <1>10 DEF TypeInv, TypeOK, UpdatePolicyConditions, Goto, PCs
  <2>2. snap' \in [Nodes -> [Workers -> Snapshot]]
    BY <1>10, NoSnapshotTyped DEF TypeInv, TypeOK, UpdatePolicyConditions
  <2>3. retries' \in [Nodes -> [Workers -> 0..DecrementRetries]]
    BY <1>10, ConstantsAssumption DEF TypeInv, TypeOK, UpdatePolicyConditions
  <2>4. RetriesBelowLimit'
    BY <1>10 DEF TypeInv, TypeOK, RetriesBelowLimit, UpdatePolicyConditions, Goto
  <2>5. QED
    BY <1>10, <2>1, <2>2, <2>3, <2>4
    DEF TypeInv, TypeOK, UpdatePolicyConditions
<1>11. CASE UpdatePolicy
  <2>1. queued' \in [Nodes -> [Workers -> BOOLEAN]]
    BY <1>11 DEF TypeInv, TypeOK, UpdatePolicy, PolicyController, Workers
  <2>2. QED
    BY <1>11, <2>1, ConstantsAssumption
    DEF TypeInv, TypeOK, RetriesBelowLimit, UpdatePolicy
<1>12. CASE Tick
  BY <1>12, ConstantsAssumption DEF TypeInv, TypeOK, RetriesBelowLimit, Tick
<1>13. ASSUME NEW n \in Nodes, ChangeLabels(n) PROVE TypeInv'
  <2>1. queued' \in [Nodes -> [Workers -> BOOLEAN]]
    BY <1>13 DEF TypeInv, TypeOK, ChangeLabels, NodeController, Workers
  <2>2. labels' \in [Nodes -> LabelChoices]
    BY <1>13 DEF TypeInv, TypeOK, ChangeLabels
  <2>3. QED
    BY <1>13, <2>1, <2>2, ConstantsAssumption
    DEF TypeInv, TypeOK, RetriesBelowLimit, ChangeLabels
<1>14. ASSUME NEW n \in Nodes, Crash(n) PROVE TypeInv'
  <2>1. pc' \in [Nodes -> [Workers -> PCs]]
    BY <1>14 DEF TypeInv, TypeOK, Crash, PCs
  <2>2. queued' \in [Nodes -> [Workers -> BOOLEAN]]
    BY <1>14 DEF TypeInv, TypeOK, Crash
  <2>3. snap' \in [Nodes -> [Workers -> Snapshot]]
    BY <1>14, NoSnapshotTyped DEF TypeInv, TypeOK, Crash
  <2>4. wasProgressing' \in [Nodes -> [Workers -> BOOLEAN]]
    BY <1>14 DEF TypeInv, TypeOK, Crash
  <2>5. retries' \in [Nodes -> [Workers -> 0..DecrementRetries]]
    BY <1>14, ConstantsAssumption DEF TypeInv, TypeOK, Crash
  <2>6. fresh' \subseteq Nodes \X Workers /\ crashes' \in 0..MaxCrashes
    BY <1>14, ConstantsAssumption DEF TypeInv, TypeOK, Crash
  <2>7. RetriesBelowLimit'
    BY <1>14 DEF TypeInv, TypeOK, RetriesBelowLimit, Crash
  <2>8. QED
    BY <1>14, <2>1, <2>2, <2>3, <2>4, <2>5, <2>6, <2>7
    DEF TypeInv, TypeOK, Crash
<1>15. CASE UNCHANGED vars
  BY <1>15 DEF TypeInv, TypeOK, RetriesBelowLimit, vars
<1>16. QED
  BY <1>1, <1>2, <1>3, <1>4, <1>5, <1>6, <1>7, <1>8, <1>9, <1>10, <1>11,
     <1>12, <1>13, <1>14, <1>15
  DEF Next, Reconcile, Environment

\* The handlers' variables keep their types in every reachable state.
THEOREM TypeCorrect == Spec => []TypeOK
<1>1. TypeInv => TypeOK
  BY DEF TypeInv
<1>2. QED
  BY InitTypeInv, TypeInvStep, <1>1, PTL DEF Spec

-----------------------------------------------------------------------------
(* The maxUnavailable budget, when node labels do not change.              *)

BudgetFacts ==
    /\ UnavailableWithinBudget
    /\ FreshReadsCurrent
    /\ AdmittedBelowBudget
    /\ DecrementAboveZero

\* Initially the count is 0, no read is current and no reconcile is about
\* to write the count.
LEMMA BudgetInit == Init => BudgetInv
BY InitTypeInv, BudgetPositive
DEF Init, BudgetInv, UnavailableWithinBudget, FreshReadsCurrent,
    AdmittedBelowBudget, DecrementAboveZero

\* With the label changes bounded to none, no step changes a label, so
\* no step changes the budget.
LEMMA BudgetFixed ==
    ASSUME MaxLabelChanges = 0, TypeOK, [Next]_vars
    PROVE  MaxUnavailableNodeCount' = MaxUnavailableNodeCount
<1>1. \A n \in Nodes : ~ChangeLabels(n)
  BY DEF TypeOK, ChangeLabels
<1>2. labels' = labels
  <2>1. ASSUME NEW n \in Nodes, NEW w \in Workers, Reconcile(n, w)
        PROVE  labels' = labels
    BY <2>1
    DEF Reconcile, GetPolicy, InitializeEnactment, CountAndAdmit, IncrementGet,
        IncrementUpdate, NotifyProgressing, ApplyFinish, DecrementGet,
        DecrementUpdate, UpdatePolicyConditions
  <2>2. CASE Environment
    BY <1>1, <2>2 DEF Environment, UpdatePolicy, Tick, Crash
  <2>3. CASE UNCHANGED vars
    BY <2>3 DEF vars
  <2>4. QED
    BY <2>1, <2>2, <2>3 DEF Next
<1>3. QED
  BY <1>2 DEF MaxUnavailableNodeCount, MatchingNodes, NodeMatches

\* A step that leaves the count, the reads and the set of current reads
\* alone, and moves one reconcile to a step that writes no count, keeps the
\* budget facts.
LEMMA QuietStep ==
    ASSUME TypeOK, BudgetFacts,
           MaxUnavailableNodeCount' = MaxUnavailableNodeCount,
           UNCHANGED <<unavailable, snap, fresh>>,
           NEW n \in Nodes, NEW w \in Workers,
           NEW st \in PCs \ {"incUpdate", "decUpdate"},
           pc' = [pc EXCEPT ![n][w] = st]
    PROVE  BudgetFacts'
BY DEF TypeOK, BudgetFacts, UnavailableWithinBudget, FreshReadsCurrent,
       AdmittedBelowBudget, DecrementAboveZero, PCs

\* Every step keeps the budget facts, as long as labels do not change.
LEMMA BudgetStep ==
    ASSUME MaxLabelChanges = 0
    PROVE  BudgetInv /\ [Next]_vars => BudgetInv'
<1> SUFFICES ASSUME BudgetInv, [Next]_vars PROVE BudgetInv'
  OBVIOUS
<1> DEFINE M == MaxUnavailableNodeCount
<1>a. TypeInv'
  BY TypeInvStep DEF BudgetInv
<1>b. M' = M /\ M \in Nat \ {0}
  BY BudgetFixed, BudgetPositive DEF BudgetInv, TypeInv
<1> SUFFICES BudgetFacts'
  BY <1>a DEF BudgetInv, BudgetFacts
<1> USE DEF BudgetInv, TypeInv, TypeOK, BudgetFacts, UnavailableWithinBudget,
            FreshReadsCurrent, AdmittedBelowBudget, DecrementAboveZero
<1>1. ASSUME NEW n \in Nodes, NEW w \in Workers, GetPolicy(n, w)
      PROVE BudgetFacts'
  BY <1>1, <1>b DEF GetPolicy, Goto
<1>2. ASSUME NEW n \in Nodes, NEW w \in Workers, InitializeEnactment(n, w)
      PROVE BudgetFacts'
  <2>1. PICK st \in {"update", "count"} : pc' = [pc EXCEPT ![n][w] = st]
    BY <1>2 DEF InitializeEnactment, Goto
  <2>2. UNCHANGED <<unavailable, snap, fresh>>
    BY <1>2 DEF InitializeEnactment
  <2>3. QED
    BY <2>1, <2>2, <1>b, QuietStep DEF PCs
<1>3. ASSUME NEW n \in Nodes, NEW w \in Workers, CountAndAdmit(n, w)
      PROVE BudgetFacts'
  <2>1. PICK st \in {"update", "incGet", "progressing"} : pc' = [pc EXCEPT ![n][w] = st]
    BY <1>3 DEF CountAndAdmit, Goto
  <2>2. UNCHANGED <<unavailable, snap, fresh>>
    BY <1>3 DEF CountAndAdmit
  <2>3. QED
    BY <2>1, <2>2, <1>b, QuietStep DEF PCs
<1>4. ASSUME NEW n \in Nodes, NEW w \in Workers, IncrementGet(n, w)
      PROVE BudgetFacts'
  BY <1>4, <1>b DEF IncrementGet, Goto, ReadPolicy
<1>5. ASSUME NEW n \in Nodes, NEW w \in Workers, IncrementUpdate(n, w)
      PROVE BudgetFacts'
  <2>1. CASE /\ <<n, w>> \in fresh
             /\ unavailable' = snap[n][w].count + 1
             /\ fresh' = {}
    <3>1. snap[n][w].count = unavailable /\ snap[n][w].count < M
      BY <1>5, <2>1 DEF IncrementUpdate, M
    <3>2. PICK st \in {"progressing", "update"} :
            /\ pc' = [pc EXCEPT ![n][w] = st]
            /\ UNCHANGED snap
      BY <1>5, <2>1 DEF IncrementUpdate, Goto
    <3>3. QED
      BY <2>1, <3>1, <3>2, <1>b DEF Snapshot
  <2>2. CASE /\ UNCHANGED <<unavailable, snap, fresh>>
             /\ pc' = [pc EXCEPT ![n][w] = "update"]
    BY <2>2, <1>b, QuietStep DEF PCs
  <2>3. QED
    BY <1>5, <2>1, <2>2 DEF IncrementUpdate, Goto
<1>6. ASSUME NEW n \in Nodes, NEW w \in Workers, NotifyProgressing(n, w)
      PROVE BudgetFacts'
  BY <1>6, <1>b DEF NotifyProgressing, Goto
<1>7. ASSUME NEW n \in Nodes, NEW w \in Workers, ApplyFinish(n, w)
      PROVE BudgetFacts'
  BY <1>7, <1>b, QuietStep DEF ApplyFinish, Goto, PCs
<1>8. ASSUME NEW n \in Nodes, NEW w \in Workers, DecrementGet(n, w)
      PROVE BudgetFacts'
  BY <1>8, <1>b DEF DecrementGet, Goto, ReadPolicy
<1>9. ASSUME NEW n \in Nodes, NEW w \in Workers, DecrementUpdate(n, w)
      PROVE BudgetFacts'
  <2>1. CASE <<n, w>> \in fresh
    <3>1. /\ unavailable' = snap[n][w].count - 1
          /\ fresh' = {}
          /\ pc' = [pc EXCEPT ![n][w] = "update"]
          /\ UNCHANGED snap
      BY <1>9, <2>1 DEF DecrementUpdate, Goto
    <3>2. snap[n][w].count = unavailable /\ snap[n][w].count > 0
      BY <1>9, <2>1 DEF DecrementUpdate
    <3>3. QED
      BY <3>1, <3>2, <1>b DEF Snapshot
  <2>2. CASE <<n, w>> \notin fresh
    <3>1. /\ UNCHANGED <<unavailable, snap, fresh>>
          /\ pc' = [pc EXCEPT ![n][w] = IF retries[n][w] + 1 < DecrementRetries
                                        THEN "decGet" ELSE "update"]
      BY <1>9, <2>2 DEF DecrementUpdate, Goto
    <3>2. QED
      BY <3>1, <1>b, QuietStep DEF PCs
  <2>3. QED
    BY <2>1, <2>2
<1>10. ASSUME NEW n \in Nodes, NEW w \in Workers, UpdatePolicyConditions(n, w)
       PROVE BudgetFacts'
  BY <1>10, <1>b DEF UpdatePolicyConditions, Goto
<1>11. CASE UpdatePolicy
  BY <1>11, <1>b DEF UpdatePolicy
<1>12. CASE Tick
  BY <1>12, <1>b DEF Tick
<1>13. ASSUME NEW n \in Nodes, ChangeLabels(n) PROVE BudgetFacts'
  BY <1>13 DEF ChangeLabels
<1>14. ASSUME NEW n \in Nodes, Crash(n) PROVE BudgetFacts'
  BY <1>14, <1>b DEF Crash
<1>15. CASE UNCHANGED vars
  BY <1>15, <1>b DEF vars
<1>16. QED
  BY <1>1, <1>2, <1>3, <1>4, <1>5, <1>6, <1>7, <1>8, <1>9, <1>10, <1>11,
     <1>12, <1>13, <1>14, <1>15
  DEF Next, Reconcile, Environment

\* status.unavailableNodeCount stays between 0 and maxUnavailable in every
\* reachable state, for any number of nodes, any budget and any timing, as
\* long as node labels do not change: every write of the count comes from a
\* read that no other write overtook (the store's resource-version check),
\* increments are admitted only below the budget (incrementUnavailableNodeCount)
\* and decrements only above zero (decrementUnavailableNodeCount).
THEOREM BudgetRespected ==
    ASSUME MaxLabelChanges = 0
    PROVE  Spec => []UnavailableWithinBudget
<1>1. BudgetInv /\ [Next]_vars => BudgetInv'
  BY BudgetStep
<1>2. BudgetInv => UnavailableWithinBudget
  BY DEF BudgetInv
<1>3. QED
  BY BudgetInit, <1>1, <1>2, PTL DEF Spec

-----------------------------------------------------------------------------
(* Refinement of the counting semaphore SlotCounter.                       *)

\* In a step from a state of the budget invariant, the count moves by one
\* from the right side of a bound, or not at all: the increment is written
\* from a current read below the budget, the decrement from a current read
\* above zero, and no other step writes the count.
LEMMA CountStep ==
    ASSUME BudgetInv, [Next]_vars
    PROVE  \/ unavailable' = unavailable
           \/ unavailable < MaxUnavailableNodeCount /\ unavailable' = unavailable + 1
           \/ unavailable > 0 /\ unavailable' = unavailable - 1
<1> USE DEF BudgetInv, FreshReadsCurrent, AdmittedBelowBudget, DecrementAboveZero
<1>1. ASSUME NEW n \in Nodes, NEW w \in Workers, IncrementUpdate(n, w)
      PROVE  \/ unavailable' = unavailable
             \/ unavailable < MaxUnavailableNodeCount /\ unavailable' = unavailable + 1
  <2>1. CASE <<n, w>> \in fresh /\ unavailable' = snap[n][w].count + 1
    BY <1>1, <2>1 DEF IncrementUpdate
  <2>2. CASE UNCHANGED unavailable
    BY <2>2
  <2>3. QED
    BY <1>1, <2>1, <2>2 DEF IncrementUpdate
<1>2. ASSUME NEW n \in Nodes, NEW w \in Workers, DecrementUpdate(n, w)
      PROVE  \/ unavailable' = unavailable
             \/ unavailable > 0 /\ unavailable' = unavailable - 1
  <2>1. CASE <<n, w>> \in fresh
    BY <1>2, <2>1 DEF DecrementUpdate
  <2>2. CASE <<n, w>> \notin fresh
    BY <1>2, <2>2 DEF DecrementUpdate
  <2>3. QED
    BY <2>1, <2>2
<1>3. ASSUME NEW n \in Nodes, NEW w \in Workers,
             \/ GetPolicy(n, w) \/ InitializeEnactment(n, w)
             \/ CountAndAdmit(n, w) \/ IncrementGet(n, w)
             \/ NotifyProgressing(n, w) \/ ApplyFinish(n, w)
             \/ DecrementGet(n, w) \/ UpdatePolicyConditions(n, w)
      PROVE  unavailable' = unavailable
  BY <1>3 DEF GetPolicy, InitializeEnactment, CountAndAdmit, IncrementGet,
              NotifyProgressing, ApplyFinish, DecrementGet,
              UpdatePolicyConditions
<1>4. ASSUME Environment PROVE unavailable' = unavailable
  BY <1>4 DEF Environment, UpdatePolicy, Tick, ChangeLabels, Crash
<1>5. CASE UNCHANGED vars
  BY <1>5 DEF vars
<1>6. QED
  BY <1>1, <1>2, <1>3, <1>4, <1>5 DEF Next, Reconcile

\* For any number of nodes, any budget and any timing, as long as node
\* labels do not change, the handlers use status.unavailableNodeCount as a
\* counting semaphore of maxUnavailable slots: the initial count is 0, and
\* every step of every reconcile, retry, crash and policy update is a
\* SlotCounter Acquire, a Release, or leaves count and budget alone.
THEOREM RefinesSlotCounter ==
    ASSUME MaxLabelChanges = 0
    PROVE  Spec => ImplementsSlotCounter
<1>1. Init => Slots!Init
  BY BudgetPositive DEF Init, Slots!Init
<1>2. BudgetInv /\ [Next]_vars => [Slots!Next]_(Slots!vars)
  <2> SUFFICES ASSUME BudgetInv, [Next]_vars PROVE [Slots!Next]_(Slots!vars)
    OBVIOUS
  <2>1. MaxUnavailableNodeCount' = MaxUnavailableNodeCount
    BY BudgetFixed DEF BudgetInv, TypeInv
  <2>2. QED
    BY <2>1, CountStep
    DEF Slots!Next, Slots!Acquire, Slots!Release, Slots!vars
<1>3. QED
  BY BudgetInit, BudgetStep, <1>1, <1>2, PTL
  DEF Spec, ImplementsSlotCounter, Slots!Spec

-----------------------------------------------------------------------------
(* The floor of the count, whatever the labels do.                         *)

\* The count is never negative, every current read holds it, and a
\* decrement about to be written read a positive count.
FloorFacts ==
    /\ unavailable >= 0
    /\ FreshReadsCurrent
    /\ DecrementAboveZero

FloorInv == TypeInv /\ FloorFacts

LEMMA FloorInit == Init => FloorInv
BY InitTypeInv DEF Init, FloorInv, FloorFacts, FreshReadsCurrent,
                   DecrementAboveZero

\* A step that leaves the count, the reads and the set of current reads
\* alone, and moves one reconcile to a step other than the decrement's
\* write, keeps the floor facts.
LEMMA FloorQuietStep ==
    ASSUME TypeOK, FloorFacts,
           UNCHANGED <<unavailable, snap, fresh>>,
           NEW n \in Nodes, NEW w \in Workers,
           NEW st \in PCs \ {"decUpdate"},
           pc' = [pc EXCEPT ![n][w] = st]
    PROVE  FloorFacts'
BY DEF TypeOK, FloorFacts, FreshReadsCurrent, DecrementAboveZero, PCs

\* Every step keeps the floor facts, label changes, restarts and increment
\* timeouts included: no step needs the budget.
LEMMA FloorStep == FloorInv /\ [Next]_vars => FloorInv'
<1> SUFFICES ASSUME FloorInv, [Next]_vars PROVE FloorInv'
  OBVIOUS
<1>a. TypeInv'
  BY TypeInvStep DEF FloorInv
<1> SUFFICES FloorFacts'
  BY <1>a DEF FloorInv
<1> USE DEF FloorInv, TypeInv, TypeOK, FloorFacts, FreshReadsCurrent,
            DecrementAboveZero
<1>1. ASSUME NEW n \in Nodes, NEW w \in Workers, GetPolicy(n, w)
      PROVE FloorFacts'
  BY <1>1 DEF GetPolicy, Goto
<1>2. ASSUME NEW n \in Nodes, NEW w \in Workers, InitializeEnactment(n, w)
      PROVE FloorFacts'
  <2>1. PICK st \in {"update", "count"} : pc' = [pc EXCEPT ![n][w] = st]
    BY <1>2 DEF InitializeEnactment, Goto
  <2>2. UNCHANGED <<unavailable, snap, fresh>>
    BY <1>2 DEF InitializeEnactment
  <2>3. QED
    BY <2>1, <2>2, FloorQuietStep DEF PCs
<1>3. ASSUME NEW n \in Nodes, NEW w \in Workers, CountAndAdmit(n, w)
      PROVE FloorFacts'
  <2>1. PICK st \in {"update", "incGet", "progressing"} :
            pc' = [pc EXCEPT ![n][w] = st]
    BY <1>3 DEF CountAndAdmit, Goto
  <2>2. UNCHANGED <<unavailable, snap, fresh>>
    BY <1>3 DEF CountAndAdmit
  <2>3. QED
    BY <2>1, <2>2, FloorQuietStep DEF PCs
<1>4. ASSUME NEW n \in Nodes, NEW w \in Workers, IncrementGet(n, w)
      PROVE FloorFacts'
  BY <1>4 DEF IncrementGet, Goto, ReadPolicy
<1>5. ASSUME NEW n \in Nodes, NEW w \in Workers, IncrementUpdate(n, w)
      PROVE FloorFacts'
  <2>1. CASE /\ <<n, w>> \in fresh
             /\ unavailable' = snap[n][w].count + 1
             /\ fresh' = {}
    <3>1. snap[n][w].count = unavailable
      BY <2>1
    <3>2. PICK st \in {"progressing", "update"} :
            /\ pc' = [pc EXCEPT ![n][w] = st]
            /\ UNCHANGED snap
      BY <1>5, <2>1 DEF IncrementUpdate, Goto
    <3>3. QED
      BY <2>1, <3>1, <3>2 DEF Snapshot
  <2>2. CASE /\ UNCHANGED <<unavailable, snap, fresh>>
             /\ pc' = [pc EXCEPT ![n][w] = "update"]
    BY <2>2, FloorQuietStep DEF PCs
  <2>3. QED
    BY <1>5, <2>1, <2>2 DEF IncrementUpdate, Goto
<1>6. ASSUME NEW n \in Nodes, NEW w \in Workers, NotifyProgressing(n, w)
      PROVE FloorFacts'
  BY <1>6 DEF NotifyProgressing, Goto
<1>7. ASSUME NEW n \in Nodes, NEW w \in Workers, ApplyFinish(n, w)
      PROVE FloorFacts'
  BY <1>7, FloorQuietStep DEF ApplyFinish, Goto, PCs
<1>8. ASSUME NEW n \in Nodes, NEW w \in Workers, DecrementGet(n, w)
      PROVE FloorFacts'
  BY <1>8 DEF DecrementGet, Goto, ReadPolicy
<1>9. ASSUME NEW n \in Nodes, NEW w \in Workers, DecrementUpdate(n, w)
      PROVE FloorFacts'
  <2>1. CASE <<n, w>> \in fresh
    <3>1. /\ unavailable' = snap[n][w].count - 1
          /\ fresh' = {}
          /\ pc' = [pc EXCEPT ![n][w] = "update"]
          /\ UNCHANGED snap
      BY <1>9, <2>1 DEF DecrementUpdate, Goto
    <3>2. snap[n][w].count = unavailable /\ snap[n][w].count > 0
      BY <1>9, <2>1 DEF DecrementUpdate
    <3>3. QED
      BY <3>1, <3>2 DEF Snapshot
  <2>2. CASE <<n, w>> \notin fresh
    <3>1. /\ UNCHANGED <<unavailable, snap, fresh>>
          /\ pc' = [pc EXCEPT ![n][w] = IF retries[n][w] + 1 < DecrementRetries
                                        THEN "decGet" ELSE "update"]
      BY <1>9, <2>2 DEF DecrementUpdate, Goto
    <3>2. QED
      BY <3>1, FloorQuietStep DEF PCs
  <2>3. QED
    BY <2>1, <2>2
<1>10. ASSUME NEW n \in Nodes, NEW w \in Workers, UpdatePolicyConditions(n, w)
       PROVE FloorFacts'
  BY <1>10 DEF UpdatePolicyConditions, Goto
<1>11. CASE UpdatePolicy
  BY <1>11 DEF UpdatePolicy
<1>12. CASE Tick
  BY <1>12 DEF Tick
<1>13. ASSUME NEW n \in Nodes, ChangeLabels(n) PROVE FloorFacts'
  BY <1>13 DEF ChangeLabels
<1>14. ASSUME NEW n \in Nodes, Crash(n) PROVE FloorFacts'
  BY <1>14 DEF Crash
<1>15. CASE UNCHANGED vars
  BY <1>15 DEF vars
<1>16. QED
  BY <1>1, <1>2, <1>3, <1>4, <1>5, <1>6, <1>7, <1>8, <1>9, <1>10, <1>11,
     <1>12, <1>13, <1>14, <1>15
  DEF Next, Reconcile, Environment

\* For every set of constants, label changes, restarts and increment
\* timeouts included, status.unavailableNodeCount is never negative: the
\* decrement writes count-1 only from a read of a positive count
\* (decrementUnavailableNodeCount, line 353) that no other write overtook.
\* Only the upper bound needs the labels fixed (the budget_shrinks finding).
THEOREM CountNeverNegative == Spec => [](unavailable >= 0)
<1>1. FloorInv => unavailable >= 0
  BY DEF FloorInv, FloorFacts
<1>2. QED
  BY FloorInit, FloorStep, <1>1, PTL DEF Spec

====
