------------------------ MODULE NNCPRolloutStallProofs ------------------------
(***************************************************************************)
(* A proof that, while node labels do not change, a rollout never stalls   *)
(* silently: a matching node without a verdict for the current generation *)
(* always has a reconcile of the policy queued or running.                 *)
(*                                                                         *)
(* With labels fixed, the node controller of a handler is never fed (only *)
(* a label change enqueues on it), so each node runs one reconcile at a    *)
(* time.  The invariant then follows the reconcile of the policy           *)
(* controller: the generation it recorded in the enactment is either the   *)
(* current one or a policy update has queued the key again, and from the   *)
(* verdict on, the enactment carries a verdict or the key is queued.       *)
(***************************************************************************)
EXTENDS NNCPRolloutProofs

\* The enactment of n carries a verdict (for whatever generation it records).
HasVerdict(n) ==
    \E t \in {"Available", "Failing", "Aborted"} : enactment[n].conds[t] = "True"

\* The generation the policy controller's reconcile on n works for: the one
\* it read, until initializeEnactment records it in the enactment.
GenSeen(n) ==
    IF pc[n][PolicyController] = "init" THEN snap[n][PolicyController].gen
    ELSE enactment[n].gen

\* The facts about node n that make the invariant.  NodeControllerIdle:
\* the node controller neither runs nor has anything queued.
\* StaleReadQueued: a reconcile working for an outdated generation has the
\* key queued again.  EnactmentExists: past initializeEnactment, the
\* enactment exists.  VerdictOrQueued: from the verdict on, a matching
\* node's enactment carries a verdict, or the key is queued (saturation
\* and conflicts requeue).
NodeControllerIdle(n) == pc[n][NodeController] = "idle" /\ ~queued[n][NodeController]

StaleReadQueued(n) ==
    pc[n][PolicyController] # "idle" /\ GenSeen(n) # generation
        => queued[n][PolicyController]

EnactmentExists(n) ==
    pc[n][PolicyController] \notin {"idle", "init"} => enactment[n].exists

VerdictOrQueued(n) ==
    NodeMatches(n) /\ pc[n][PolicyController] \in {"decGet", "decUpdate", "update"}
        => HasVerdict(n) \/ queued[n][PolicyController]

NotStalled(n) ==
    NodeMatches(n) /\ ~ReportsVerdict(n) =>
        \E w \in Workers : queued[n][w] \/ pc[n][w] # "idle"

NodeFacts(n) ==
    /\ NodeControllerIdle(n)
    /\ StaleReadQueued(n)
    /\ EnactmentExists(n)
    /\ VerdictOrQueued(n)
    /\ NotStalled(n)

StallFacts == \A n \in Nodes : NodeFacts(n)

StallInv == TypeInv /\ StallFacts

-----------------------------------------------------------------------------

\* With the label changes bounded to none, no step changes a label.
LEMMA LabelsFixed ==
    ASSUME MaxLabelChanges = 0, TypeOK, [Next]_vars
    PROVE  labels' = labels
<1>1. ASSUME NEW n \in Nodes, NEW w \in Workers, Reconcile(n, w)
      PROVE  labels' = labels
  BY <1>1
  DEF Reconcile, GetPolicy, InitializeEnactment, CountAndAdmit, IncrementGet,
      IncrementUpdate, NotifyProgressing, ApplyFinish, DecrementGet,
      DecrementUpdate, UpdatePolicyConditions
<1>2. CASE Environment
  BY <1>2 DEF Environment, UpdatePolicy, Tick, Crash, ChangeLabels, TypeOK
<1>3. CASE UNCHANGED vars
  BY <1>3 DEF vars
<1>4. QED
  BY <1>1, <1>2, <1>3 DEF Next

\* The verdict setters set a verdict condition.
LEMMA VerdictSetters ==
    /\ SetSuccess["Available"] = "True"
    /\ SetFailedToConfigure["Failing"] = "True"
    /\ SetConfigurationAborted["Aborted"] = "True"
BY DEF SetSuccess, SetFailedToConfigure, SetConfigurationAborted, Vector

\* Initially no reconcile runs and every handler has the policy queued on
\* its policy controller.
LEMMA StallInit == Init => StallInv
<1> SUFFICES ASSUME Init PROVE StallInv
  OBVIOUS
<1>1. TypeInv
  BY InitTypeInv
<1>2. ASSUME NEW n \in Nodes PROVE NodeFacts(n)
  BY DEF Init, PolicyController, NodeController, Workers, NodeFacts,
         NodeControllerIdle, StaleReadQueued, EnactmentExists,
         VerdictOrQueued, NotStalled
<1>3. QED
  BY <1>1, <1>2 DEF StallInv, StallFacts

\* The facts about a node whose state, and the policy generation, a step
\* leaves alone are kept.
LEMMA OtherNode ==
    ASSUME NEW m \in Nodes, NodeFacts(m),
           pc'[m] = pc[m], queued'[m] = queued[m], enactment'[m] = enactment[m],
           snap'[m] = snap[m], generation' = generation, labels' = labels
    PROVE  NodeFacts(m)'
BY DEF NodeFacts, NodeControllerIdle, StaleReadQueued, EnactmentExists,
       VerdictOrQueued, NotStalled, GenSeen, HasVerdict, ReportsVerdict,
       NodeMatches

\* The node controller of a handler is never fed while labels are fixed,
\* so every reconcile step is one of the policy controller.
LEMMA OnlyPolicyController ==
    ASSUME StallInv, NEW n \in Nodes, NEW w \in Workers, Reconcile(n, w)
    PROVE  w = PolicyController
BY DEF StallInv, StallFacts, NodeFacts, NodeControllerIdle, Workers,
       Reconcile, GetPolicy,
       InitializeEnactment, CountAndAdmit, IncrementGet, IncrementUpdate,
       NotifyProgressing, ApplyFinish, DecrementGet, DecrementUpdate,
       UpdatePolicyConditions

\* Every step keeps the invariant, as long as labels do not change.
LEMMA StallStep ==
    ASSUME MaxLabelChanges = 0
    PROVE  StallInv /\ [Next]_vars => StallInv'
<1> SUFFICES ASSUME StallInv, [Next]_vars PROVE StallInv'
  OBVIOUS
<1>a. TypeInv'
  BY TypeInvStep DEF StallInv
<1>b. labels' = labels
  BY LabelsFixed DEF StallInv, TypeInv
<1> SUFFICES StallFacts'
  BY <1>a DEF StallInv
<1> DEFINE P == PolicyController
<1> USE DEF StallInv, TypeInv, TypeOK, StallFacts, Workers, PolicyController,
            NodeController, NodeFacts, NodeControllerIdle, StaleReadQueued,
            EnactmentExists, VerdictOrQueued, NotStalled, GenSeen, HasVerdict,
            ReportsVerdict, NodeMatches
<1>1. ASSUME NEW n \in Nodes, GetPolicy(n, P) PROVE StallFacts'
  <2>1. ASSUME NEW m \in Nodes, m # n PROVE NodeFacts(m)'
    <3>1. /\ pc'[m] = pc[m] /\ queued'[m] = queued[m]
          /\ enactment'[m] = enactment[m] /\ snap'[m] = snap[m]
          /\ generation' = generation
      BY <1>1, <2>1 DEF GetPolicy, Goto, ReadPolicy
    <3>2. QED
      BY <2>1, <3>1, <1>b, OtherNode
  <2>2. NodeFacts(n)'
    BY <1>1, <1>b DEF GetPolicy, Goto, ReadPolicy
  <2>3. QED
    BY <2>1, <2>2 DEF StallFacts
<1>2. ASSUME NEW n \in Nodes, InitializeEnactment(n, P) PROVE StallFacts'
  <2>1. ASSUME NEW m \in Nodes, m # n PROVE NodeFacts(m)'
    <3>1. /\ pc'[m] = pc[m] /\ queued'[m] = queued[m]
          /\ enactment'[m] = enactment[m] /\ snap'[m] = snap[m]
          /\ generation' = generation
      BY <1>2, <2>1 DEF InitializeEnactment, Goto
    <3>2. QED
      BY <2>1, <3>1, <1>b, OtherNode
  <2>2. NodeFacts(n)'
    <3>1. PICK c \in ConditionList, st \in {"update", "count"} :
            /\ enactment' = [enactment EXCEPT ![n] = Initialized(n, P, c)]
            /\ pc' = [pc EXCEPT ![n][P] = st]
            /\ st = "update" => ~NodeMatches(n)
      BY <1>2, SettersTyped DEF InitializeEnactment, Goto
    <3>2. enactment'[n].exists /\ enactment'[n].gen = snap[n][P].gen
      BY <3>1 DEF Initialized
    <3>3. UNCHANGED <<queued, snap, generation>>
      BY <1>2 DEF InitializeEnactment
    <3>4. QED
      BY <1>2, <1>b, <3>1, <3>2, <3>3 DEF InitializeEnactment
  <2>3. QED
    BY <2>1, <2>2 DEF StallFacts
<1>3. ASSUME NEW n \in Nodes, CountAndAdmit(n, P) PROVE StallFacts'
  <2>1. ASSUME NEW m \in Nodes, m # n PROVE NodeFacts(m)'
    <3>1. /\ pc'[m] = pc[m] /\ queued'[m] = queued[m]
          /\ enactment'[m] = enactment[m] /\ snap'[m] = snap[m]
          /\ generation' = generation
      BY <1>3, <2>1 DEF CountAndAdmit, Goto, SetConds
    <3>2. QED
      BY <2>1, <3>1, <1>b, OtherNode
  <2>2. NodeFacts(n)'
    <3>1. UNCHANGED <<queued, snap, generation>>
      BY <1>3 DEF CountAndAdmit
    <3>2. enactment'[n].exists = enactment[n].exists
          /\ enactment'[n].gen = enactment[n].gen
      BY <1>3 DEF CountAndAdmit, SetConds
    <3>3. CASE enactment' = [enactment EXCEPT ![n] =
                 [exists |-> enactment[n].exists, gen |-> enactment[n].gen,
                  conds |-> SetConfigurationAborted]]
               /\ pc' = [pc EXCEPT ![n][P] = "update"]
      <4>1. HasVerdict(n)'
        BY <3>3, VerdictSetters DEF HasVerdict
      <4>2. pc[n][P] = "count"
        BY <1>3 DEF CountAndAdmit
      <4>3. QED
        BY <1>b, <3>1, <3>2, <3>3, <4>1, <4>2
    <3>4. CASE UNCHANGED enactment
               /\ \E st \in {"incGet", "progressing"} : pc' = [pc EXCEPT ![n][P] = st]
      BY <1>3, <1>b, <3>1, <3>4 DEF CountAndAdmit
    <3>5. QED
      BY <1>3, <3>3, <3>4 DEF CountAndAdmit, SetConds, Goto
  <2>3. QED
    BY <2>1, <2>2 DEF StallFacts
<1>4. ASSUME NEW n \in Nodes, IncrementGet(n, P) PROVE StallFacts'
  <2>1. ASSUME NEW m \in Nodes, m # n PROVE NodeFacts(m)'
    <3>1. /\ pc'[m] = pc[m] /\ queued'[m] = queued[m]
          /\ enactment'[m] = enactment[m] /\ snap'[m] = snap[m]
          /\ generation' = generation
      BY <1>4, <2>1 DEF IncrementGet, Goto, Requeue
    <3>2. QED
      BY <2>1, <3>1, <1>b, OtherNode
  <2>2. NodeFacts(n)'
    <3>1. UNCHANGED <<enactment, generation>>
      BY <1>4 DEF IncrementGet
    <3>2. CASE queued' = [queued EXCEPT ![n][P] = TRUE]
               /\ pc' = [pc EXCEPT ![n][P] = "update"]
      <4>1. pc[n][P] = "incGet"
        BY <1>4 DEF IncrementGet
      <4>2. NodeControllerIdle(n)' /\ EnactmentExists(n)'
        BY <3>1, <3>2, <4>1
      <4>3. StaleReadQueued(n)' /\ VerdictOrQueued(n)'
        BY <3>1, <3>2
      <4>4. NotStalled(n)'
        BY <3>2
      <4>5. QED
        BY <4>2, <4>3, <4>4
    <3>3. CASE UNCHANGED queued /\ pc' = [pc EXCEPT ![n][P] = "incUpdate"]
      BY <1>4, <1>b, <3>1, <3>3 DEF IncrementGet
    <3>4. QED
      BY <1>4, <3>2, <3>3 DEF IncrementGet, Requeue, Goto
  <2>3. QED
    BY <2>1, <2>2 DEF StallFacts
<1>5. ASSUME NEW n \in Nodes, IncrementUpdate(n, P) PROVE StallFacts'
  <2>1. ASSUME NEW m \in Nodes, m # n PROVE NodeFacts(m)'
    <3>1. /\ pc'[m] = pc[m] /\ queued'[m] = queued[m]
          /\ enactment'[m] = enactment[m] /\ snap'[m] = snap[m]
          /\ generation' = generation
      BY <1>5, <2>1 DEF IncrementUpdate, Goto, Requeue
    <3>2. QED
      BY <2>1, <3>1, <1>b, OtherNode
  <2>2. NodeFacts(n)'
    <3>1. UNCHANGED <<enactment, generation, snap>>
      BY <1>5 DEF IncrementUpdate
    <3>2. CASE UNCHANGED queued /\ pc' = [pc EXCEPT ![n][P] = "progressing"]
      BY <1>5, <1>b, <3>1, <3>2 DEF IncrementUpdate
    <3>3. CASE queued' = [queued EXCEPT ![n][P] = TRUE]
               /\ pc' = [pc EXCEPT ![n][P] = "update"]
      BY <1>5, <1>b, <3>1, <3>3 DEF IncrementUpdate
    <3>4. QED
      BY <1>5, <3>2, <3>3 DEF IncrementUpdate, Requeue, Goto
  <2>3. QED
    BY <2>1, <2>2 DEF StallFacts
<1>6. ASSUME NEW n \in Nodes, NotifyProgressing(n, P) PROVE StallFacts'
  <2>1. ASSUME NEW m \in Nodes, m # n PROVE NodeFacts(m)'
    <3>1. /\ pc'[m] = pc[m] /\ queued'[m] = queued[m]
          /\ enactment'[m] = enactment[m] /\ snap'[m] = snap[m]
          /\ generation' = generation
      BY <1>6, <2>1 DEF NotifyProgressing, Goto, SetConds
    <3>2. QED
      BY <2>1, <3>1, <1>b, OtherNode
  <2>2. NodeFacts(n)'
    BY <1>6, <1>b DEF NotifyProgressing, Goto, SetConds
  <2>3. QED
    BY <2>1, <2>2 DEF StallFacts
<1>7. ASSUME NEW n \in Nodes, ApplyFinish(n, P) PROVE StallFacts'
  <2>1. ASSUME NEW m \in Nodes, m # n PROVE NodeFacts(m)'
    <3>1. /\ pc'[m] = pc[m] /\ queued'[m] = queued[m]
          /\ enactment'[m] = enactment[m] /\ snap'[m] = snap[m]
          /\ generation' = generation
      BY <1>7, <2>1 DEF ApplyFinish, Goto, SetConds
    <3>2. QED
      BY <2>1, <3>1, <1>b, OtherNode
  <2>2. NodeFacts(n)'
    <3>1. PICK ok \in BOOLEAN :
            enactment' = [enactment EXCEPT ![n] =
               [exists |-> enactment[n].exists, gen |-> enactment[n].gen,
                conds |-> IF ok THEN SetSuccess ELSE SetFailedToConfigure]]
      BY <1>7 DEF ApplyFinish, SetConds
    <3>2. HasVerdict(n)'
      BY <3>1, VerdictSetters
    <3>3. /\ pc[n][P] = "apply" /\ pc' = [pc EXCEPT ![n][P] = "decGet"]
          /\ UNCHANGED <<queued, snap, generation>>
      BY <1>7 DEF ApplyFinish, Goto
    <3>4. QED
      BY <1>b, <3>1, <3>2, <3>3
  <2>3. QED
    BY <2>1, <2>2 DEF StallFacts
<1>8. ASSUME NEW n \in Nodes, DecrementGet(n, P) PROVE StallFacts'
  <2>1. ASSUME NEW m \in Nodes, m # n PROVE NodeFacts(m)'
    <3>1. /\ pc'[m] = pc[m] /\ queued'[m] = queued[m]
          /\ enactment'[m] = enactment[m] /\ snap'[m] = snap[m]
          /\ generation' = generation
      BY <1>8, <2>1 DEF DecrementGet, Goto
    <3>2. QED
      BY <2>1, <3>1, <1>b, OtherNode
  <2>2. NodeFacts(n)'
    BY <1>8, <1>b DEF DecrementGet, Goto
  <2>3. QED
    BY <2>1, <2>2 DEF StallFacts
<1>9. ASSUME NEW n \in Nodes, DecrementUpdate(n, P) PROVE StallFacts'
  <2>1. ASSUME NEW m \in Nodes, m # n PROVE NodeFacts(m)'
    <3>1. /\ pc'[m] = pc[m] /\ queued'[m] = queued[m]
          /\ enactment'[m] = enactment[m] /\ snap'[m] = snap[m]
          /\ generation' = generation
      BY <1>9, <2>1 DEF DecrementUpdate, Goto
    <3>2. QED
      BY <2>1, <3>1, <1>b, OtherNode
  <2>2. NodeFacts(n)'
    <3>1. UNCHANGED <<enactment, generation, snap, queued>>
      BY <1>9 DEF DecrementUpdate
    <3>2. PICK st \in {"decGet", "update"} : pc' = [pc EXCEPT ![n][P] = st]
      BY <1>9 DEF DecrementUpdate, Goto
    <3>3. pc[n][P] = "decUpdate"
      BY <1>9 DEF DecrementUpdate
    <3>4. QED
      BY <1>b, <3>1, <3>2, <3>3
  <2>3. QED
    BY <2>1, <2>2 DEF StallFacts
<1>10. ASSUME NEW n \in Nodes, UpdatePolicyConditions(n, P) PROVE StallFacts'
  <2>1. ASSUME NEW m \in Nodes, m # n PROVE NodeFacts(m)'
    <3>1. /\ pc'[m] = pc[m] /\ queued'[m] = queued[m]
          /\ enactment'[m] = enactment[m] /\ snap'[m] = snap[m]
          /\ generation' = generation
      BY <1>10, <2>1 DEF UpdatePolicyConditions, Goto
    <3>2. QED
      BY <2>1, <3>1, <1>b, OtherNode
  <2>2. NodeFacts(n)'
    BY <1>10, <1>b DEF UpdatePolicyConditions, Goto
  <2>3. QED
    BY <2>1, <2>2 DEF StallFacts
<1>11. CASE UpdatePolicy
  <2>1. ASSUME NEW m \in Nodes PROVE NodeFacts(m)'
    BY <1>11, <1>b DEF UpdatePolicy
  <2>2. QED
    BY <2>1 DEF StallFacts
<1>12. CASE Tick
  <2>1. ASSUME NEW m \in Nodes PROVE NodeFacts(m)'
    BY <1>12, OtherNode DEF Tick
  <2>2. QED
    BY <2>1 DEF StallFacts
<1>13. ASSUME NEW n \in Nodes, ChangeLabels(n) PROVE StallFacts'
  BY <1>13 DEF ChangeLabels
<1>14. ASSUME NEW n \in Nodes, Crash(n) PROVE StallFacts'
  <2>1. ASSUME NEW m \in Nodes, m # n PROVE NodeFacts(m)'
    <3>1. /\ pc'[m] = pc[m] /\ queued'[m] = queued[m]
          /\ enactment'[m] = enactment[m] /\ snap'[m] = snap[m]
          /\ generation' = generation
      BY <1>14, <2>1 DEF Crash
    <3>2. QED
      BY <2>1, <3>1, <1>b, OtherNode
  <2>2. NodeFacts(n)'
    BY <1>14, <1>b DEF Crash
  <2>3. QED
    BY <2>1, <2>2 DEF StallFacts
<1>15. CASE UNCHANGED vars
  <2>1. ASSUME NEW m \in Nodes PROVE NodeFacts(m)'
    BY <1>15, OtherNode DEF vars
  <2>2. QED
    BY <2>1 DEF StallFacts
<1>16. ASSUME NEW n \in Nodes, NEW w \in Workers, Reconcile(n, w)
       PROVE StallFacts'
  <2>1. w = P
    BY <1>16, OnlyPolicyController
  <2>2. QED
    BY <1>16, <2>1, <1>1, <1>2, <1>3, <1>4, <1>5, <1>6, <1>7, <1>8, <1>9,
       <1>10 DEF Reconcile
<1>17. QED
  BY <1>11, <1>12, <1>13, <1>14, <1>15, <1>16 DEF Next, Environment

\* While node labels do not change, for any number of nodes, any budget,
\* any policy updates and handler restarts, a matching node whose
\* enactment reports no verdict for the current generation always has a
\* reconcile of the policy queued or running: saturation and conflicts
\* requeue, a policy update requeues every handler, and a restarted
\* handler reconciles every policy.
THEOREM NeverStalls ==
    ASSUME MaxLabelChanges = 0
    PROVE  Spec => []RolloutNotStalled
<1>1. StallInv => RolloutNotStalled
  BY DEF StallInv, StallFacts, NodeFacts, NotStalled, RolloutNotStalled
<1>2. QED
  BY StallInit, StallStep, <1>1, PTL DEF Spec

====
