----------------------------- MODULE NNCPRollout -----------------------------
(***************************************************************************)
(* The per-node reconcile of one NodeNetworkConfigurationPolicy (NNCP) by  *)
(* the handlers of a set of nodes, coordinated only through the policy's   *)
(* status in the object store (controllers/                                *)
(* nodenetworkconfigurationpolicy_controller.go).                          *)
(*                                                                         *)
(* Each handler runs the same reconciler in two controllers: one fed by    *)
(* policy create/generation events, one fed by label changes of its node   *)
(* (SetupWithManager).  Each controller has its own work queue, so on one  *)
(* node two reconciles of the policy may run at once.  A reconcile is a    *)
(* sequence of steps, one per store call or host call, tracked by pc.      *)
(*                                                                         *)
(* The policy status write is optimistic: an Update carries the resource   *)
(* version of the object it was computed from and is rejected if the       *)
(* policy was written since.  The set fresh holds the (node, controller)   *)
(* pairs whose last Get of the policy is still current; every write to the *)
(* policy empties it.                                                      *)
(***************************************************************************)
EXTENDS Integers, FiniteSets, EnactmentConditions, Selectors

CONSTANTS
    Nodes,              \* the nodes, each running one handler
    NodeSelector,       \* spec.nodeSelector of the policy
    LabelChoices,       \* the label maps a node can carry
    MaxUnavailableSpec, \* spec.maxUnavailable: [kind |-> "int"|"percent"|"absent", value |-> n]
    Window,             \* DesiredStateConfigurationTimeout + ProbesTotalTimeout, in ticks
    ApplyTimeout,       \* DesiredStateConfigurationTimeout: the engine's bound on an apply
    DecrementRetries,   \* retry.DefaultRetry.Steps
    MaxGeneration,      \* bound: spec updates of the policy
    MaxTime,            \* bound: clock ticks
    MaxCrashes,         \* bound: handler restarts
    MaxLabelChanges,    \* bound: changes of node labels
    UpdateTimeouts,     \* whether a status Update may fail after the store applied it
    NoTime              \* lastUnavailableNodeCountUpdate == nil

ASSUME ConstantsAssumption ==
    /\ Nodes # {} /\ IsFiniteSet(Nodes)
    /\ MaxUnavailableSpec.kind \in {"int", "percent", "absent"}
    /\ MaxUnavailableSpec.value \in Nat
    /\ Window \in Nat \ {0}
    /\ ApplyTimeout \in Nat /\ ApplyTimeout < Window
    /\ DecrementRetries \in Nat \ {0}
    /\ MaxGeneration \in Nat \ {0}
    /\ MaxTime \in Nat
    /\ MaxCrashes \in Nat
    /\ MaxLabelChanges \in Nat
    /\ UpdateTimeouts \in BOOLEAN
    /\ NoTime \notin Nat

\* The two controllers of one handler sharing the reconciler.
PolicyController == "nncp"
NodeController == "node"
Workers == {PolicyController, NodeController}

\* The steps of Reconcile, "idle" when the controller runs no reconcile.
PCs == {"idle", "init", "count", "incGet", "incUpdate",
        "progressing", "apply", "decGet", "decUpdate", "update"}

Times == {NoTime} \cup 0..MaxTime

VARIABLES
    generation,     \* policy metadata.generation
    unavailable,    \* policy status.unavailableNodeCount
    lastUpdate,     \* policy status.lastUnavailableNodeCountUpdate
    now,            \* the clock
    labels,         \* labels[n]: the labels of node n
    enactment,      \* enactment[n]: the NNCE <n>.<policy>
    queued,         \* queued[n][w]: the policy key is in controller w's queue
    pc,             \* pc[n][w]: the step of controller w's reconcile
    snap,           \* snap[n][w]: the policy as that reconcile last read it
    wasProgressing, \* wasProgressing[n][w]: IsProgressing(previousConditions)
    fresh,          \* pairs whose policy read carries the current version
    retries,        \* retries[n][w]: conflicts met by the deferred decrement
    crashes,        \* handler restarts so far
    labelChanges    \* node label changes so far

vars == <<generation, unavailable, lastUpdate, now, labels, enactment, queued,
          pc, snap, wasProgressing, fresh, retries, crashes, labelChanges>>

-----------------------------------------------------------------------------
(* Derived state.                                                          *)

Enactment == [exists : BOOLEAN, gen : 0..MaxGeneration, conds : ConditionList]

Snapshot == [gen : 0..MaxGeneration, last : Times, count : Int, start : 0..MaxTime]

\* The enactments of the policy as CountByPolicy lists them.
EnactmentList == [n \in {m \in Nodes : enactment[m].exists} |-> enactment[n]]

NodeMatches(n) == Matches(NodeSelector, labels[n])

MatchingNodes == {n \in Nodes : NodeMatches(n)}

\* node.MaxUnavailableNodeCount: an integer is taken as it is, a percentage
\* (default 50%) of the matching nodes is rounded up; the result is clamped
\* to the number of matching nodes and is at least 1.
MaxUnavailableNodeCount ==
    LET matching == Cardinality(MatchingNodes)
        pct      == IF MaxUnavailableSpec.kind = "absent" THEN 50
                    ELSE MaxUnavailableSpec.value
        scaled   == IF MaxUnavailableSpec.kind = "int"
                    THEN MaxUnavailableSpec.value
                    ELSE (pct * matching + 99) \div 100
        clamped  == IF scaled > matching THEN matching ELSE scaled
    IN  IF clamped < 1 THEN 1 ELSE clamped

\* shouldIncrementUnavailableNodeCount, on the policy read at the start of
\* the reconcile and the previous conditions of the enactment.
ShouldIncrement(n, w) ==
    /\ ~wasProgressing[n][w]
    /\ IF snap[n][w].last = NoTime THEN TRUE
       ELSE now - snap[n][w].last < Window

\* The policy as a Get returns it, into the locals of a reconcile.
ReadPolicy(n, w) ==
    [gen |-> generation, last |-> lastUpdate, count |-> unavailable,
     start |-> snap[n][w].start]

\* The locals of a reconcile that is not running; start is the time its
\* apply began.
NoSnapshot == [gen |-> 0, last |-> NoTime, count |-> 0, start |-> 0]

Goto(n, w, step) == pc' = [pc EXCEPT ![n][w] = step]

SetConds(n, c) ==
    enactment' = [enactment EXCEPT ![n] =
                     [exists |-> @.exists, gen |-> @.gen, conds |-> c]]

\* Result{RequeueAfter: nodeRunningUpdateRetryTime}: the key is queued again.
Requeue(n, w) == queued' = [queued EXCEPT ![n][w] = TRUE]

-----------------------------------------------------------------------------
(* Reconcile, one action per step.                                         *)

\* The work queue hands the policy key to an idle controller, which Gets the
\* policy; policyconditions.Reset then writes the policy status.
GetPolicy(n, w) ==
    /\ pc[n][w] = "idle"
    /\ queued[n][w]
    /\ queued' = [queued EXCEPT ![n][w] = FALSE]
    /\ snap' = [snap EXCEPT ![n][w] = ReadPolicy(n, w)]
    /\ fresh' = {}
    /\ Goto(n, w, "init")
    /\ UNCHANGED <<generation, unavailable, lastUpdate, now, labels, enactment,
                   wasProgressing, retries, crashes, labelChanges>>

\* initializeEnactment creates the enactment or resets its conditions, and
\* records the policy generation read; the selector check then writes c.
Initialized(n, w, c) == [exists |-> TRUE, gen |-> snap[n][w].gen, conds |-> c]

\* Then UnmatchedNodeLabels: NotifyNodeSelectorNotMatching and return, or
\* NotifyMatching.  A failed Get of the node is notified and yields an empty
\* set of unmatched labels, so the reconcile goes on as for a match.
InitializeEnactment(n, w) ==
    /\ pc[n][w] = "init"
    /\ wasProgressing' = [wasProgressing EXCEPT ![n][w] =
                            enactment[n].exists /\ IsProgressing(enactment[n].conds)]
    /\ \/ /\ ~NodeMatches(n)
          /\ enactment' = [enactment EXCEPT ![n] =
                              Initialized(n, w, SetNotMatching)]
          /\ Goto(n, w, "update")
       \/ /\ NodeMatches(n)
          /\ enactment' = [enactment EXCEPT ![n] =
                              Initialized(n, w, SetMatching(EmptyConditions))]
          /\ Goto(n, w, "count")
       \/ /\ enactment' = [enactment EXCEPT ![n] =
                              Initialized(n, w, SetMatching(SetNodeSelectorFailure))]
          /\ Goto(n, w, "count")
    /\ UNCHANGED <<generation, unavailable, lastUpdate, now, labels, queued,
                   snap, fresh, retries, crashes, labelChanges>>

\* CountByPolicy: abort on an enactment failing for the generation read;
\* otherwise decide whether to take a slot of the maxUnavailable budget.
CountAndAdmit(n, w) ==
    /\ pc[n][w] = "count"
    /\ \/ /\ Failed(EnactmentList, snap[n][w].gen) > 0
          /\ SetConds(n, SetConfigurationAborted)
          /\ Goto(n, w, "update")
       \/ /\ Failed(EnactmentList, snap[n][w].gen) = 0
          /\ ShouldIncrement(n, w)
          /\ Goto(n, w, "incGet")
          /\ UNCHANGED enactment
       \/ /\ Failed(EnactmentList, snap[n][w].gen) = 0
          /\ ~ShouldIncrement(n, w)
          /\ Goto(n, w, "progressing")
          /\ UNCHANGED enactment
    /\ UNCHANGED <<generation, unavailable, lastUpdate, now, labels, queued,
                   snap, wasProgressing, fresh, retries, crashes, labelChanges>>

\* Variants of IncrementGet with a plausible slip: the budget compared with
\* > instead of >=, and the saturated case returning without a requeue.
IncrementGetOffByOne(n, w) ==
    /\ pc[n][w] = "incGet"
    /\ snap' = [snap EXCEPT ![n][w] = ReadPolicy(n, w)]
    /\ fresh' = fresh \cup {<<n, w>>}
    /\ \/ /\ unavailable > MaxUnavailableNodeCount
          /\ Requeue(n, w)
          /\ Goto(n, w, "update")
       \/ /\ unavailable <= MaxUnavailableNodeCount
          /\ Goto(n, w, "incUpdate")
          /\ UNCHANGED queued
    /\ UNCHANGED <<generation, unavailable, lastUpdate, now, labels, enactment,
                   wasProgressing, retries, crashes, labelChanges>>

IncrementGetNoRequeue(n, w) ==
    /\ pc[n][w] = "incGet"
    /\ snap' = [snap EXCEPT ![n][w] = ReadPolicy(n, w)]
    /\ fresh' = fresh \cup {<<n, w>>}
    /\ Goto(n, w, IF unavailable >= MaxUnavailableNodeCount
                  THEN "update" ELSE "incUpdate")
    /\ UNCHANGED <<generation, unavailable, lastUpdate, now, labels, enactment,
                   queued, wasProgressing, retries, crashes, labelChanges>>

\* incrementUnavailableNodeCount, first half: Get the policy and compare the
\* count with the budget; a saturated budget is a Conflict, requeued.
IncrementGet(n, w) ==
    /\ pc[n][w] = "incGet"
    /\ snap' = [snap EXCEPT ![n][w] = ReadPolicy(n, w)]
    /\ fresh' = fresh \cup {<<n, w>>}
    /\ \/ /\ unavailable >= MaxUnavailableNodeCount
          /\ Requeue(n, w)
          /\ Goto(n, w, "update")
       \/ /\ unavailable < MaxUnavailableNodeCount
          /\ Goto(n, w, "incUpdate")
          /\ UNCHANGED queued
    /\ UNCHANGED <<generation, unavailable, lastUpdate, now, labels, enactment,
                   wasProgressing, retries, crashes, labelChanges>>

\* Variant of IncrementUpdate with a plausible slip: the count written
\* without the resource version read (a merge patch instead of an Update),
\* so a write from a stale read is accepted.
IncrementUpdateNoVersionCheck(n, w) ==
    /\ pc[n][w] = "incUpdate"
    /\ unavailable' = snap[n][w].count + 1
    /\ lastUpdate' = now
    /\ fresh' = {}
    /\ Goto(n, w, "progressing")
    /\ UNCHANGED <<generation, now, labels, enactment, queued, snap,
                   wasProgressing, retries, crashes, labelChanges>>

\* Second half: Status().Update of count + 1, rejected on a stale version
\* (a Conflict, requeued after 5 s).  With UpdateTimeouts the store may
\* apply the write and still return an error (a timeout): the reconcile
\* returns it before the decrement is deferred, so the slot it took is
\* never given back by this reconcile, and the key is requeued.
IncrementUpdate(n, w) ==
    /\ pc[n][w] = "incUpdate"
    /\ \/ /\ <<n, w>> \in fresh
          /\ unavailable' = snap[n][w].count + 1
          /\ lastUpdate' = now
          /\ fresh' = {}
          /\ Goto(n, w, "progressing")
          /\ UNCHANGED queued
       \/ /\ UpdateTimeouts
          /\ <<n, w>> \in fresh
          /\ unavailable' = snap[n][w].count + 1
          /\ lastUpdate' = now
          /\ fresh' = {}
          /\ Requeue(n, w)
          /\ Goto(n, w, "update")
       \/ /\ <<n, w>> \notin fresh
          /\ Requeue(n, w)
          /\ Goto(n, w, "update")
          /\ UNCHANGED <<unavailable, lastUpdate, fresh>>
    /\ UNCHANGED <<generation, now, labels, enactment, snap, wasProgressing,
                   retries, crashes, labelChanges>>

\* NotifyProgressing, then the desired state goes to the host.
NotifyProgressing(n, w) ==
    /\ pc[n][w] = "progressing"
    /\ SetConds(n, SetProgressing)
    /\ Goto(n, w, "apply")
    /\ snap' = [snap EXCEPT ![n][w] =
                   [gen |-> @.gen, last |-> @.last, count |-> @.count,
                    start |-> now]]
    /\ UNCHANGED <<generation, unavailable, lastUpdate, now, labels, queued,
                   wasProgressing, fresh, retries, crashes, labelChanges>>

\* ApplyDesiredState returns: NotifySuccess, or NotifyFailedToConfigure after
\* the engine rolled back.  Then the deferred decrement starts.
ApplyFinish(n, w) ==
    /\ pc[n][w] = "apply"
    /\ \E ok \in BOOLEAN :
          SetConds(n, IF ok THEN SetSuccess ELSE SetFailedToConfigure)
    /\ Goto(n, w, "decGet")
    /\ UNCHANGED <<generation, unavailable, lastUpdate, now, labels, queued,
                   snap, wasProgressing, fresh, retries, crashes, labelChanges>>

\* decrementUnavailableNodeCount, inside RetryOnConflict: Get the policy; a
\* count already at 0 is an error that ends the retries.
DecrementGet(n, w) ==
    /\ pc[n][w] = "decGet"
    /\ snap' = [snap EXCEPT ![n][w] = ReadPolicy(n, w)]
    /\ fresh' = fresh \cup {<<n, w>>}
    /\ Goto(n, w, IF unavailable <= 0 THEN "update" ELSE "decUpdate")
    /\ UNCHANGED <<generation, unavailable, lastUpdate, now, labels, enactment,
                   queued, wasProgressing, retries, crashes, labelChanges>>

\* Variant of DecrementUpdate with a plausible slip: a conflict is retried
\* without the retry limit.
DecrementUpdateUnbounded(n, w) ==
    /\ pc[n][w] = "decUpdate"
    /\ \/ /\ <<n, w>> \in fresh
          /\ unavailable' = snap[n][w].count - 1
          /\ lastUpdate' = now
          /\ fresh' = {}
          /\ Goto(n, w, "update")
          /\ UNCHANGED retries
       \/ /\ <<n, w>> \notin fresh
          /\ retries' = [retries EXCEPT ![n][w] = @ + 1]
          /\ Goto(n, w, "decGet")
          /\ UNCHANGED <<unavailable, lastUpdate, fresh>>
    /\ UNCHANGED <<generation, now, labels, enactment, queued, snap,
                   wasProgressing, crashes, labelChanges>>

\* Status().Update of count - 1; a conflict is retried up to the limit of
\* retry.DefaultRetry, after which the decrement is given up.
DecrementUpdate(n, w) ==
    /\ pc[n][w] = "decUpdate"
    /\ \/ /\ <<n, w>> \in fresh
          /\ unavailable' = snap[n][w].count - 1
          /\ lastUpdate' = now
          /\ fresh' = {}
          /\ Goto(n, w, "update")
          /\ UNCHANGED retries
       \/ /\ <<n, w>> \notin fresh
          /\ retries' = [retries EXCEPT ![n][w] = @ + 1]
          /\ Goto(n, w, IF retries[n][w] + 1 < DecrementRetries
                        THEN "decGet" ELSE "update")
          /\ UNCHANGED <<unavailable, lastUpdate, fresh>>
    /\ UNCHANGED <<generation, now, labels, enactment, queued, snap,
                   wasProgressing, crashes, labelChanges>>

\* The deferred policyconditions.Update writes the policy status, and the
\* reconcile returns: its locals are gone.
UpdatePolicyConditions(n, w) ==
    /\ pc[n][w] = "update"
    /\ fresh' = {}
    /\ Goto(n, w, "idle")
    /\ snap' = [snap EXCEPT ![n][w] = NoSnapshot]
    /\ wasProgressing' = [wasProgressing EXCEPT ![n][w] = FALSE]
    /\ retries' = [retries EXCEPT ![n][w] = 0]
    /\ UNCHANGED <<generation, unavailable, lastUpdate, now, labels, enactment,
                   queued, crashes, labelChanges>>

-----------------------------------------------------------------------------
(* The environment.                                                        *)

\* A user changes the policy spec: the generation is bumped and the event
\* passes onCreateOrUpdateWithDifferentGeneration on every handler.
UpdatePolicy ==
    /\ generation < MaxGeneration
    /\ generation' = generation + 1
    /\ fresh' = {}
    /\ queued' = [n \in Nodes |-> [queued[n] EXCEPT ![PolicyController] = TRUE]]
    /\ UNCHANGED <<unavailable, lastUpdate, now, labels, enactment, pc, snap,
                   wasProgressing, retries, crashes, labelChanges>>

\* The labels of node n change: onLabelsUpdatedForThisNode enqueues every
\* policy on the node controller of that node's handler.
ChangeLabels(n) ==
    /\ labelChanges < MaxLabelChanges
    /\ labelChanges' = labelChanges + 1
    /\ \E l \in LabelChoices \ {labels[n]} : labels' = [labels EXCEPT ![n] = l]
    /\ queued' = [queued EXCEPT ![n][NodeController] = TRUE]
    /\ UNCHANGED <<generation, unavailable, lastUpdate, now, enactment, pc,
                   snap, wasProgressing, fresh, retries, crashes>>

\* Time passes in units of the hysteresis window's order (minutes): a
\* store call takes no time at that scale, so time passes only while every
\* controller is idle or waiting on the engine, and never beyond the
\* engine's timeout of an apply in progress.
Tick ==
    /\ now < MaxTime
    /\ \A n \in Nodes, w \in Workers :
          /\ pc[n][w] \in {"idle", "apply"}
          /\ pc[n][w] = "apply" => now + 1 - snap[n][w].start <= ApplyTimeout
    /\ now' = now + 1
    /\ UNCHANGED <<generation, unavailable, lastUpdate, labels, enactment,
                   queued, pc, snap, wasProgressing, fresh, retries, crashes,
                   labelChanges>>

\* The handler of node n dies and restarts: its reconciles are lost, and the
\* new process, once it holds the node lock, reconciles every policy.
Crash(n) ==
    /\ crashes < MaxCrashes
    /\ crashes' = crashes + 1
    /\ pc' = [pc EXCEPT ![n] = [w \in Workers |-> "idle"]]
    /\ queued' = [queued EXCEPT ![n] = [w \in Workers |-> w = PolicyController]]
    /\ fresh' = {p \in fresh : p[1] # n}
    /\ snap' = [snap EXCEPT ![n] = [w \in Workers |-> NoSnapshot]]
    /\ wasProgressing' = [wasProgressing EXCEPT ![n] = [w \in Workers |-> FALSE]]
    /\ retries' = [retries EXCEPT ![n] = [w \in Workers |-> 0]]
    /\ UNCHANGED <<generation, unavailable, lastUpdate, now, labels, enactment,
                   labelChanges>>

-----------------------------------------------------------------------------

Init ==
    /\ generation = 1
    /\ unavailable = 0
    /\ lastUpdate = NoTime
    /\ now = 0
    /\ labels \in [Nodes -> LabelChoices]
    /\ enactment = [n \in Nodes |->
                      [exists |-> FALSE, gen |-> 0, conds |-> EmptyConditions]]
    /\ queued = [n \in Nodes |-> [w \in Workers |-> w = PolicyController]]
    /\ pc = [n \in Nodes |-> [w \in Workers |-> "idle"]]
    /\ snap = [n \in Nodes |-> [w \in Workers |-> NoSnapshot]]
    /\ wasProgressing = [n \in Nodes |-> [w \in Workers |-> FALSE]]
    /\ fresh = {}
    /\ retries = [n \in Nodes |-> [w \in Workers |-> 0]]
    /\ crashes = 0
    /\ labelChanges = 0

Reconcile(n, w) ==
    \/ GetPolicy(n, w)
    \/ InitializeEnactment(n, w)
    \/ CountAndAdmit(n, w)
    \/ IncrementGet(n, w)
    \/ IncrementUpdate(n, w)
    \/ NotifyProgressing(n, w)
    \/ ApplyFinish(n, w)
    \/ DecrementGet(n, w)
    \/ DecrementUpdate(n, w)
    \/ UpdatePolicyConditions(n, w)

Environment ==
    \/ UpdatePolicy
    \/ Tick
    \/ \E n \in Nodes : ChangeLabels(n) \/ Crash(n)

Next ==
    \/ \E n \in Nodes, w \in Workers : Reconcile(n, w)
    \/ Environment

Spec == Init /\ [][Next]_vars

-----------------------------------------------------------------------------
(* Properties.                                                             *)

TypeOK ==
    /\ generation \in 1..MaxGeneration
    /\ unavailable \in Int
    /\ lastUpdate \in Times
    /\ now \in 0..MaxTime
    /\ labels \in [Nodes -> LabelChoices]
    /\ enactment \in [Nodes -> Enactment]
    /\ queued \in [Nodes -> [Workers -> BOOLEAN]]
    /\ pc \in [Nodes -> [Workers -> PCs]]
    /\ snap \in [Nodes -> [Workers -> Snapshot]]
    /\ wasProgressing \in [Nodes -> [Workers -> BOOLEAN]]
    /\ fresh \subseteq Nodes \X Workers
    /\ retries \in [Nodes -> [Workers -> 0..DecrementRetries]]
    /\ crashes \in 0..MaxCrashes
    /\ labelChanges \in 0..MaxLabelChanges

\* status.unavailableNodeCount stays between 0 and maxUnavailable whatever
\* the handlers of all nodes do.  Every write is the value read plus or
\* minus one, so the comparison with maxUnavailable before the increment
\* and the check for a positive count before the decrement keep it there on
\* their own, whether or not a write from a stale read is rejected.
UnavailableWithinBudget ==
    0 <= unavailable /\ unavailable <= MaxUnavailableNodeCount

\* The enactment of n reports a verdict (Available, Failing or Aborted) for
\* the current generation of the policy.
ReportsVerdict(n) ==
    /\ enactment[n].exists
    /\ enactment[n].gen = generation
    /\ \E t \in {"Available", "Failing", "Aborted"} :
          enactment[n].conds[t] = "True"

\* A rollout never stalls silently: a node whose labels match the policy
\* and whose enactment has no verdict for the current generation has a
\* reconcile of the policy queued or running.  Saturation, a conflict on the
\* count, a policy update and a restart must each leave a reconcile behind.
RolloutNotStalled ==
    \A n \in Nodes :
        NodeMatches(n) /\ ~ReportsVerdict(n) =>
            \E w \in Workers : queued[n][w] \/ pc[n][w] # "idle"

\* The nodes whose host is being reconfigured by ApplyDesiredState.
Applying == {n \in Nodes : \E w \in Workers : pc[n][w] = "apply"}

\* The design's cluster-wide budget: at most maxUnavailable nodes apply the
\* policy at once.  The increment of status.unavailableNodeCount is meant
\* to enforce it; the deferred decrement and the hysteresis clause of
\* shouldIncrementUnavailableNodeCount decide whether it does.
ApplyingWithinBudget == Cardinality(Applying) <= MaxUnavailableNodeCount

\* The design: reconciles of one policy on one node are strictly sequential,
\* so one host never runs two ApplyDesiredState of the policy at once.
HostExclusive ==
    \A n \in Nodes : Cardinality({w \in Workers : pc[n][w] = "apply"}) <= 1

\* The design: a node whose labels do not match the selector gets no host
\* action, a failure to read the node included.
ApplyOnlyOnMatchingNodes ==
    \A n \in Nodes, w \in Workers :
        pc[n][w] \in {"progressing", "apply"} => NodeMatches(n)

\* The design (capacity admission, step 2): a handler that finds the budget
\* saturated notifies its enactment Pending and requeues, so a matching
\* node that waits for a slot, with no reconcile running, shows Pending for
\* the current generation.
WaitingNodeReportsPending ==
    \A n \in Nodes :
        /\ NodeMatches(n)
        /\ enactment[n].exists /\ enactment[n].gen = generation
        /\ ~ReportsVerdict(n)
        /\ \A w \in Workers : pc[n][w] = "idle"
        /\ \E w \in Workers : queued[n][w]
        => enactment[n].conds["Pending"] = "True"

\* The design's invariant: status.unavailableNodeCount returns to 0 once no
\* handler is mid-apply.  Checked in the states where every reconcile has
\* returned and no key is queued, the states the handlers rest in.
CountReturnsToZero ==
    (\A n \in Nodes, w \in Workers : pc[n][w] = "idle" /\ ~queued[n][w])
        => unavailable = 0

-----------------------------------------------------------------------------
(* Refinement: the count protocol implements a counting semaphore.         *)

Slots == INSTANCE SlotCounter
             WITH count <- unavailable, budget <- MaxUnavailableNodeCount

\* The handlers of all nodes together use status.unavailableNodeCount as a
\* counting semaphore of maxUnavailable slots: every change of the count,
\* by any reconcile, crash or retry, is one increment from below the budget
\* (incrementUnavailableNodeCount) or one decrement from above zero
\* (decrementUnavailableNodeCount), and the budget itself never moves.  A
\* write computed from a read that another write overtook would show as a
\* jump or a step from the wrong side of a bound.
ImplementsSlotCounter == Slots!Spec

=============================================================================
