# TLA+ models of the node network configuration controllers

This directory holds TLA+ specifications of the controllers in `src/`, the TLC
configurations that model-check them, and TLAPS proofs of their main invariants.

## The system and its parts

One binary runs in one of three roles.

* **Handler.** One per node.
  * Its `NodeNetworkConfigurationPolicyReconciler`
    (`src/controllers/nodenetworkconfigurationpolicy_controller.go`) applies a
    policy's desired state to the host.
  * It reports the outcome in the node's enactment (NNCE, named
    `<node>.<policy>`).
  * Handlers coordinate only through the policy status in the object store:
    `status.unavailableNodeCount` admits at most `maxUnavailable` nodes at a
    time. It is updated by read-compare-write with optimistic concurrency
    (resource versions).
* **Operator.** Its `NMStateReconciler`
  (`src/controllers/operator/nmstate_controller.go`) keeps the `NMState`
  resource a singleton and renders the handler's manifests from it. These are
  the CRDs, the namespace, the RBAC and the handler itself.
* **Webhook.** Not in `src/`.

The handler and operator interact only through the deployed manifests. Neither
reads the other's state, so they are modelled separately.

| Part | Source | Module | Status |
|---|---|---|---|
| NNCP reconcile, both controllers, the count protocol | `nodenetworkconfigurationpolicy_controller.go` | `NNCPRollout`; abstract count `SlotCounter` | partly (see below) |
| Node selector | `pkg/selectors/labels.go` | `Selectors` | modelled |
| Enactment conditions, setters, counter | vendored `api/shared` types; `pkg/enactmentconditions` and `pkg/enactmentstatus` are not under `src/` | `EnactmentConditions` | modelled (setters and counter from the design and `counter_test.go`) |
| maxUnavailable budget (`node.MaxUnavailableNodeCount`) | not under `src/` | `NNCPRollout` | modelled from the design |
| NMState operator | `controllers/operator/nmstate_controller.go` | `NMStateOperator` | modelled |
| Handler file lock, startup, profiler | `main.go` | — | not modelled (see below) |
| Generated deepcopy | `pkg/apis/.../zz_generated.deepcopy.go` | — | not modelled (generated) |

## NNCPRollout: the handlers of N nodes and one policy

**State.**

* The policy: `generation`, `unavailable` (the count) and `lastUpdate`.
* Per node: its `labels` and its `enactment` (exists, policy generation,
  condition vector).
* Per (node, controller) pair:
  * `queued`: the key is in that controller's work queue;
  * `pc`: the reconcile's step;
  * `snap`: the policy as that reconcile read it;
  * `wasProgressing`: the previous conditions were Progressing;
  * `retries`: conflicts met by the decrement.
* `fresh`: the pairs whose last read of the policy is still current. Every
  write to the policy empties it. This is how the store's resource-version
  check is modelled: an Update succeeds only from a fresh read.

**The two controllers.** `SetupWithManager` registers the reconciler twice:

* one controller fed by policy create and generation events (`UpdatePolicy`);
* one fed by label changes of the handler's own node (`ChangeLabels`).

Each controller has its own queue, so the model has two workers per node,
`"nncp"` and `"node"`.

**Actions.** One action per store or host call of `Reconcile`, in code order.
The guards follow the code's early returns.

| Action | Code |
|---|---|
| `GetPolicy` | Get, then `policyconditions.Reset`, a policy write (lines 121-136) |
| `InitializeEnactment` | `initializeEnactment` creates or resets the enactment and records the generation read (254-288). Then the selector check: NotMatching and return, a selector failure that goes on, or NotifyMatching (151-169) |
| `CountAndAdmit` | CountByPolicy, the abort on a failing enactment of the generation read, and `shouldIncrementUnavailableNodeCount` (171-192) |
| `IncrementGet` | Get and compare with the budget. Saturation is a Conflict, requeued after 5 s (323-335, 186-188) |
| `IncrementUpdate` | `Status().Update` of count+1, a Conflict on a stale read (336-343). With `UpdateTimeouts`, an Update applied by the store can still return an error: the reconcile returns before deferring the decrement |
| `NotifyProgressing`, `ApplyFinish` | NotifyProgressing, the engine's apply (success, or failure after rollback), NotifySuccess or NotifyFailedToConfigure (195-206) |
| `DecrementGet`, `DecrementUpdate` | the deferred decrement inside `RetryOnConflict(retry.DefaultRetry)` (345-363). It runs whether or not the reconcile incremented, and gives up after `DecrementRetries` conflicts |
| `UpdatePolicyConditions` | the deferred `policyconditions.Update`, a policy write. The reconcile ends |
| `UpdatePolicy`, `ChangeLabels`, `Tick`, `Crash` | the environment: a spec update, a label change, the clock, a handler restart |

**Abstractions.**

* Time is counted in ticks of the hysteresis window's order. Store calls take
  no time at that scale.
* The desired state, reasons and messages are left out.
* The engine is a nondeterministic success or failure.
* The budget `MaxUnavailableNodeCount`, whose source is not under `src/`,
  follows the design. An integer is taken as is; a percentage (default 50%) of
  the matching nodes is rounded up. The result is clamped to the matching nodes
  and floored at 1.

**Not modelled.**

* `forceNNSRefresh`, a label write on the NodeNetworkState that no other step
  reads.
* Non-conflict store errors, except one. Each returns an error and is requeued
  by the work queue. The exception is modelled as a fault: an increment Update
  that times out after the store applied it (constant `UpdateTimeouts`). The
  count is then raised, and no decrement follows.

**The abstract count (`SlotCounter`).** `status.unavailableNodeCount` promises
the handlers a counting semaphore of `maxUnavailable` slots:

* `Acquire` takes a slot only while one is free.
* `Release` gives one back only while one is held.
* The count moves by one at a time, and the budget never changes.

`NNCPRollout` instantiates it with `count <- unavailable` and
`budget <- MaxUnavailableNodeCount`. `ImplementsSlotCounter` (`Slots!Spec`)
says every step of the handlers is a slot-counter step or leaves the count
alone. That includes conflicting writes, restarts and increment timeouts. A
write computed from a stale read that the store accepted would break it
whenever the count has moved since the read: the write then jumps by more
than one or back the wrong way. A stale write of the value the count already
has is a stutter and passes; `UnavailableWithinBudget` alone catches none of
these, since every write is the value read plus or minus one under the guard
at line 333 or 353.

## NMStateOperator: the singleton reconciler

**State.**

* The live NMState UIDs, each with a name and a creation stamp in whole
  seconds.
* The work queue of names.
* The worker's step, the list it read and the instance it got.
* The deployed components, and the controller owners of the two owned ones
  (RBAC and handler).
* A counter of failed store calls.

**Actions.**

* `ListInstances`.
* `GetAndDecide`: Get, with NotFound returning without requeue. Then the
  singleton decision: the first item of the sorted list is any of the
  earliest-created, because the cache list has no order and `sort.Slice` is not
  stable.
* `DeleteInstance`: by name. Its error is only logged.
* `Apply(c)` for the four `renderAndApply` calls. An error is returned and
  requeued.
* The environment:
  * users create and delete NMState objects, and each event enqueues the name;
  * the garbage collector removes an owned component whose owners are all
    gone. Owned objects are not watched, so collection enqueues nothing.
* One worker, the controller's default.

**Fairness (`FairSpec`).** The worker's steps (`Worker`) and each garbage
collection are weakly fair:

* controller-runtime hands a queued key to an idle worker, and `Reconcile`
  runs to its end;
* the cluster's garbage collector removes every dependent whose owners are all
  gone.

Users are not fair: they may stop at any time.

## Runs

Every run has `CHECK_DEADLOCK FALSE`. Once the bounded environment is spent
and every queue is empty, the controllers wait for events; that is their
normal state, not a deadlock.

| Run | Expect | Property | What it shows |
|---|---|---|---|
| `budget` | pass | `TypeOK`, `UnavailableWithinBudget` | two nodes, both controllers, one label change: the count stays in `[0, budget]` |
| `restart` | pass | `UnavailableWithinBudget`, `RolloutNotStalled`, `ImplementsSlotCounter` | budget two, a policy update, a handler restart, time past the hysteresis window, two retries and increment timeouts: the count stays in `[0, budget]`, a matching node without a verdict always has a reconcile queued or running, and the count implements `SlotCounter` |
| `operator_recreate` | pass | `TypeOK`, `AtRestDeployed`, `Settles` | delete, re-create under a new UID, garbage collection and two failed calls: at rest, the handler is deployed and owned by a live instance; under `FairSpec` the operator comes to rest for good in that state |
| `operator_singleton` | pass | `DeletesOnlyLaterInstances` | two names: the operator deletes only in favour of a listed instance created no later |
| `stalled` | violation | `RolloutNotStalled` | see findings |
| `host_exclusive` | violation | `HostExclusive` | see findings |
| `applying_budget` | violation | `ApplyingWithinBudget` | see findings |
| `selector_failure` | violation | `ApplyOnlyOnMatchingNodes` | see findings |
| `budget_shrinks` | violation | `UnavailableWithinBudget` | see findings |
| `pending` | violation | `WaitingNodeReportsPending` | see findings |
| `count_leak` | violation | `CountReturnsToZero` | see findings |
| `operator_tie` | violation | `SingletonAtRest` | see findings |

**Bounds.**

* Two nodes suffice for every race on the count: a budget of one and two
  contenders. Both controllers of each handler run. `restart` uses a budget of
  two, so the refinement sees the count at 0, 1 and 2 and both boundaries.
* Two generations and two or three ticks reach a stale generation, the
  hysteresis window (`Window = 2`) expiring, and the engine timeout
  (`ApplyTimeout = 1`).
* `count_leak` uses the code's real retry limit of 5.
* The operator runs use two UIDs. Two of one name covers re-creation; one each
  of two names covers the singleton race. One or two failures exercise every
  error path.

**Mutants.** Each property of a passing run is broken by a plausible slip in
the code it checks:

* `>` for `>=` at the budget (`IncrementGetOffByOne`);
* no requeue on saturation (`IncrementGetNoRequeue`);
* unbounded decrement retries (`DecrementUpdateUnbounded`);
* a count write without the resource-version check (`IncrementUpdateNoVersionCheck`),
  caught by `ImplementsSlotCounter`;
* NotFound requeued as an error (`GetAndDecideRequeueNotFound`), caught by
  `Settles`;
* no NotFound return (`GetAndDecideNoNotFound`);
* a swallowed apply error (`ApplyNoRequeue`);
* a flipped sort comparator (`EarliestFlipped`).

## Findings

1. **Two controllers, one key.** `SetupWithManager` (lines 234-247) registers
   the reconciler in two controllers with separate queues. Two reconciles of
   the same policy run at once on one node, and both can apply to the host.
   This contradicts the design's "strictly sequential" guarantee.
2. **Stale generation.** A node-controller reconcile that read generation 1 can
   finish after the policy-controller reconcile of generation 2. It then leaves
   the enactment at generation 1 with nothing queued (line 286). The node never
   reports a verdict for the current generation.
3. **Hysteresis skips admission.** `shouldIncrementUnavailableNodeCount`
   (lines 318-320) increments only while the last count update is recent, as
   the design's section 4.4(b) prescribes. Once a rollout has been quiet for
   the window, the next generation's reconciles all skip the increment and
   apply at once, more than `maxUnavailable` of them, against the cluster-wide
   budget of sections 4.4 and 5. The design contradicts itself here. The
   unconditional deferred decrement (line 193) then finds a count of 0 and
   gives up; with a third node holding a slot it would return that node's
   slot instead, which no run isolates.
4. **Selector failure applies.** A failed Get of the node yields no unmatched
   labels (labels.go line 43), so the node applies.
5. **Budget shrinks.** A label change shrinks the budget below the count
   already admitted, which breaks the design's invariant 3.
6. **No Pending.** Saturation requeues without notifying Pending (line 188).
7. **Count leak.** Competing writes exhaust the decrement's 5 retries
   (line 348). The count stays above 0 for good, which breaks the design's
   invariant 4.
8. **Singleton tie.** Two NMState objects created in the same second can both
   survive the singleton rule (operator line 90).

## Proofs

`tlapm` checks every obligation of the three proof modules:
`NNCPRolloutProofs`, `NNCPRolloutStallProofs` and `NMStateOperatorProofs`. They
reach no RECURSIVE operator. The constants satisfy the modules' assumptions
(`ConstantsAssumption`, `OperatorAssumption`) and are otherwise arbitrary.

### `NNCPRolloutProofs`

**`TypeCorrect`: `Spec => []TypeOK`**, for all constants satisfying
`ConstantsAssumption`. `TypeOK` alone is not inductive, because `retries` could
step past `DecrementRetries`. The proof uses
`TypeInv == TypeOK /\ RetriesBelowLimit`. `RetriesBelowLimit` says:

* a reconcile at the decrement steps has fewer than `DecrementRetries`
  conflicts;
* one that has not reached the decrement has none.

The step lemma `TypeInvStep` has one case per action and one step per variable
the action writes.

**`BudgetRespected`: `MaxLabelChanges = 0 => (Spec => []UnavailableWithinBudget)`.**
The inductive invariant adds three conjuncts:

* `FreshReadsCurrent`: a fresh read holds the current count.
* `AdmittedBelowBudget`: a reconcile about to write count+1 read a count below
  the budget.
* `DecrementAboveZero`: one about to write count-1 read a positive count.

Together they say that every write that can succeed was computed from the
current value and passed its guard. Freshness is more than this bound needs
(every write is the value read plus or minus one under its guard, and the
`IncrementUpdateNoVersionCheck` mutant keeps the bound); the proof carries it
because `RefinesSlotCounter` needs the same invariant.

The assumption `MaxLabelChanges = 0` is needed: with label changes the budget
itself moves and the property fails (the `budget_shrinks` finding). Supporting
lemmas:

* `BudgetPositive`: the budget is at least 1;
* `BudgetFixed`: the budget is constant when labels are;
* `SetCondsTyped`, `ReadPolicyTyped`: helper typing.

**`RefinesSlotCounter`: `MaxLabelChanges = 0 => (Spec => ImplementsSlotCounter)`.**
The argument has three parts:

* The initial count is 0 and the budget positive (`BudgetPositive`), so
  `Init` maps to `Slots!Init`.
* The budget stays fixed (`BudgetFixed`).
* Lemma `CountStep`: from the budget invariant, every step either leaves the
  count alone or is one of two moves:
  * count+1 from below the budget: a fresh increment, applied or timed out;
  * count-1 from above zero: a fresh decrement.

Freshness is what makes the written value the current one plus or minus one.

**`CountNeverNegative`: `Spec => [](unavailable >= 0)`**, for all constants,
with label changes, restarts and increment timeouts included. The inductive
invariant `FloorInv` is `TypeInv` plus three facts:

* the count is at least 0;
* `FreshReadsCurrent`;
* `DecrementAboveZero`.

None of them mentions the budget, so no step needs it, `ChangeLabels`
included. Together with `budget_shrinks` this separates the two halves of
`UnavailableWithinBudget`:

* the lower bound holds always;
* only the upper bound depends on the labels.

`FloorQuietStep` plays the part of `QuietStep`.

### `NNCPRolloutStallProofs`

**`NeverStalls`: `MaxLabelChanges = 0 => (Spec => []RolloutNotStalled)`.** The
inductive invariant `StallInv` is `TypeInv` plus per-node facts:

* `GenSeen(n)` is the generation the policy controller's reconcile works on:
  the snapshot before the enactment is initialized, the enactment's afterwards.
* `NodeControllerIdle`: with labels fixed, the node controller never runs.
* `StaleReadQueued`: a reconcile that read an older generation has a newer
  event queued behind it.
* `EnactmentExists`: past initialization the enactment exists.
* `VerdictOrQueued`: a matching node's reconcile past the apply has written a verdict, or a
  requeue is pending.

The step lemma has one case per action. Each case has two parts:

* the other nodes, by the frame lemma `OtherNode`;
* the acting node, one step per fact.

The assumption matters. With label changes the node controller can finish a
stale generation, which is the `stalled` finding.

### `NMStateOperatorProofs`

**`OperatorTypeCorrect`: `Spec => []TypeOK`** and
**`DeletesOnlyLater`: `Spec => DeletesOnlyLaterInstances`**, for every set of
UIDs and names and every bound. The inductive invariant `OpInv` adds five
conjuncts to `TypeOK`:

* `ApplyingHasInstance`: an apply step holds a real UID, so the owner
  reference it writes is typed.
* `ListedCreated`: the list holds only created UIDs.
* `StampsPast`: no creation stamp is ahead of the clock.
* `UnlistedLater`: a live instance the list missed was created no earlier than
  any listed one.
* `DeleteJustified`: at the delete step, some listed instance of another name
  is among the earliest.

The action property then follows from `OpInv` alone, whichever action removes
the instance. The reconciler's delete removes a listed instance or one created
after the list; a user's delete does the same. Lemma `OrderFrame` covers every
step that removes instances, freezes the list and does not turn the clock back.

**`SingleNameAtRestDeployed`: `OneName => (Spec => []AtRestDeployed)`.**
`OneName` says every UID carries one name. Any number of UIDs, failures and
seconds is allowed. The hypothesis is the setting of the `operator_recreate`
run, and it cannot be dropped:

* With two names, a Delete whose error is only logged (line 98) leaves a later
  instance whose key is never queued again.
* If its user then deletes the earlier instance, nothing deploys the handler.
* TLC finds this path in nine steps without any same-second tie. A tie alone
  breaks the property too.

The inductive invariant is `OpInv` plus `RestFacts`:

* `QueueNamed`, `KeyNamed`: queued and running keys are names of objects.
  With one name, Get finds the only live instance, so the singleton check
  never chooses Delete (`NoDelete`).
* `PassIntact`: while nothing is queued, the running apply pass has a live
  instance and has deployed every component before the current one
  (`Before`); at the handler step the RBAC is owned by that instance. Any
  deletion or creation would have queued a key. The garbage collector cannot
  touch a component whose owner is live.
* `AtRestDeployed` itself.

The only step into rest with nothing queued and an NMState present is the
handler apply. `PassIntact` gives it everything `HandlerDeployed` asks for.

**What stays with TLC.**

* Liveness: `Settles` under `FairSpec`. TLAPS cannot reason about fairness
  or ENABLED.
* `AtRestDeployed` with several names, where it fails (see above).
* `SingletonAtRest` and the violation runs.
* `UnavailableWithinBudget` and `RolloutNotStalled` with label changes. They
  fail there (findings 2 and 5).
* What the recursive counter `Count` computes for every input. Cardinalities of
  set comprehensions appear only in the TLC runs.

## Fairness

**Operator.** `FairSpec` assumes weak fairness of the worker and of the garbage
collector, as described above.

`Settles` holds under it. Once the users stop:

* every queued key is worked off;
* a NotFound is not requeued;
* each failed call is retried, within the failure bound;
* an owned component collected after its owner died is re-created by the
  reconcile its owner's deletion queued.

The mutant that requeues NotFound breaks it: a deleted instance's key then
loops for ever.

**Handlers.** No fairness is assumed, and no liveness property is checked.
`RolloutNotStalled` is the safety half of rollout progress: something is always
queued or running for a node that still lacks a verdict. It is proved for fixed
labels.

The progress half does not hold under weak fairness of the workers:

* A saturated node requeues every 5 s.
* Each of its reconciles writes the policy conditions.
* Those writes can make another node's decrement conflict five times.
* The slot then leaks (finding 7), and the waiting nodes requeue for ever.

The behaviour is fair, so a liveness run would only restate finding 7.
