--------------------------- MODULE NMStateOperator ---------------------------
(***************************************************************************)
(* The Operator's reconciler of the NMState custom resource               *)
(* (controllers/operator/nmstate_controller.go), together with the users   *)
(* who create and delete NMState instances and the garbage collector that *)
(* removes objects whose owners are all gone.                             *)
(*                                                                         *)
(* An NMState object is identified by its UID; several UIDs may share a    *)
(* name over time (delete, then re-create), but at most one is live per    *)
(* name.  The reconciler runs on one worker (the controller is built with  *)
(* the default of one concurrent reconcile), so its steps interleave only  *)
(* with the users and the garbage collector.  Its store calls are the      *)
(* steps: List, Get (with the singleton decision), Delete, and the four    *)
(* renderAndApply calls CRDs, Namespace, RBAC and Handler.  Rendering is   *)
(* left out: an apply call deploys its component, or fails.                *)
(***************************************************************************)
EXTENDS Naturals, FiniteSets

CONSTANTS
    Uids,         \* the object UIDs users may create
    Names,        \* the object names
    NameOf,       \* the name each UID is created with
    MaxTime,      \* the last creation-timestamp second of a run
    MaxFailures,  \* bound on failed store calls in a run
    NoUid         \* "no instance read"

ASSUME OperatorAssumption ==
    /\ Names # {}
    /\ NameOf \in [Uids -> Names]
    /\ MaxTime \in Nat
    /\ MaxFailures \in Nat
    /\ NoUid \notin Uids

\* The renderAndApply calls of Reconcile, in their order (lines 104-126),
\* each followed by the step after it.
Components == {"crds", "namespace", "rbac", "handler"}
After == [crds |-> "namespace", namespace |-> "rbac", rbac |-> "handler",
          handler |-> "idle"]

\* The components rendered with setControllerReference = TRUE (applyRBAC,
\* applyHandler); the CRDs and the Namespace carry no owner.
Owned == {"rbac", "handler"}

PCs == {"idle", "get", "delete"} \cup Components

VARIABLES
    live,      \* the NMState objects in the store
    used,      \* the UIDs created so far
    stamp,     \* stamp[u]: creation timestamp of u, in whole seconds
    now,       \* the API server's clock, in seconds
    queue,     \* the work queue of NMState keys (names)
    pc,        \* the worker's next step
    key,       \* the key being reconciled
    listed,    \* the instance list read by r.Client.List
    inst,      \* the instance read by r.Client.Get
    deployed,  \* the components present in the cluster
    owners,    \* owners[c]: the controller owner UIDs of component c
    failures   \* failed store calls so far

vars == <<live, used, stamp, now, queue, pc, key, listed, inst, deployed,
          owners, failures>>

\* The live object named k (at most one).
LiveNamed(k) == {u \in live : NameOf[u] = k}

\* Mutant: the sort comparator flipped (Before for After), so the latest
\* instance comes first.
EarliestFlipped(S) == {u \in S : \A v \in S : stamp[u] >= stamp[v]}

\* The candidates for instanceList.Items[0] after sort.Slice by creation
\* timestamp: the list comes from the informer cache in no fixed order and
\* sort.Slice is not stable, so any of the earliest-created may come first.
Earliest(S) == {u \in S : \A v \in S : stamp[u] <= stamp[v]}

\* The step after the singleton check of lines 88-102: go on to apply
\* when the list is empty or its first item has the requested name.
Decide(first) == IF NameOf[first] = key THEN "crds" ELSE "delete"

\* A failed store call returned as an error: the key is requeued.
FailAndRequeue ==
    /\ failures < MaxFailures
    /\ failures' = failures + 1
    /\ pc' = "idle"
    /\ queue' = queue \cup {key}
    /\ inst' = NoUid

-----------------------------------------------------------------------------
(* The reconciler.                                                         *)

\* Dequeue a key and List all NMState instances (lines 69-73).
ListInstances(k) ==
    /\ pc = "idle"
    /\ k \in queue
    /\ key' = k
    /\ \/ /\ listed' = live
          /\ pc' = "get"
          /\ queue' = queue \ {k}
          /\ UNCHANGED <<failures, inst>>
       \/ /\ failures < MaxFailures
          /\ failures' = failures + 1
          /\ UNCHANGED <<pc, queue, inst, listed>>
    /\ UNCHANGED <<live, used, stamp, now, deployed, owners>>

\* Mutant: the NotFound early return dropped, the reconcile going on with
\* an empty instance.
GetAndDecideNoNotFound ==
    /\ pc = "get"
    /\ \/ /\ LiveNamed(key) = {}
          /\ inst' = NoUid
          /\ pc' = "crds"
          /\ UNCHANGED <<queue, failures>>
       \/ \E u \in LiveNamed(key) :
             /\ inst' = u
             /\ pc' \in IF listed = {} THEN {"crds"}
                        ELSE {Decide(f) : f \in Earliest(listed)}
             /\ UNCHANGED <<queue, failures>>
       \/ FailAndRequeue
    /\ UNCHANGED <<live, used, stamp, now, key, listed, deployed, owners>>

\* Mutant: NotFound treated as an error and requeued.
GetAndDecideRequeueNotFound ==
    /\ pc = "get"
    /\ \/ /\ LiveNamed(key) = {}
          /\ pc' = "idle"
          /\ queue' = queue \cup {key}
          /\ UNCHANGED <<inst, failures>>
       \/ \E u \in LiveNamed(key) :
             /\ inst' = u
             /\ pc' \in IF listed = {} THEN {"crds"}
                        ELSE {Decide(f) : f \in Earliest(listed)}
             /\ UNCHANGED <<queue, failures>>
       \/ FailAndRequeue
    /\ UNCHANGED <<live, used, stamp, now, key, listed, deployed, owners>>

\* Get the requested instance and decide whether it is the singleton
\* (lines 74-102).  NotFound ends the reconcile without a requeue.
GetAndDecide ==
    /\ pc = "get"
    /\ \/ /\ LiveNamed(key) = {}
          /\ pc' = "idle"
          /\ UNCHANGED <<queue, inst, failures>>
       \/ \E u \in LiveNamed(key) :
             /\ inst' = u
             /\ pc' \in IF listed = {} THEN {"crds"}
                        ELSE {Decide(f) : f \in Earliest(listed)}
             /\ UNCHANGED <<queue, failures>>
       \/ FailAndRequeue
    /\ UNCHANGED <<live, used, stamp, now, key, listed, deployed, owners>>

\* Delete the instance by name (line 96).  A failure is only logged and
\* the reconcile returns without error, so nothing is requeued.
DeleteInstance ==
    /\ pc = "delete"
    /\ \/ /\ LiveNamed(key) # {}
          /\ live' = live \ LiveNamed(key)
          /\ queue' = queue \cup {key}
          /\ UNCHANGED failures
       \/ /\ LiveNamed(key) = {}
          /\ UNCHANGED <<live, queue, failures>>
       \/ /\ failures < MaxFailures
          /\ failures' = failures + 1
          /\ UNCHANGED <<live, queue>>
    /\ pc' = "idle"
    /\ inst' = NoUid
    /\ UNCHANGED <<used, stamp, now, key, listed, deployed, owners>>

\* Mutant: an apply error swallowed (return ctrl.Result{}, nil), so the
\* key is not requeued.
ApplyNoRequeue(c) ==
    /\ pc = c
    /\ \/ /\ deployed' = deployed \cup {c}
          /\ owners' = IF c \in Owned THEN [owners EXCEPT ![c] = {inst}]
                       ELSE owners
          /\ pc' = After[c]
          /\ inst' = IF After[c] = "idle" THEN NoUid ELSE inst
          /\ UNCHANGED <<queue, failures>>
       \/ /\ failures < MaxFailures
          /\ failures' = failures + 1
          /\ pc' = "idle"
          /\ inst' = NoUid
          /\ UNCHANGED <<queue, deployed, owners>>
    /\ UNCHANGED <<live, used, stamp, now, key, listed>>

\* One renderAndApply call (lines 240-280): on success the component is
\* created or updated, carrying the instance as its only controller owner
\* when it is an owned one; on failure the reconcile returns the error.
Apply(c) ==
    /\ pc = c
    /\ \/ /\ deployed' = deployed \cup {c}
          /\ owners' = IF c \in Owned THEN [owners EXCEPT ![c] = {inst}]
                       ELSE owners
          /\ pc' = After[c]
          /\ inst' = IF After[c] = "idle" THEN NoUid ELSE inst
          /\ UNCHANGED <<queue, failures>>
       \/ /\ FailAndRequeue
          /\ UNCHANGED <<deployed, owners>>
    /\ UNCHANGED <<live, used, stamp, now, key, listed>>

-----------------------------------------------------------------------------
(* The environment.                                                        *)

\* A user creates an NMState; its creation event enqueues its name.
Create(u) ==
    /\ u \notin used
    /\ LiveNamed(NameOf[u]) = {}
    /\ live' = live \cup {u}
    /\ used' = used \cup {u}
    /\ stamp' = [stamp EXCEPT ![u] = now]
    /\ queue' = queue \cup {NameOf[u]}
    /\ UNCHANGED <<now, pc, key, listed, inst, deployed, owners, failures>>

\* A user deletes an NMState; its deletion event enqueues its name.
UserDelete(u) ==
    /\ u \in live
    /\ live' = live \ {u}
    /\ queue' = queue \cup {NameOf[u]}
    /\ UNCHANGED <<used, stamp, now, pc, key, listed, inst, deployed, owners,
                   failures>>

\* The garbage collector deletes an owned component none of whose owners
\* is live.  The controller does not watch owned objects (SetupWithManager,
\* lines 132-136), so this enqueues nothing.
CollectGarbage(c) ==
    /\ c \in Owned \cap deployed
    /\ owners[c] \cap live = {}
    /\ deployed' = deployed \ {c}
    /\ owners' = [owners EXCEPT ![c] = {}]
    /\ UNCHANGED <<live, used, stamp, now, queue, pc, key, listed, inst,
                   failures>>

Tick ==
    /\ now < MaxTime
    /\ now' = now + 1
    /\ UNCHANGED <<live, used, stamp, queue, pc, key, listed, inst, deployed,
                   owners, failures>>

Init ==
    /\ live = {}
    /\ used = {}
    /\ stamp = [u \in Uids |-> 0]
    /\ now = 0
    /\ queue = {}
    /\ pc = "idle"
    /\ key = CHOOSE k \in Names : TRUE
    /\ listed = {}
    /\ inst = NoUid
    /\ deployed = {}
    /\ owners = [c \in Owned |-> {}]
    /\ failures = 0

Next ==
    \/ \E k \in Names : ListInstances(k)
    \/ GetAndDecide
    \/ DeleteInstance
    \/ \E c \in Components : Apply(c)
    \/ \E u \in Uids : Create(u) \/ UserDelete(u)
    \/ \E c \in Owned : CollectGarbage(c)
    \/ Tick

Spec == Init /\ [][Next]_vars

\* The steps of the controller's one worker.
Worker ==
    \/ \E k \in Names : ListInstances(k)
    \/ GetAndDecide
    \/ DeleteInstance
    \/ \E c \in Components : Apply(c)

\* controller-runtime's worker takes a queued key whenever it is idle and
\* runs Reconcile to its end, and the cluster's garbage collector removes
\* every dependent whose owners are all gone: both are weakly fair.  The
\* users are not: they may stop at any time.
FairSpec ==
    /\ Spec
    /\ WF_vars(Worker)
    /\ \A c \in Owned : WF_vars(CollectGarbage(c))

-----------------------------------------------------------------------------
(* Properties.                                                             *)

TypeOK ==
    /\ live \subseteq used /\ used \subseteq Uids
    /\ stamp \in [Uids -> 0..MaxTime]
    /\ now \in 0..MaxTime
    /\ queue \subseteq Names
    /\ pc \in PCs
    /\ key \in Names
    /\ listed \subseteq Uids
    /\ inst \in Uids \cup {NoUid}
    /\ deployed \subseteq Components
    /\ owners \in [Owned -> SUBSET Uids]
    /\ failures \in 0..MaxFailures

\* The operator is at rest: the worker is idle and no key is queued.
Quiescent == pc = "idle" /\ queue = {}

\* Every component of the handler is deployed and each owned one is owned
\* by a live instance.
HandlerDeployed ==
    /\ deployed = Components
    /\ \A c \in Owned : owners[c] \cap live # {}

\* Once the operator is at rest while an NMState exists, every component
\* of the handler is deployed and each owned one is owned by a live
\* instance, whatever deletions, re-creations, garbage collection and
\* failed apply calls came before.  It fails if an apply error is not
\* requeued, or if an owned object is left to a dead owner.
AtRestDeployed == Quiescent /\ live # {} => HandlerDeployed

\* Whatever the users did, once they stop the operator works off every
\* event and comes to rest for good, with the handler deployed for a live
\* NMState: no key is requeued forever (a NotFound is not requeued, a
\* failed call is retried a bounded number of times) and no reconcile
\* leaves a component missing.
Settles == <>[](Quiescent /\ (live # {} => HandlerDeployed))

\* A step in which the reconciler deletes an NMState.
OperatorDeletes == pc = "delete" /\ live' # live

\* The reconciler deletes an NMState only in favour of another-named one
\* that it listed and that was created no later than every instance it
\* removes (the singleton rule of lines 87-101): it never deletes the
\* instance that came first.
DeletesOnlyLaterInstances ==
    [][OperatorDeletes =>
         \E v \in listed :
            /\ NameOf[v] # key
            /\ \A w \in live \ live' : stamp[v] <= stamp[w]]_vars

\* At rest, at most one NMState exists: the Operator keeps NMState a
\* cluster singleton.
SingletonAtRest == Quiescent => Cardinality(live) <= 1

=============================================================================
