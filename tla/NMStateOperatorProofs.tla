------------------------ MODULE NMStateOperatorProofs ------------------------
(***************************************************************************)
(* Proofs about the NMState reconciler for every value of the constants:  *)
(* its state stays well typed, and it deletes an NMState only in favour   *)
(* of a listed, another-named instance created no later.                  *)
(***************************************************************************)
EXTENDS NMStateOperator, TLAPS

\* A reconcile at an apply step holds the instance it got: the owner
\* reference it writes is a real UID.
ApplyingHasInstance == pc \in Components => inst \in Uids

\* The list was read from the store, so it holds only created UIDs.
ListedCreated == listed \subseteq used

\* Creation timestamps are taken from the clock, which never goes back.
StampsPast == \A u \in used : stamp[u] <= now

\* An instance the list missed was created after the list was read, so
\* no earlier than any of the listed ones.
UnlistedLater == \A u \in live \ listed, v \in listed : stamp[v] <= stamp[u]

\* The reconcile is about to delete only because the first listed
\* instance, one of the earliest, has another name.
DeleteJustified ==
    pc = "delete" =>
        \E f \in listed : /\ NameOf[f] # key
                          /\ \A v \in listed : stamp[f] <= stamp[v]

OpInv ==
    /\ TypeOK
    /\ ApplyingHasInstance
    /\ ListedCreated
    /\ StampsPast
    /\ UnlistedLater
    /\ DeleteJustified

USE OperatorAssumption

LEMMA OpInit == Init => OpInv
<1> SUFFICES ASSUME Init PROVE OpInv
  OBVIOUS
<1>1. key \in Names
  BY Zenon DEF Init
<1>2. stamp \in [Uids -> 0..MaxTime] /\ owners \in [Owned -> SUBSET Uids]
  BY DEF Init
<1>3. TypeOK
  BY <1>1, <1>2 DEF Init, TypeOK, PCs
<1> QED
  BY <1>3 DEF Init, OpInv, ApplyingHasInstance, ListedCreated, StampsPast,
             UnlistedLater, DeleteJustified, PCs, Components

\* A step that only removes instances, leaves the created UIDs, their
\* stamps and the list alone, does not turn the clock back and does not
\* newly decide to delete keeps the ordering facts the singleton rule
\* rests on.
LEMMA OrderFrame ==
    ASSUME OpInv,
           live' \subseteq live,
           UNCHANGED <<used, stamp, listed>>,
           now' \in Nat, now <= now',
           pc' = "delete" => UNCHANGED <<pc, key>>
    PROVE  (ListedCreated /\ StampsPast /\ UnlistedLater /\ DeleteJustified)'
<1>1. TypeOK
  BY DEF OpInv
<1>2. ListedCreated'
  BY DEF OpInv, ListedCreated
<1>3. StampsPast'
  BY <1>1 DEF OpInv, StampsPast, TypeOK
<1>4. UnlistedLater'
  BY DEF OpInv, UnlistedLater
<1>5. DeleteJustified'
  BY DEF OpInv, DeleteJustified
<1> QED BY <1>2, <1>3, <1>4, <1>5

LEMMA OpStep == OpInv /\ [Next]_vars => OpInv'
<1> SUFFICES ASSUME OpInv, [Next]_vars PROVE OpInv'
  OBVIOUS
<1>0. TypeOK /\ ApplyingHasInstance
  BY DEF OpInv
<1>1. ASSUME NEW k \in Names, ListInstances(k) PROVE OpInv'
  <2>1. CASE listed' = live /\ pc' = "get" /\ queue' = queue \ {k}
             /\ UNCHANGED <<failures, inst>>
    <3>1. (TypeOK /\ ApplyingHasInstance)'
      BY <1>0, <1>1, <2>1 DEF ListInstances, TypeOK, PCs, ApplyingHasInstance,
                              Components
    <3>2. (ListedCreated /\ StampsPast /\ UnlistedLater /\ DeleteJustified)'
      BY <1>1, <2>1 DEF ListInstances, OpInv, TypeOK, ListedCreated,
                        StampsPast, UnlistedLater, DeleteJustified
    <3> QED BY <3>1, <3>2 DEF OpInv
  <2>2. CASE failures < MaxFailures /\ failures' = failures + 1
             /\ UNCHANGED <<pc, queue, inst, listed>>
    <3>1. (TypeOK /\ ApplyingHasInstance)'
      BY <1>0, <1>1, <2>2 DEF ListInstances, TypeOK, ApplyingHasInstance
    <3> QED BY <1>1, <2>2, <3>1, OrderFrame DEF ListInstances, OpInv, TypeOK
  <2> QED BY <1>1, <2>1, <2>2 DEF ListInstances
<1>2. ASSUME GetAndDecide PROVE OpInv'
  <2>0. UNCHANGED <<live, used, stamp, now, key, listed, deployed, owners>>
    BY <1>2 DEF GetAndDecide
  <2>1. CASE LiveNamed(key) = {} /\ pc' = "idle"
             /\ UNCHANGED <<queue, inst, failures>>
    <3>1. (TypeOK /\ ApplyingHasInstance)'
      BY <1>0, <2>0, <2>1 DEF TypeOK, PCs, ApplyingHasInstance, Components
    <3> QED BY <1>0, <2>0, <2>1, <3>1, OrderFrame DEF OpInv, TypeOK
  <2>2. ASSUME NEW u \in LiveNamed(key), inst' = u,
               pc' \in IF listed = {} THEN {"crds"}
                   ELSE {Decide(f) : f \in Earliest(listed)},
               UNCHANGED <<queue, failures>>
        PROVE OpInv'
    <3>1. u \in Uids
      BY <1>0, <2>2 DEF LiveNamed, TypeOK
    <3>2. pc' \in PCs
      BY <2>2 DEF Decide, PCs, Components
    <3>3. (TypeOK /\ ApplyingHasInstance)'
      BY <1>0, <2>0, <2>2, <3>1, <3>2 DEF TypeOK, ApplyingHasInstance
    <3>4. DeleteJustified'
      <4> SUFFICES ASSUME pc' = "delete" PROVE DeleteJustified'
        BY DEF DeleteJustified
      <4>1. PICK f \in Earliest(listed) : Decide(f) = "delete"
        BY <2>2
      <4>2. NameOf[f] # key
        BY <4>1 DEF Decide
      <4> QED BY <2>0, <4>1, <4>2 DEF Earliest, DeleteJustified
    <3>5. (ListedCreated /\ StampsPast /\ UnlistedLater)'
      BY <2>0 DEF OpInv, ListedCreated, StampsPast, UnlistedLater
    <3> QED BY <3>3, <3>4, <3>5 DEF OpInv
  <2>3. CASE FailAndRequeue
    <3>1. (TypeOK /\ ApplyingHasInstance)'
      BY <1>0, <2>0, <2>3 DEF FailAndRequeue, TypeOK, PCs, ApplyingHasInstance,
                              Components
    <3> QED BY <1>0, <2>0, <2>3, <3>1, OrderFrame
            DEF FailAndRequeue, OpInv, TypeOK
  <2> QED BY <1>2, <2>1, <2>2, <2>3 DEF GetAndDecide
<1>3. CASE DeleteInstance
  <2>1. /\ live' \subseteq live
        /\ queue' \subseteq queue \cup {key}
        /\ failures' \in 0..MaxFailures
    <3>1. CASE LiveNamed(key) # {} /\ live' = live \ LiveNamed(key)
               /\ queue' = queue \cup {key} /\ UNCHANGED failures
      BY <1>0, <3>1 DEF TypeOK
    <3>2. CASE LiveNamed(key) = {} /\ UNCHANGED <<live, queue, failures>>
      BY <1>0, <3>2 DEF TypeOK
    <3>3. CASE failures < MaxFailures /\ failures' = failures + 1
               /\ UNCHANGED <<live, queue>>
      BY <1>0, <3>3 DEF TypeOK
    <3> QED BY <1>3, <3>1, <3>2, <3>3 DEF DeleteInstance
  <2>2. /\ pc' = "idle" /\ inst' = NoUid
        /\ UNCHANGED <<used, stamp, now, key, listed, deployed, owners>>
    BY <1>3 DEF DeleteInstance
  <2>3. (TypeOK /\ ApplyingHasInstance)'
    BY <1>0, <2>1, <2>2 DEF TypeOK, PCs, ApplyingHasInstance, Components
  <2> QED BY <1>0, <2>1, <2>2, <2>3, OrderFrame DEF OpInv, TypeOK
<1>4. ASSUME NEW c \in Components, Apply(c) PROVE OpInv'
  <2>1. inst \in Uids
    BY <1>0, <1>4 DEF Apply, ApplyingHasInstance
  <2>2. UNCHANGED <<live, used, stamp, now, key, listed>>
    BY <1>4 DEF Apply
  <2>3. CASE /\ deployed' = deployed \cup {c}
             /\ owners' = IF c \in Owned THEN [owners EXCEPT ![c] = {inst}]
                          ELSE owners
             /\ pc' = After[c]
             /\ inst' = IF After[c] = "idle" THEN NoUid ELSE inst
             /\ UNCHANGED <<queue, failures>>
    <3>1. After[c] \in PCs \ {"delete"}
      BY DEF After, Components, PCs
    <3>2. owners' \in [Owned -> SUBSET Uids]
      BY <1>0, <2>1, <2>3 DEF TypeOK
    <3>3. deployed' \subseteq Components
      BY <1>0, <2>3 DEF TypeOK
    <3>4. pc' \in PCs /\ pc' # "delete"
      BY <2>3, <3>1
    <3>5. pc' \in Components => inst' \in Uids
      BY <2>1, <2>3 DEF Components
    <3>6. inst' \in Uids \cup {NoUid}
      BY <2>1, <2>3
    <3>7. (TypeOK /\ ApplyingHasInstance)'
      BY <1>0, <2>2, <2>3, <3>2, <3>3, <3>4, <3>5, <3>6
      DEF TypeOK, ApplyingHasInstance
    <3> QED BY <1>0, <2>2, <3>4, <3>7, OrderFrame DEF OpInv, TypeOK
  <2>4. CASE FailAndRequeue /\ UNCHANGED <<deployed, owners>>
    <3>1. /\ failures' \in 0..MaxFailures /\ pc' = "idle" /\ inst' = NoUid
          /\ queue' \subseteq Names
      BY <1>0, <2>4 DEF FailAndRequeue, TypeOK
    <3>2. (TypeOK /\ ApplyingHasInstance)'
      BY <1>0, <2>2, <2>4, <3>1 DEF TypeOK, PCs, ApplyingHasInstance,
                                    Components
    <3> QED BY <1>0, <2>2, <3>1, <3>2, OrderFrame DEF OpInv, TypeOK
  <2> QED BY <1>4, <2>3, <2>4 DEF Apply
<1>5. ASSUME NEW u \in Uids, Create(u) PROVE OpInv'
  <2>1. \A v \in used : stamp'[v] = stamp[v]
    BY <1>0, <1>5 DEF Create, TypeOK
  <2>2. stamp'[u] = now /\ stamp' \in [Uids -> 0..MaxTime]
    BY <1>0, <1>5 DEF Create, TypeOK
  <2>3. StampsPast'
    BY <1>5, <2>1, <2>2 DEF Create, OpInv, StampsPast
  <2>4. UnlistedLater'
    BY <1>0, <1>5, <2>1, <2>2
    DEF Create, OpInv, TypeOK, ListedCreated, StampsPast, UnlistedLater
  <2>5. DeleteJustified'
    BY <1>5, <2>1 DEF Create, OpInv, ListedCreated, DeleteJustified
  <2>6. (TypeOK /\ ApplyingHasInstance /\ ListedCreated)'
    BY <1>0, <1>5, <2>2 DEF Create, OpInv, TypeOK, ApplyingHasInstance,
                            ListedCreated
  <2> QED BY <2>3, <2>4, <2>5, <2>6 DEF OpInv
<1>6. ASSUME NEW u \in Uids, UserDelete(u) PROVE OpInv'
  <2>1. (TypeOK /\ ApplyingHasInstance)'
    BY <1>0, <1>6 DEF UserDelete, TypeOK, ApplyingHasInstance
  <2> QED BY <1>0, <1>6, <2>1, OrderFrame DEF UserDelete, OpInv, TypeOK
<1>7. ASSUME NEW c \in Owned, CollectGarbage(c) PROVE OpInv'
  <2>1. (TypeOK /\ ApplyingHasInstance)'
    BY <1>0, <1>7 DEF CollectGarbage, TypeOK, ApplyingHasInstance
  <2> QED BY <1>0, <1>7, <2>1, OrderFrame DEF CollectGarbage, OpInv, TypeOK
<1>8. CASE Tick
  <2>1. (TypeOK /\ ApplyingHasInstance)'
    BY <1>0, <1>8 DEF Tick, TypeOK, ApplyingHasInstance
  <2> QED BY <1>0, <1>8, <2>1, OrderFrame DEF Tick, OpInv, TypeOK
<1>9. CASE UNCHANGED vars
  BY <1>9 DEF vars, OpInv, TypeOK, ApplyingHasInstance, ListedCreated,
              StampsPast, UnlistedLater, DeleteJustified
<1> QED BY <1>1, <1>2, <1>3, <1>4, <1>5, <1>6, <1>7, <1>8, <1>9 DEF Next

\* The reconciler's state stays well typed: in particular every owner
\* reference applyRBAC and applyHandler write is the UID of an instance
\* Get returned, never the empty instance of a reconcile that found none.
THEOREM OperatorTypeCorrect == Spec => []TypeOK
<1>1. OpInv => TypeOK
  BY DEF OpInv
<1> QED BY OpInit, OpStep, <1>1, PTL DEF Spec

\* Whenever the reconciler deletes an NMState (line 96), the first item of
\* its sorted list has another name and was created no later than every
\* instance the step removes, for any number of UIDs, names and seconds:
\* an instance created after the list was read is later still, and a
\* user's deletion in the same state removes no earlier one either.
THEOREM DeletesOnlyLater == Spec => DeletesOnlyLaterInstances
<1>1. OpInv => [OperatorDeletes =>
                   \E v \in listed :
                      /\ NameOf[v] # key
                      /\ \A w \in live \ live' : stamp[v] <= stamp[w]]_vars
  <2> SUFFICES ASSUME OpInv, OperatorDeletes
               PROVE \E v \in listed :
                        /\ NameOf[v] # key
                        /\ \A w \in live \ live' : stamp[v] <= stamp[w]
    OBVIOUS
  <2>1. PICK f \in listed : /\ NameOf[f] # key
                            /\ \A v \in listed : stamp[f] <= stamp[v]
    BY DEF OpInv, DeleteJustified, OperatorDeletes
  <2>2. ASSUME NEW w \in live \ live' PROVE stamp[f] <= stamp[w]
    <3>1. CASE w \in listed
      BY <2>1, <3>1
    <3>2. CASE w \notin listed
      BY <2>1, <2>2, <3>2 DEF OpInv, UnlistedLater
    <3> QED BY <3>1, <3>2
  <2> QED BY <2>1, <2>2
<1> QED BY OpInit, OpStep, <1>1, PTL DEF Spec, DeletesOnlyLaterInstances

-----------------------------------------------------------------------------
(* A cluster that uses one NMState name.  Every instance then has the name *)
(* of the request, the singleton check never deletes, and each reconcile   *)
(* either finds nothing or applies all four components to the instance.   *)

\* The NMState objects users create all carry one name.
OneName == \A u, v \in Uids : NameOf[u] = NameOf[v]

\* The names events can carry: those of NMState objects.
NameRange == {NameOf[u] : u \in Uids}

\* Events enqueue the names of NMState objects only.
QueueNamed == queue \subseteq NameRange

\* A running reconcile works on such a name.
KeyNamed == pc # "idle" => key \in NameRange

\* The reconcile never reaches the Delete of line 96.
NoDelete == pc # "delete"

\* The components renderAndApply has written before each apply step.
Before == [crds |-> {}, namespace |-> {"crds"},
           rbac |-> {"crds", "namespace"},
           handler |-> {"crds", "namespace", "rbac"}]

\* While nothing is queued, the running apply pass has its instance live,
\* the components before the current one deployed, and at the handler
\* step the RBAC owned by the instance: nothing has happened since the
\* pass started that the garbage collector could act on.
PassIntact ==
    queue = {} /\ pc \in Components =>
        /\ inst \in live
        /\ Before[pc] \subseteq deployed
        /\ pc = "handler" => inst \in owners["rbac"]

RestFacts == QueueNamed /\ KeyNamed /\ NoDelete /\ PassIntact /\ AtRestDeployed

\* With one name, a running reconcile's key is the name of every object.
LEMMA KeyIsTheName ==
    ASSUME OneName, KeyNamed, pc # "idle"
    PROVE  \A u \in Uids : NameOf[u] = key
BY DEF OneName, KeyNamed, NameRange

LEMMA RestInit == Init => RestFacts
BY DEF Init, RestFacts, QueueNamed, KeyNamed, NoDelete, PassIntact,
       AtRestDeployed, Quiescent, Components

LEMMA RestStep ==
    ASSUME OneName, OpInv, RestFacts, [Next]_vars
    PROVE  RestFacts'
<1>0. /\ TypeOK /\ ApplyingHasInstance
      /\ QueueNamed /\ KeyNamed /\ NoDelete /\ PassIntact /\ AtRestDeployed
  BY DEF OpInv, RestFacts
<1>1. ASSUME NEW k \in Names, ListInstances(k) PROVE RestFacts'
  <2>1. CASE listed' = live /\ pc' = "get" /\ queue' = queue \ {k}
             /\ UNCHANGED <<failures, inst>>
    BY <1>0, <1>1, <2>1
    DEF ListInstances, RestFacts, QueueNamed, KeyNamed, NoDelete, PassIntact,
        AtRestDeployed, Quiescent, Components
  <2>2. CASE failures < MaxFailures /\ failures' = failures + 1
             /\ UNCHANGED <<pc, queue, inst, listed>>
    BY <1>0, <1>1, <2>2
    DEF ListInstances, RestFacts, QueueNamed, KeyNamed, NoDelete, PassIntact,
        AtRestDeployed, Quiescent, HandlerDeployed, Components
  <2> QED BY <1>1, <2>1, <2>2 DEF ListInstances
<1>2. ASSUME GetAndDecide PROVE RestFacts'
  <2>0. /\ UNCHANGED <<live, used, stamp, now, key, listed, deployed, owners>>
        /\ pc = "get"
    BY <1>2 DEF GetAndDecide
  <2>1. \A u \in Uids : NameOf[u] = key
    BY <1>0, <2>0, KeyIsTheName
  <2>2. CASE LiveNamed(key) = {} /\ pc' = "idle"
             /\ UNCHANGED <<queue, inst, failures>>
    <3>1. live = {}
      BY <1>0, <2>1, <2>2 DEF LiveNamed, TypeOK
    <3> QED
      BY <1>0, <2>0, <2>2, <3>1
      DEF RestFacts, QueueNamed, KeyNamed, NoDelete, PassIntact,
          AtRestDeployed, Quiescent, Components
  <2>3. ASSUME NEW u \in LiveNamed(key), inst' = u,
               pc' \in IF listed = {} THEN {"crds"}
                   ELSE {Decide(f) : f \in Earliest(listed)},
               UNCHANGED <<queue, failures>>
        PROVE RestFacts'
    <3>1. pc' = "crds"
      <4>1. \A f \in Earliest(listed) : Decide(f) = "crds"
        BY <1>0, <2>1 DEF Earliest, Decide, TypeOK
      <4> QED BY <2>3, <4>1
    <3>2. u \in live
      BY DEF LiveNamed
    <3> QED
      BY <1>0, <2>0, <2>3, <3>1, <3>2
      DEF RestFacts, QueueNamed, KeyNamed, NoDelete, PassIntact, Before,
          AtRestDeployed, Quiescent, Components
  <2>4. CASE FailAndRequeue
    BY <1>0, <2>0, <2>4
    DEF FailAndRequeue, RestFacts, QueueNamed, KeyNamed, NoDelete, PassIntact,
        AtRestDeployed, Quiescent, Components
  <2> QED BY <1>2, <2>2, <2>3, <2>4 DEF GetAndDecide
<1>3. CASE DeleteInstance
  BY <1>0, <1>3 DEF DeleteInstance, NoDelete
<1>4. ASSUME NEW c \in Components, Apply(c) PROVE RestFacts'
  <2>0. /\ UNCHANGED <<live, used, stamp, now, key, listed>>
        /\ pc = c
    BY <1>4 DEF Apply
  <2>1. CASE /\ deployed' = deployed \cup {c}
             /\ owners' = IF c \in Owned THEN [owners EXCEPT ![c] = {inst}]
                          ELSE owners
             /\ pc' = After[c]
             /\ inst' = IF After[c] = "idle" THEN NoUid ELSE inst
             /\ UNCHANGED <<queue, failures>>
    <3>0. After[c] \in Components \cup {"idle"}
      BY DEF After, Components
    <3>1. (QueueNamed /\ KeyNamed /\ NoDelete)'
      BY <1>0, <2>0, <2>1, <3>0 DEF QueueNamed, KeyNamed, NoDelete, Components
    <3>2. PassIntact'
      <4> SUFFICES ASSUME queue' = {}, pc' \in Components
                   PROVE PassIntact'
        BY DEF PassIntact
      <4>1. c # "handler" /\ queue = {}
        BY <2>1 DEF After, Components
      <4>2. inst \in live /\ Before[c] \subseteq deployed
        BY <1>0, <2>0, <4>1 DEF PassIntact
      <4>3. inst' = inst
        BY <2>1 DEF Components
      <4>4. Before[After[c]] \subseteq deployed'
        BY <2>1, <4>1, <4>2 DEF Before, After, Components
      <4>5. pc' = "handler" => inst \in owners'["rbac"]
        <5> SUFFICES ASSUME pc' = "handler" PROVE inst \in owners'["rbac"]
          OBVIOUS
        <5>1. c = "rbac"
          BY <2>1 DEF After, Components
        <5> QED BY <1>0, <2>1, <5>1 DEF Owned, TypeOK
      <4> QED BY <2>0, <2>1, <4>2, <4>3, <4>4, <4>5 DEF PassIntact
    <3>3. AtRestDeployed'
      <4> SUFFICES ASSUME Quiescent', live' # {} PROVE HandlerDeployed'
        BY DEF AtRestDeployed
      <4>1. c = "handler" /\ queue = {}
        BY <2>1 DEF Quiescent, After, Components
      <4>2. /\ inst \in live /\ Before["handler"] \subseteq deployed
            /\ inst \in owners["rbac"]
        BY <1>0, <2>0, <4>1 DEF PassIntact, Components
      <4>3. deployed' = Components
        BY <1>0, <2>1, <4>1, <4>2 DEF Before, TypeOK, Components
      <4>4. owners'["rbac"] = owners["rbac"] /\ owners'["handler"] = {inst}
        BY <1>0, <2>1, <4>1 DEF TypeOK, Owned
      <4> QED BY <2>0, <4>2, <4>3, <4>4 DEF HandlerDeployed, Owned
    <3> QED BY <3>1, <3>2, <3>3 DEF RestFacts
  <2>2. CASE FailAndRequeue /\ UNCHANGED <<deployed, owners>>
    BY <1>0, <2>0, <2>2
    DEF FailAndRequeue, RestFacts, QueueNamed, KeyNamed, NoDelete, PassIntact,
        AtRestDeployed, Quiescent, Components
  <2> QED BY <1>4, <2>1, <2>2 DEF Apply
<1>5. ASSUME NEW u \in Uids, Create(u) PROVE RestFacts'
  BY <1>0, <1>5
  DEF Create, RestFacts, QueueNamed, KeyNamed, NoDelete, PassIntact,
      AtRestDeployed, Quiescent, NameRange
<1>6. ASSUME NEW u \in Uids, UserDelete(u) PROVE RestFacts'
  BY <1>0, <1>6
  DEF UserDelete, RestFacts, QueueNamed, KeyNamed, NoDelete, PassIntact,
      AtRestDeployed, Quiescent, NameRange
<1>7. ASSUME NEW c \in Owned, CollectGarbage(c) PROVE RestFacts'
  <2>0. /\ c \in deployed /\ owners[c] \cap live = {}
        /\ deployed' = deployed \ {c}
        /\ owners' = [owners EXCEPT ![c] = {}]
        /\ UNCHANGED <<live, queue, pc, key, inst>>
    BY <1>7 DEF CollectGarbage
  <2>1. PassIntact'
    <3> SUFFICES ASSUME queue = {}, pc \in Components PROVE PassIntact'
      BY <2>0 DEF PassIntact
    <3>1. inst \in live /\ Before[pc] \subseteq deployed
          /\ (pc = "handler" => inst \in owners["rbac"])
      BY <1>0 DEF PassIntact
    <3>2. c \notin Before[pc]
      BY <2>0, <3>1 DEF Before, Owned, Components
    <3>3. pc = "handler" => inst \in owners'["rbac"]
      BY <1>0, <2>0, <3>1 DEF Owned, TypeOK
    <3> QED BY <2>0, <3>1, <3>2, <3>3 DEF PassIntact
  <2>2. AtRestDeployed'
    BY <1>0, <2>0 DEF AtRestDeployed, Quiescent, HandlerDeployed
  <2> QED
    BY <1>0, <2>0, <2>1, <2>2 DEF RestFacts, QueueNamed, KeyNamed, NoDelete
<1>8. CASE Tick
  BY <1>0, <1>8
  DEF Tick, RestFacts, QueueNamed, KeyNamed, NoDelete, PassIntact,
      AtRestDeployed, Quiescent, HandlerDeployed
<1>9. CASE UNCHANGED vars
  BY <1>0, <1>9
  DEF vars, RestFacts, QueueNamed, KeyNamed, NoDelete, PassIntact,
      AtRestDeployed, Quiescent, HandlerDeployed
<1> QED BY <1>1, <1>2, <1>3, <1>4, <1>5, <1>6, <1>7, <1>8, <1>9 DEF Next

\* In a cluster that uses one NMState name, whenever the reconciler is at
\* rest while an NMState exists, every handler component is deployed and
\* each owned one is owned by a live instance, whatever deletions,
\* re-creations, garbage collection and failed calls came before.  With
\* two names the property fails: a Delete whose error is only logged
\* (line 98) or a same-second tie leaves an instance never applied.
THEOREM SingleNameAtRestDeployed ==
    ASSUME OneName
    PROVE  Spec => []AtRestDeployed
<1>1. Init => OpInv /\ RestFacts
  BY OpInit, RestInit
<1>2. OpInv /\ RestFacts /\ [Next]_vars => (OpInv /\ RestFacts)'
  BY OpStep, RestStep
<1>3. OpInv /\ RestFacts => AtRestDeployed
  BY DEF RestFacts
<1> QED BY <1>1, <1>2, <1>3, PTL DEF Spec

=============================================================================
