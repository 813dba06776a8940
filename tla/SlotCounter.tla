----------------------------- MODULE SlotCounter -----------------------------
(***************************************************************************)
(* What status.unavailableNodeCount of a policy promises the handlers, as *)
(* a counting semaphore: a slot is taken only while one is free, one at a  *)
(* time, and given back only while one is held.  The budget is the number *)
(* of slots; nothing here changes it.                                      *)
(*                                                                         *)
(* Taking a slot is what incrementUnavailableNodeCount does, giving one    *)
(* back what decrementUnavailableNodeCount does.  Who holds a slot is not  *)
(* recorded: the store keeps only the count, and so does this module.      *)
(***************************************************************************)
EXTENDS Naturals

VARIABLES
    count,   \* the slots taken
    budget   \* the slots there are

vars == <<count, budget>>

Init ==
    /\ count = 0
    /\ budget \in Nat \ {0}

\* Take a slot: the count was read below the budget and written one higher.
Acquire ==
    /\ count < budget
    /\ count' = count + 1
    /\ UNCHANGED budget

\* Give a slot back: the count was read above zero and written one lower.
Release ==
    /\ count > 0
    /\ count' = count - 1
    /\ UNCHANGED budget

Next == Acquire \/ Release

Spec == Init /\ [][Next]_vars

\* No more slots are taken than there are.
CountWithinBudget == count \in 0..budget

=============================================================================
