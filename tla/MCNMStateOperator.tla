-------------------------- MODULE MCNMStateOperator --------------------------
(***************************************************************************)
(* Instances of the NMState reconciler for TLC.                            *)
(***************************************************************************)
EXTENDS NMStateOperator, TLC

CONSTANTS a1, a2, b1, a, b

\* One name created, deleted and created again under a new UID.
MCRecreateNames == a1 :> a @@ a2 :> a

\* Two names, one UID each: two candidate singletons.
MCTwoNames == a1 :> a @@ b1 :> b

=============================================================================
