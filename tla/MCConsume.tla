----------------------------- MODULE MCConsume -----------------------------
(* Instances of Consume for TLC.                                            *)
EXTENDS Consume, TLC

CONSTANTS p1, p2, none     \* pods, and NoName

(* Pods have distinct host names: a consumer is its own name. *)
OwnNames == [c \in Consumers |-> c]

(* Two bindings on one stream in one process: both consumers have its name. *)
SharedName == [c \in Consumers |-> p1]

Solo == {p1}
Pair == {p1, p2}

(* Pods that differ only in their name may be swapped. *)
PairSymmetry == Permutations(Pair)

(* p1 may crash for good, p2 is always restarted. *)
FairSpec == Spec /\ Fairness({p2})
=============================================================================
