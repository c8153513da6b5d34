--------------------------- MODULE MCApprovalEngine ---------------------------
(* Instances of ApprovalEngine for TLC.                                      *)
EXTENDS ApprovalEngine, TLC

CONSTANTS r1, r2, r3, e1, e2, e3, t1, t2

\* Two generator tasks for one offer: the duplicate check matters.
SameEntity == r1 :> e1 @@ r2 :> e1

\* Three offers, two of one tenant and one of another.
ThreeEntities == r1 :> e1 @@ r2 :> e2 @@ r3 :> e3

OwnedByT1 == e1 :> t1
OwnedByBoth == e1 :> t1 @@ e2 :> t1 @@ e3 :> t2

RequestSymmetry == Permutations(Requests)
===============================================================================
