----------------------------- MODULE MCCostGuard -----------------------------
(* Instances of CostGuard for TLC.                                          *)
EXTENDS CostGuard, TLC

CONSTANTS j1, j2, j3, t1

\* All tasks are the same tenant's: tenants share nothing but the slots.
OneTenant == [j \in Jobs |-> t1]

OneUnit == [t \in Tenants |-> 1]
==============================================================================
