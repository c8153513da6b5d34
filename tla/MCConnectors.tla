---------------------------- MODULE MCConnectors ----------------------------
(* Instances of Connectors for TLC.                                         *)
EXTENDS Connectors, TLC

CONSTANTS c1, c2

\* A product is sent with all it may carry, or with its name and status alone.
Complete == {Optional, {}}

\* Nothing the code does tells two calls apart.
Symmetric == Permutations(Calls)
==============================================================================
