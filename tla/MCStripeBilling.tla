--------------------------- MODULE MCStripeBilling ---------------------------
(* Instances of StripeBilling for TLC.                                      *)
EXTENDS StripeBilling, TLC

CONSTANTS t1, t2, i1, i2

\* A change of plan whose payment fails, and what the code has no word for.
SomeMoves == {[status |-> "past_due", price |-> "pro"],
              [status |-> "paused", price |-> "other"]}
==============================================================================
