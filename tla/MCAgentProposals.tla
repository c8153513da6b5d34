--------------------------- MODULE MCAgentProposals ---------------------------
(* Instances of AgentProposals for TLC.                                      *)
EXTENDS AgentProposals, TLC

CONSTANTS i1, i2

\* 9.99 at 23 % vat; one cent, where rounding weighs most; nothing; and a vat that leaves
\* the minimum margin within reach but not the target.
SomeEntries ==
    {[cost |-> 9990, vat |-> 23, price |-> 9990],
     [cost |-> 10, vat |-> 0, price |-> 20],
     [cost |-> 0, vat |-> 0, price |-> 20],
     [cost |-> 9990, vat |-> 250, price |-> 9990]}

\* The model states every specification, or none.
AllOrNothing == {{}, AnyField}

\* Dear, and without an ean yet.
Dear == [price |-> 19460, ean |-> FALSE]

Symmetric == Permutations(Workers)
==============================================================================
