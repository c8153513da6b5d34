---------------------------- MODULE MCCatalogSync ----------------------------
(* Instances of CatalogSync for TLC.                                        *)
EXTENDS CatalogSync, TLC

CONSTANTS l1, l2, l3, k1, s1, s2

\* Two listings, the first without a sku; the merchant may add a third.
TwoListed == <<l1, l2>>

FirstKeyless == [l \in Listings |-> IF l = l2 THEN k1 ELSE NoSku]

\* A listing has price and text or neither; at first the second has neither.
AllOrNone == {{}, Optional}

SecondBare == [l \in Listings |-> IF l = l2 THEN Optional ELSE {}]

\* Nothing the code does tells two syncs apart.
Symmetric == Permutations(Syncs)
==============================================================================
