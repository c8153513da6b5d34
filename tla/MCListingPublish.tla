--------------------------- MODULE MCListingPublish ---------------------------
(* Instances of ListingPublish for TLC.                                      *)
EXTENDS ListingPublish, TLC

CONSTANTS a1, a2, o1, o2

\* Two approvals of one offer (a duplicate proposal, or two decisions in turn).
SameOffer == a1 :> o1 @@ a2 :> o1
===============================================================================
