---------------------------- MODULE MCCredentials ----------------------------
(* Instances of Credentials for TLC.                                        *)
EXTENDS Credentials, TLC

CONSTANTS a1, p1, p2, c1
==============================================================================
