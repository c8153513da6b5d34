----------------------------- MODULE MCSessions -----------------------------
(* Instances of Sessions for TLC.                                           *)
EXTENDS Sessions, TLC

CONSTANTS u1, u2, t1, t2, t3, q1, q2, k1, k2, k3, k4

\* Two requests of /auth a minute, one of the other routes.
TwoAndOne == [b \in Buckets |-> IF b = "auth" THEN 2 ELSE 1]

\* One user, of two tenants.
OfBoth == {<<u1, t1>>, <<u1, t2>>}

OneOrNone == {t2, NoOne}

LoggedIn == [user |-> u1, tenant |-> t1, token |-> k1]

\* Requests are alike; an unissued refresh token is as good as another.
Symmetric == Permutations(Requests) \cup Permutations(Tokens \ {k1})
==============================================================================
