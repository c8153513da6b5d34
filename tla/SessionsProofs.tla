----------------------------- MODULE SessionsProofs -----------------------------
(***************************************************************************)
(* Proofs about Sessions, for any users, tenants, tokens, requests and     *)
(* limits: who is let in, who is turned away, and how many in a minute.    *)
(***************************************************************************)
EXTENDS Sessions, TLAPS

Entitlements(u) == {e \in Entitled : e[1] = u}

\* No access token outlives the keys that verify it.
KeysInv == \A a \in access : a.key \in VerificationKeys

\* A refresh token that a session was made of is revoked for good.
UsedInv == \A k \in hist.used : refresh[k] # NoOne /\ refresh[k].dead

\* Every request that passed has been counted, as long as the counter lives, and a
\* counter is not given its minute to live before its window has begun.
CountInv ==
    /\ \A n \in Windows, b \in Buckets :
          /\ <<n, b>> \notin hist.expired => hist.passed[n][b] <= count[n][b]
          /\ hist.passed[n][b] <= Limit[b]
          /\ count[n][b] > 0 => n <= born[n][b]
    /\ \A e \in hist.expired : e[1] < window

\* What a request in flight has read, and is still true of it.
TokenOk(q) ==
    /\ req[q].op = "refresh" <=> req[q].token # NoOne
    /\ req[q].token # NoOne => refresh[req[q].token] # NoOne
    /\ req[q].late => req[q].token \in hist.used /\ req[q].pc \in {"arrived", "first"}
    /\ req[q].window <= window

TenantOk(q) ==
    /\ req[q].op \in {"refresh", "switch", "use"} => req[q].tenant \in taken
    /\ req[q].op = "login" /\ req[q].pc = "commit" => req[q].tenant \in taken
    /\ req[q].op = "register" /\ req[q].pc = "commit" => req[q].tenant \in Tenants

\* Memberships are added with the account only, so what a user in good standing is a
\* member of later, he was entitled to then.
SinceOk(q) ==
    /\ Entitlements(req[q].user) \subseteq req[q].since
    /\ req[q].pc = "second" /\ req[q].op # "refresh" =>
          /\ user[req[q].user] # "absent"
          /\ \A t \in Tenants : <<req[q].user, t>> \in member =>
                <<req[q].user, t>> \in req[q].since
    /\ req[q].pc = "commit" /\ req[q].op # "register" =>
          <<req[q].user, req[q].tenant>> \in req[q].since

RequestOk(q) == req[q] # Free => TokenOk(q) /\ TenantOk(q) /\ SinceOk(q)

RequestsOk == \A q \in Requests : RequestOk(q)

SessionsInv == TypeOK /\ KeysInv /\ UsedInv /\ CountInv /\ RequestsOk

Remembered == [used : SUBSET Tokens, passed : Counters, expired : SUBSET (Windows \X Buckets)]

-------------------------------------------------------------------------------
LEMMA RequestShape ==
    ASSUME TypeOK, NEW q \in Requests, req[q].pc # "free"
    PROVE  /\ req[q] # Free /\ req[q] \in InFlight
           /\ req[q].op \in Ops /\ req[q].pc \in {"arrived", "first", "second", "commit"}
           /\ req[q].user \in Users /\ req[q].tenant \in Tenants \cup {NoOne}
           /\ req[q].token \in Tokens \cup {NoOne} /\ req[q].claims \in Claims \cup {NoOne}
           /\ req[q].window \in Windows
           /\ req[q].since \in SUBSET (Users \X Tenants)
<1>1. req[q] # Free
  BY DEF Free
<1>2. req[q] \in InFlight
  BY <1>1 DEF TypeOK
<1>. QED BY <1>1, <1>2 DEF InFlight

LEMMA InFlightNotFree == \A r \in InFlight : r # Free /\ r.pc # "free"
BY DEF InFlight, Free

\* What no step but that of a registration or a rotated token does otherwise.
Keeps ==
    /\ \A k \in Tokens : refresh[k] # NoOne =>
          refresh'[k] # NoOne /\ (refresh[k].dead => refresh'[k].dead)
    /\ taken \subseteq taken' /\ hist'.used = hist.used
    /\ \A u \in Users : user[u] # "absent" => user'[u] # "absent"
    /\ member' \subseteq member
    /\ \A u \in Users : Entitlements(u)' \subseteq Entitlements(u)
    /\ \A n \in Windows : (n <= window => n <= window') /\ (n < window => n < window')

LEMMA RequestKept ==
    ASSUME SessionsInv, Keeps, NEW q \in Requests, req'[q] = req[q] \/ req'[q] = Free
    PROVE  RequestOk(q)'
<1>1. CASE req'[q] = Free
  BY <1>1 DEF RequestOk
<1>2. CASE req'[q] = req[q] /\ req[q] # Free
  <2>1. req[q] \in InFlight
    BY <1>2 DEF SessionsInv, TypeOK
  <2>2. TokenOk(q) /\ TenantOk(q) /\ SinceOk(q)
    BY <1>2 DEF SessionsInv, RequestsOk, RequestOk
  <2>3. /\ req[q].user \in Users /\ req[q].token \in Tokens \cup {NoOne}
        /\ req[q].window \in Windows
    BY <2>1 DEF InFlight
  <2>4. TokenOk(q)'
    BY <1>2, <2>2, <2>3 DEF TokenOk, Keeps
  <2>5. TenantOk(q)'
    BY <1>2, <2>2 DEF TenantOk, Keeps
  <2>6. SinceOk(q)'
    BY <1>2, <2>2, <2>3 DEF SinceOk, Keeps
  <2>. QED BY <2>4, <2>5, <2>6 DEF RequestOk
<1>. QED BY <1>1, <1>2 DEF RequestOk

\* A step of one request that changes nothing else.
LEMMA RequestStep ==
    ASSUME SessionsInv, UNCHANGED rest, NEW q \in Requests, NEW r \in InFlight \cup {Free},
           req' = [req EXCEPT ![q] = r], RequestOk(q)'
    PROVE  SessionsInv'
<1> USE DEF rest, accounts
<1>1. Keeps
  BY DEF Keeps, Entitlements, Entitled
<1>2. TypeOK'
  BY DEF SessionsInv, TypeOK
<1>3. KeysInv' /\ UsedInv' /\ CountInv'
  BY DEF SessionsInv, KeysInv, VerificationKeys, UsedInv, CountInv
<1>4. ASSUME NEW p \in Requests PROVE RequestOk(p)'
  <2>1. CASE p = q
    BY <2>1
  <2>2. CASE p # q
    BY <2>2, <1>1, RequestKept DEF SessionsInv, TypeOK
  <2>. QED BY <2>1, <2>2
<1>. QED BY <1>2, <1>3, <1>4 DEF SessionsInv, RequestsOk

LEMMA AnsweredStep ==
    ASSUME SessionsInv, UNCHANGED rest, NEW q \in Requests, Answered(q)
    PROVE  SessionsInv'
<1>1. req'[q] = Free
  BY DEF Answered, SessionsInv, TypeOK
<1>2. RequestOk(q)'
  BY <1>1 DEF RequestOk
<1>. QED BY <1>2, RequestStep DEF Answered

LEMMA GoesShape ==
    ASSUME TypeOK, NEW q \in Requests, NEW pc \in {"first", "second", "commit"},
           req[q].pc # "free", Goes(q, pc)
    PROVE  /\ req' = [req EXCEPT ![q] = [req[q] EXCEPT !.pc = pc]]
           /\ [req[q] EXCEPT !.pc = pc] \in InFlight /\ req'[q] = [req[q] EXCEPT !.pc = pc]
           /\ req'[q].pc = pc /\ req'[q].op = req[q].op /\ req'[q].user = req[q].user
           /\ req'[q].tenant = req[q].tenant /\ req'[q].token = req[q].token
           /\ req'[q].late = req[q].late /\ req'[q].since = req[q].since
<1>1. req[q] \in InFlight
  BY RequestShape
<1>2. req' = [req EXCEPT ![q] = [req[q] EXCEPT !.pc = pc]]
  BY DEF Goes
<1>3. req'[q] = [req[q] EXCEPT !.pc = pc]
  BY <1>2 DEF TypeOK
<1>. QED BY <1>1, <1>2, <1>3 DEF InFlight

LEMMA SessionsInit == Init => SessionsInv
<1> SUFFICES ASSUME Init PROVE SessionsInv
  OBVIOUS
<1> USE SessionsAssumption DEF Init
<1>1. /\ FirstSession.user \in Users /\ FirstSession.tenant \in {e[2] : e \in FirstMembers}
      /\ {e[2] : e \in FirstMembers} \subseteq Tenants /\ FirstSession.tenant \in Tenants
  OBVIOUS
<1>2. TypeOK
  <2>1. FirstMembers \subseteq {u \in Users : user[u] # "absent"} \X taken
    OBVIOUS
  <2>2. refresh \in [Tokens -> Session \cup {NoOne}]
        /\ \A k \in Tokens : refresh[k] # NoOne => refresh[k].tenant \in taken
    BY <1>1 DEF Session
  <2>3. access \subseteq Claims /\ \A a \in access : a.tenant \in taken
    BY <1>1 DEF Claims
  <2>4. /\ count \in Counters /\ hist \in Remembered
        /\ born \in [Windows -> [Buckets -> Windows]]
    BY DEF Counters, Remembered, Windows
  <2>5. keys \in [current : 1 .. MaxKeys, previous : (1 .. MaxKeys) \cup {NoOne}]
    OBVIOUS
  <2>6. user \in [Users -> {"absent", "active", "inactive"}] /\ taken \subseteq Tenants
    BY <1>1
  <2>7. /\ window \in Windows /\ arrived \in 0 .. MaxArrivals
        /\ events \in 0 .. MaxEvents /\ req \in [Requests -> InFlight \cup {Free}]
    BY DEF Windows
  <2>. QED BY <2>1, <2>2, <2>3, <2>4, <2>5, <2>6, <2>7 DEF TypeOK
<1>3. KeysInv
  BY DEF KeysInv, VerificationKeys
<1>4. UsedInv
  BY DEF UsedInv
<1>5. CountInv
  BY DEF CountInv
<1>6. RequestsOk
  BY DEF RequestsOk, RequestOk
<1>. QED BY <1>2, <1>3, <1>4, <1>5, <1>6 DEF SessionsInv

-------------------------------------------------------------------------------
(* The limiter.                                                             *)

LEMMA SentShape ==
    ASSUME TypeOK, NEW p \in Sent
    PROVE  /\ p.op \in Ops /\ p.user \in Users /\ p.tenant \in Tenants \cup {NoOne}
           /\ p.token \in Tokens \cup {NoOne} /\ p.claims \in Claims \cup {NoOne}
           /\ p.op = "refresh" <=> p.token # NoOne
           /\ p.token # NoOne => refresh[p.token] # NoOne
           /\ p.op \in {"refresh", "switch", "use"} => p.tenant \in taken
<1>1. taken \subseteq Tenants /\ FirstUsers \subseteq Users /\ Newcomers \subseteq Users
      /\ LoginTenants \subseteq Tenants \cup {NoOne} /\ NoOne \notin Tokens
  BY SessionsAssumption DEF TypeOK
<1>2. \A k \in Tokens : refresh[k] # NoOne =>
          refresh[k].user \in Users /\ refresh[k].tenant \in taken
  BY DEF TypeOK, Session
<1>3. \A a \in access : a \in Claims /\ a.user \in Users /\ a.tenant \in taken
  BY DEF TypeOK, Claims
<1> USE <1>1, <1>2, <1>3 DEF Ops
<1>4. CASE \E u \in Newcomers :
          p = [op |-> "register", user |-> u, tenant |-> NoOne, token |-> NoOne,
               claims |-> NoOne]
  BY <1>4
<1>5. CASE \E u \in FirstUsers, t \in LoginTenants :
          p = [op |-> "login", user |-> u, tenant |-> t, token |-> NoOne, claims |-> NoOne]
  BY <1>5
<1>6. CASE \E k \in {j \in Tokens : refresh[j] # NoOne} :
          p = [op |-> "refresh", user |-> refresh[k].user, tenant |-> refresh[k].tenant,
               token |-> k, claims |-> NoOne]
  BY <1>6
<1>7. CASE \E a \in access, t \in taken :
          p = [op |-> "switch", user |-> a.user, tenant |-> t, token |-> NoOne,
               claims |-> a]
  BY <1>7
<1>8. CASE \E a \in access :
          p = [op |-> "use", user |-> a.user, tenant |-> a.tenant, token |-> NoOne,
               claims |-> a]
  BY <1>8
<1>. QED BY <1>4, <1>5, <1>6, <1>7, <1>8 DEF Sent

LEMMA ArriveStep ==
    ASSUME SessionsInv, NEW q \in Requests, NEW p \in Sent, Arrive(q, p)
    PROVE  SessionsInv'
<1> USE DEF Arrive, accounts
<1> DEFINE r == [pc |-> "arrived", op |-> p.op, user |-> p.user, tenant |-> p.tenant,
                 token |-> p.token, claims |-> p.claims, window |-> window,
                 since |-> Entitlements(p.user), late |-> p.token \in hist.used]
<1>1. r \in InFlight
  <2>1. Entitlements(p.user) \subseteq Users \X Tenants
    BY DEF Entitlements, Entitled, SessionsInv, TypeOK
  <2>2. /\ p.op \in Ops /\ p.user \in Users /\ p.tenant \in Tenants \cup {NoOne}
        /\ p.token \in Tokens \cup {NoOne} /\ p.claims \in Claims \cup {NoOne}
        /\ window \in Windows
    BY SentShape DEF SessionsInv, TypeOK
  <2>. QED BY <2>1, <2>2 DEF InFlight
<1>2. req' = [req EXCEPT ![q] = r] /\ req'[q] = r
  BY DEF Entitlements, SessionsInv, TypeOK
<1>3. Keeps
  BY DEF Keeps, Entitlements, Entitled
<1>4. TypeOK'
  <2>1. req' \in [Requests -> InFlight \cup {Free}] /\ arrived' \in 0 .. MaxArrivals
    BY <1>1, <1>2, SessionsAssumption DEF SessionsInv, TypeOK
  <2>. QED BY <2>1 DEF SessionsInv, TypeOK
<1>5. KeysInv' /\ UsedInv' /\ CountInv'
  BY DEF SessionsInv, KeysInv, VerificationKeys, UsedInv, CountInv
<1>6. RequestOk(q)'
  <2>1. TokenOk(q)'
    <3>1. /\ p.op = "refresh" <=> p.token # NoOne
          /\ p.token # NoOne => refresh[p.token] # NoOne
      BY SentShape DEF SessionsInv
    <3>2. /\ req'[q].op = p.op /\ req'[q].token = p.token /\ req'[q].pc = "arrived"
          /\ req'[q].late = (p.token \in hist.used) /\ req'[q].window = window
          /\ window' = window
      BY <1>2
    <3>3. window <= window
      BY SessionsAssumption DEF SessionsInv, TypeOK, Windows
    <3>. QED BY <3>1, <3>2, <3>3 DEF TokenOk
  <2>2. TenantOk(q)'
    BY <1>2, SentShape DEF TenantOk, SessionsInv
  <2>3. SinceOk(q)'
    BY <1>2 DEF SinceOk, Entitlements, Entitled
  <2>. QED BY <2>1, <2>2, <2>3 DEF RequestOk
<1>7. ASSUME NEW o \in Requests, o # q PROVE RequestOk(o)'
  BY <1>2, <1>3, <1>7, RequestKept DEF SessionsInv, TypeOK
<1>. QED BY <1>4, <1>5, <1>6, <1>7 DEF SessionsInv, RequestsOk

LEMMA RequestFacts ==
    ASSUME SessionsInv, NEW q \in Requests, req[q].pc # "free"
    PROVE  TokenOk(q) /\ TenantOk(q) /\ SinceOk(q)
BY RequestShape DEF SessionsInv, RequestsOk, RequestOk

Plus(c, n, b) == [c EXCEPT ![n][b] = @ + 1]

LEMMA CounterPlus ==
    ASSUME NEW c \in Counters, NEW n \in Windows, NEW b \in Buckets
    PROVE  /\ Plus(c, n, b) \in Counters /\ Plus(c, n, b)[n][b] = c[n][b] + 1
           /\ \A m \in Windows, a \in Buckets :
                 m # n \/ a # b => Plus(c, n, b)[m][a] = c[m][a]
<1>1. c[n] \in [Buckets -> Nat]
  BY DEF Counters
<1>2. [c[n] EXCEPT ![b] = @ + 1] \in [Buckets -> Nat]
  BY <1>1
<1>3. Plus(c, n, b) = [c EXCEPT ![n] = [c[n] EXCEPT ![b] = @ + 1]]
  BY DEF Plus
<1>. QED BY <1>1, <1>2, <1>3 DEF Counters

LEMMA CountsStep ==
    ASSUME SessionsInv, NEW q \in Requests, Counts(q)
    PROVE  SessionsInv'
<1>1. PICK n \in Windows, b \in Buckets :
          n = req[q].window /\ b = Bucket(q) /\ Limit[b] \in Nat
  <2>1. req[q].window \in Windows /\ Bucket(q) \in Buckets
    BY RequestShape DEF Counts, Bucket, BucketOf, Buckets, SessionsInv
  <2>. QED BY <2>1, SessionsAssumption
<1>2. /\ count \in Counters /\ hist.passed \in Counters
      /\ hist.passed[n] \in [Buckets -> Nat]
  BY <1>1 DEF SessionsInv, TypeOK, Counters
<1>3. /\ count' \in Counters /\ count'[n][b] = count[n][b] + 1
      /\ \A m \in Windows, a \in Buckets :
            m # n \/ a # b => count'[m][a] = count[m][a]
  <2>1. count' = Plus(count, n, b)
    BY <1>1 DEF Plus, Counts, Increments
  <2>2. /\ Plus(count, n, b) \in Counters /\ Plus(count, n, b)[n][b] = count[n][b] + 1
        /\ \A m \in Windows, a \in Buckets :
              m # n \/ a # b => Plus(count, n, b)[m][a] = count[m][a]
    BY <1>2, CounterPlus
  <2>. QED BY <2>1, <2>2
<1>4. \/ Answered(q) /\ hist' = hist
      \/ Goes(q, "first") /\ ~(count'[n][b] > Limit[b]) /\ <<n, b>> \in hist.expired /\ hist' = hist
      \/ /\ ~(count'[n][b] > Limit[b]) /\ Goes(q, "first") /\ <<n, b>> \notin hist.expired
         /\ hist' = [hist EXCEPT !.passed = Plus(hist.passed, n, b)]
  BY <1>1 DEF Plus, Counts, Passes
<1> USE DEF accounts
<1>10. UNCHANGED <<accounts, refresh, access, keys, window, arrived, events>>
  BY DEF Counts
<1>11. window \in Nat /\ Windows \subseteq Nat /\ n <= window
  <2>1. n <= window
    BY <1>1, RequestFacts DEF Counts, TokenOk
  <2>. QED BY <2>1, SessionsAssumption DEF SessionsInv, TypeOK, Windows
<1>12. /\ born' \in [Windows -> [Buckets -> Windows]]
       /\ \A m \in Windows, a \in Buckets : count'[m][a] > 0 => m <= born'[m][a]
  <2>1. born \in [Windows -> [Buckets -> Windows]] /\ window \in Windows
    BY DEF SessionsInv, TypeOK
  <2>2. \A m \in Windows, a \in Buckets : count[m][a] > 0 => m <= born[m][a]
    BY DEF SessionsInv, CountInv
  <2>3. CASE count[n][b] = 0
    <3>1. born' = [born EXCEPT ![n][b] = window]
      BY <1>1, <2>3 DEF Counts, Increments
    <3>2. /\ born' \in [Windows -> [Buckets -> Windows]] /\ born'[n][b] = window
          /\ \A m \in Windows, a \in Buckets : m # n \/ a # b => born'[m][a] = born[m][a]
      BY <1>1, <2>1, <3>1
    <3>. QED BY <1>3, <1>11, <2>2, <3>2
  <2>4. CASE count[n][b] # 0
    <3>1. born' = born /\ count[n][b] > 0
      BY <1>1, <1>2, <2>4 DEF Counts, Increments, Counters
    <3>. QED BY <1>3, <2>1, <2>2, <3>1
  <2>. QED BY <2>3, <2>4
<1>13. \A m \in Windows, a \in Buckets :
          /\ count[m][a] \in Nat /\ hist.passed[m][a] \in Nat /\ count[m][a] <= count'[m][a]
          /\ <<m, a>> \notin hist.expired => hist.passed[m][a] <= count[m][a]
          /\ hist.passed[m][a] <= Limit[a]
  <2>1. \A m \in Windows, a \in Buckets : count[m][a] \in Nat /\ hist.passed[m][a] \in Nat
    BY <1>2 DEF Counters
  <2>2. \A m \in Windows, a \in Buckets : count[m][a] <= count'[m][a]
    BY <1>3, <2>1
  <2>. QED BY <2>1, <2>2 DEF SessionsInv, CountInv
<1>14. \A e \in hist.expired : e[1] < window
  BY DEF SessionsInv, CountInv
<1>5. hist'.used = hist.used /\ hist' \in Remembered /\ CountInv'
  <2>1. CASE hist' = hist
    <3>1. ASSUME NEW m \in Windows, NEW a \in Buckets
          PROVE  /\ <<m, a>> \notin hist'.expired => hist'.passed[m][a] <= count'[m][a]
                 /\ hist'.passed[m][a] <= Limit[a]
      <4>1. count'[m][a] \in Nat
        BY <1>3 DEF Counters
      <4>2. hist'.passed[m][a] = hist.passed[m][a] /\ hist'.expired = hist.expired
        BY <2>1
      <4>3. /\ count[m][a] \in Nat /\ hist.passed[m][a] \in Nat /\ count[m][a] <= count'[m][a]
            /\ <<m, a>> \notin hist.expired => hist.passed[m][a] <= count[m][a]
            /\ hist.passed[m][a] <= Limit[a]
        BY <1>13
      <4>. QED BY <4>1, <4>2, <4>3
    <3>. QED BY <2>1, <1>10, <1>12, <1>14, <3>1 DEF CountInv, SessionsInv, TypeOK, Remembered
  <2>2. CASE /\ ~(count'[n][b] > Limit[b]) /\ <<n, b>> \notin hist.expired
             /\ hist' = [hist EXCEPT !.passed = Plus(hist.passed, n, b)]
    <3>1. /\ hist'.used = hist.used /\ hist' \in Remembered
          /\ hist'.passed = Plus(hist.passed, n, b) /\ hist'.expired = hist.expired
      <4>1. /\ hist'.passed = Plus(hist.passed, n, b) /\ hist'.used = hist.used
            /\ hist'.expired = hist.expired
        BY <2>2 DEF SessionsInv, TypeOK
      <4>2. Plus(hist.passed, n, b) \in Counters
        BY <1>1, <1>2, CounterPlus
      <4> HIDE DEF Plus
      <4>. QED BY <2>2, <4>1, <4>2 DEF SessionsInv, TypeOK, Remembered
    <3>2. /\ hist'.passed[n][b] = hist.passed[n][b] + 1
          /\ \A m \in Windows, a \in Buckets :
                m # n \/ a # b => hist'.passed[m][a] = hist.passed[m][a]
      <4> DEFINE p == Plus(hist.passed, n, b)
      <4>1. /\ p[n][b] = hist.passed[n][b] + 1
            /\ \A m \in Windows, a \in Buckets :
                  m # n \/ a # b => p[m][a] = hist.passed[m][a]
        BY <1>2, CounterPlus
      <4> HIDE DEF p
      <4>2. hist'.passed = p
        BY <3>1 DEF p
      <4>. QED BY <4>1, <4>2
    <3>3. ASSUME NEW m \in Windows, NEW a \in Buckets
          PROVE  /\ <<m, a>> \notin hist.expired => hist'.passed[m][a] <= count'[m][a]
                 /\ hist'.passed[m][a] <= Limit[a]
      <4>1. CASE m = n /\ a = b
        BY <1>13, <4>1, <2>2, <3>2, <1>1, <1>3
      <4>2. CASE m # n \/ a # b
        BY <1>13, <4>2, <3>2, <1>3
      <4>. QED BY <4>1, <4>2
    <3>. QED BY <1>10, <1>12, <1>14, <3>1, <3>3 DEF CountInv
  <2>. QED BY <2>1, <2>2, <1>4
<1>6. Keeps
  BY <1>5, <1>10 DEF Keeps, Entitlements, Entitled
<1>7. KeysInv' /\ UsedInv'
  BY <1>5, <1>10 DEF SessionsInv, KeysInv, VerificationKeys, UsedInv
<1>8. CASE Answered(q)
  <2>1. TypeOK'
    BY <1>3, <1>5, <1>8, <1>10, <1>12 DEF Answered, SessionsInv, TypeOK, Remembered
  <2>2. RequestsOk'
    BY <1>6, <1>8, RequestKept DEF Answered, SessionsInv, TypeOK, RequestsOk
  <2>. QED BY <1>5, <1>7, <2>1, <2>2 DEF SessionsInv
<1>9. CASE Goes(q, "first")
  <2>1. TokenOk(q) /\ TenantOk(q) /\ SinceOk(q)
    BY <1>4, RequestShape DEF Counts, SessionsInv, RequestsOk, RequestOk
  <2>2. /\ req' = [req EXCEPT ![q] = [req[q] EXCEPT !.pc = "first"]]
        /\ [req[q] EXCEPT !.pc = "first"] \in InFlight
        /\ req'[q].pc = "first" /\ req'[q].op = req[q].op /\ req'[q].user = req[q].user
        /\ req'[q].tenant = req[q].tenant /\ req'[q].token = req[q].token
        /\ req'[q].late = req[q].late /\ req'[q].since = req[q].since
    BY <1>9, GoesShape DEF Counts, SessionsInv
  <2>3. RequestOk(q)'
    BY <2>1, <2>2, <1>5, <1>6, <1>10, RequestShape
    DEF Counts, RequestOk, TokenOk, TenantOk, SinceOk, Entitlements, Entitled, SessionsInv
  <2>4. TypeOK'
    BY <2>2, <1>3, <1>5, <1>10, <1>12 DEF SessionsInv, TypeOK, Remembered
  <2>5. ASSUME NEW p \in Requests, p # q PROVE RequestOk(p)'
    BY <2>2, <2>5, <1>6, RequestKept DEF SessionsInv, TypeOK
  <2>. QED BY <1>5, <1>7, <2>3, <2>4, <2>5 DEF SessionsInv, RequestsOk
<1>. QED BY <1>4, <1>8, <1>9

-------------------------------------------------------------------------------
(* The handlers.                                                            *)

\* The request has read what it needs and goes on.
LEMMA GoesStep ==
    ASSUME SessionsInv, UNCHANGED rest, NEW q \in Requests, req[q].pc # "free",
           NEW pc \in {"second", "commit"}, Goes(q, pc), ~req[q].late,
           pc = "commit" => req[q].op \in {"login", "refresh", "switch"}
                            /\ req[q].tenant \in taken,
           pc = "second" /\ req[q].op # "refresh" =>
               /\ user[req[q].user] # "absent"
               /\ \A t \in Tenants : <<req[q].user, t>> \in member =>
                     <<req[q].user, t>> \in req[q].since,
           pc = "commit" => <<req[q].user, req[q].tenant>> \in req[q].since
    PROVE  SessionsInv'
<1>1. TokenOk(q) /\ TenantOk(q) /\ SinceOk(q)
  BY RequestFacts
<1>2. /\ req' = [req EXCEPT ![q] = [req[q] EXCEPT !.pc = pc]]
      /\ [req[q] EXCEPT !.pc = pc] \in InFlight
      /\ req'[q].pc = pc /\ req'[q].op = req[q].op /\ req'[q].user = req[q].user
      /\ req'[q].tenant = req[q].tenant /\ req'[q].token = req[q].token
      /\ req'[q].late = req[q].late /\ req'[q].since = req[q].since
  BY GoesShape DEF SessionsInv
<1>3. TokenOk(q)'
  BY <1>1, <1>2 DEF TokenOk, rest
<1>4. TenantOk(q)'
  BY <1>1, <1>2 DEF TenantOk, rest, accounts
<1>5. SinceOk(q)'
  BY <1>1, <1>2 DEF SinceOk, Entitlements, Entitled, rest, accounts
<1>. QED BY <1>2, <1>3, <1>4, <1>5, RequestStep DEF RequestOk

\* Likewise, with the tenant it found.
LEMMA TakesStep ==
    ASSUME SessionsInv, UNCHANGED rest, NEW q \in Requests, req[q].pc # "free", ~req[q].late,
           NEW t \in Tenants,
           req' = [req EXCEPT ![q].pc = "commit", ![q].tenant = t],
           \/ req[q].op = "register"
           \/ req[q].op = "login" /\ t \in taken /\ <<req[q].user, t>> \in req[q].since
    PROVE  SessionsInv'
<1> DEFINE r == [req[q] EXCEPT !.pc = "commit", !.tenant = t]
<1>1. TokenOk(q) /\ TenantOk(q) /\ SinceOk(q)
  BY RequestFacts
<1>2. r \in InFlight /\ req' = [req EXCEPT ![q] = r] /\ req'[q] = r
  <2>1. req[q] \in InFlight
    BY RequestShape DEF SessionsInv
  <2>2. r \in InFlight
    BY <2>1 DEF InFlight
  <2>3. req' = [req EXCEPT ![q] = r]
    OBVIOUS
  <2>. QED BY <2>2, <2>3 DEF SessionsInv, TypeOK
<1>3. /\ req'[q].pc = "commit" /\ req'[q].op = req[q].op /\ req'[q].user = req[q].user
      /\ req'[q].tenant = t /\ req'[q].token = req[q].token
      /\ req'[q].window = req[q].window
      /\ req'[q].late = req[q].late /\ req'[q].since = req[q].since
  <2>1. req[q] \in InFlight
    BY RequestShape DEF SessionsInv
  <2>. QED BY <1>2, <2>1 DEF InFlight
<1> HIDE DEF r
<1>4. TokenOk(q)'
  BY <1>1, <1>3 DEF TokenOk, rest
<1>5. TenantOk(q)'
  BY <1>1, <1>3 DEF TenantOk, rest, accounts
<1>6. SinceOk(q)'
  BY <1>1, <1>3 DEF SinceOk, Entitlements, Entitled, rest, accounts
<1>. QED BY <1>2, <1>4, <1>5, <1>6, RequestStep DEF RequestOk

\* A late refresh token gets no further than the first read.
LEMMA NotLate ==
    ASSUME SessionsInv, NEW q \in Requests, req[q].pc # "free",
           req[q].op # "refresh" \/ req[q].pc \in {"second", "commit"}
    PROVE  ~req[q].late
<1>1. req[q].late => req[q].token \in Tokens
  BY RequestFacts DEF TokenOk, SessionsInv, TypeOK
<1>. QED BY <1>1, RequestFacts, SessionsAssumption DEF TokenOk

LEMMA RegisterStep ==
    ASSUME SessionsInv, NEW q \in Requests, RegisterReads(q) \/ RegisterLoses(q)
    PROVE  SessionsInv'
<1>1. CASE Answered(q)
  BY <1>1, AnsweredStep DEF RegisterReads, RegisterLoses
<1>2. ASSUME NEW t \in Tenants \ taken, RegisterReads(q),
             req' = [req EXCEPT ![q].pc = "commit", ![q].tenant = t]
      PROVE  SessionsInv'
  BY <1>2, TakesStep, NotLate DEF RegisterReads, At
<1>. QED BY <1>1, <1>2 DEF RegisterReads, RegisterLoses

LEMMA LoginReadsStep ==
    ASSUME SessionsInv, NEW q \in Requests, LoginReads(q)
    PROVE  SessionsInv'
<1>1. CASE Answered(q)
  BY <1>1, AnsweredStep DEF LoginReads
<1>2. CASE user[req[q].user] = "active" /\ Goes(q, "second")
  <2>1. \A t \in Tenants : <<req[q].user, t>> \in member => <<req[q].user, t>> \in req[q].since
    BY <1>2, RequestFacts DEF LoginReads, At, SinceOk, Entitlements, Entitled
  <2>. QED BY <1>2, <2>1, GoesStep, NotLate DEF LoginReads, At
<1>. QED BY <1>1, <1>2 DEF LoginReads

LEMMA LoginChoosesStep ==
    ASSUME SessionsInv, NEW q \in Requests, LoginChooses(q)
    PROVE  SessionsInv'
<1>1. CASE Answered(q)
  BY <1>1, AnsweredStep DEF LoginChooses
<1>2. ASSUME NEW t \in LogsInto(q),
             req' = [req EXCEPT ![q].pc = "commit", ![q].tenant = t]
      PROVE  SessionsInv'
  <2>1. t \in Tenants /\ <<req[q].user, t>> \in member
    BY DEF LogsInto, TenantsOf
  <2>2. t \in taken /\ <<req[q].user, t>> \in req[q].since
    BY <2>1, RequestFacts DEF LoginChooses, At, SinceOk, SessionsInv, TypeOK
  <2>. QED BY <1>2, <2>1, <2>2, TakesStep, NotLate DEF LoginChooses, At
<1>. QED BY <1>1, <1>2 DEF LoginChooses

LEMMA RefreshReadsStep ==
    ASSUME SessionsInv, NEW q \in Requests, RefreshReads(q)
    PROVE  SessionsInv'
<1>1. CASE Answered(q)
  BY <1>1, AnsweredStep DEF RefreshReads
<1>2. CASE StoredIsGood(req[q].token) /\ Goes(q, "second")
  <2>1. ~req[q].late
    BY <1>2, RequestFacts DEF RefreshReads, At, TokenOk, StoredIsGood, SessionsInv, UsedInv
  <2>. QED BY <1>2, <2>1, GoesStep DEF RefreshReads, At
<1>. QED BY <1>1, <1>2 DEF RefreshReads

LEMMA RefreshChecksStep ==
    ASSUME SessionsInv, NEW q \in Requests, RefreshChecks(q)
    PROVE  SessionsInv'
<1> USE DEF RefreshChecks, At
<1>1. /\ req[q].token \in Tokens /\ refresh[req[q].token] \in Session
      /\ req[q].tenant \in taken /\ req[q].user \in Users
  BY RequestFacts, RequestShape DEF TokenOk, TenantOk, SessionsInv, TypeOK
<1>2. CASE user[req[q].user] = "active" /\ IsMember(req[q].user, req[q].tenant)
  <2>1. <<req[q].user, req[q].tenant>> \in req[q].since
    BY <1>2, RequestFacts DEF SinceOk, IsMember, Entitlements, Entitled
  <2>. QED BY <1>1, <1>2, <2>1, GoesStep, NotLate DEF rest
<1>3. CASE ~(user[req[q].user] = "active" /\ IsMember(req[q].user, req[q].tenant))
  <2> DEFINE k == req[q].token
             dead == [refresh[k] EXCEPT !.dead = TRUE]
  <2>1. refresh' = [refresh EXCEPT ![k] = dead] /\ Answered(q)
    BY <1>3
  <2>2. dead \in Session /\ dead # NoOne /\ dead.dead /\ dead.tenant = refresh[k].tenant
    BY <1>1, SessionsAssumption DEF Session
  <2> HIDE DEF dead
  <2>3. refresh'[k] = dead /\ \A j \in Tokens \ {k} : refresh'[j] = refresh[j]
    BY <1>1, <2>1 DEF SessionsInv, TypeOK
  <2> USE DEF accounts
  <2>4. Keeps
    BY <1>1, <2>2, <2>3 DEF Keeps, Entitlements, Entitled
  <2>5. TypeOK'
    <3>1. refresh' \in [Tokens -> Session \cup {NoOne}]
      BY <1>1, <2>1, <2>2 DEF SessionsInv, TypeOK
    <3>2. \A j \in Tokens : refresh'[j] # NoOne => refresh'[j].tenant \in taken'
      BY <1>1, <2>2, <2>3, SessionsAssumption DEF SessionsInv, TypeOK
    <3>3. req' \in [Requests -> InFlight \cup {Free}]
      BY <2>1 DEF Answered, SessionsInv, TypeOK
    <3>. QED BY <3>1, <3>2, <3>3 DEF SessionsInv, TypeOK
  <2>6. KeysInv' /\ CountInv'
    BY DEF SessionsInv, KeysInv, VerificationKeys, CountInv
  <2>7. UsedInv'
    BY <2>2, <2>3 DEF SessionsInv, TypeOK, UsedInv
  <2>8. RequestsOk'
    BY <2>1, <2>4, RequestKept DEF Answered, SessionsInv, TypeOK, RequestsOk
  <2>. QED BY <2>5, <2>6, <2>7, <2>8 DEF SessionsInv
<1>. QED BY <1>2, <1>3

LEMMA UnverifiedStep ==
    ASSUME SessionsInv, NEW q \in Requests, Unverified(q)
    PROVE  SessionsInv'
BY AnsweredStep DEF Unverified

LEMMA IdentifiesStep ==
    ASSUME SessionsInv, NEW q \in Requests, Identifies(q)
    PROVE  SessionsInv'
<1>1. CASE Answered(q)
  BY <1>1, AnsweredStep DEF Identifies
<1>2. CASE user[req[q].user] = "active" /\ Goes(q, "second")
  <2>1. \A t \in Tenants : <<req[q].user, t>> \in member => <<req[q].user, t>> \in req[q].since
    BY <1>2, RequestFacts DEF Identifies, At, SinceOk, Entitlements, Entitled
  <2>. QED BY <1>2, <2>1, GoesStep, NotLate DEF Identifies, At
<1>. QED BY <1>1, <1>2 DEF Identifies

LEMMA SwitchChecksStep ==
    ASSUME SessionsInv, NEW q \in Requests, SwitchChecks(q)
    PROVE  SessionsInv'
<1>1. CASE Answered(q)
  BY <1>1, AnsweredStep DEF SwitchChecks
<1>2. CASE IsMember(req[q].user, req[q].tenant) /\ Goes(q, "commit")
  <2>1. req[q].tenant \in taken /\ req[q].tenant \in Tenants
    BY RequestFacts DEF SwitchChecks, At, TenantOk, SessionsInv, TypeOK
  <2>2. <<req[q].user, req[q].tenant>> \in req[q].since
    BY <1>2, <2>1, RequestFacts DEF SwitchChecks, At, SinceOk, IsMember
  <2>. QED BY <1>2, <2>1, <2>2, GoesStep, NotLate DEF SwitchChecks, At
<1>. QED BY <1>1, <1>2 DEF SwitchChecks

LEMMA ServesStep ==
    ASSUME SessionsInv, NEW q \in Requests, Serves(q) \/ Refuses(q)
    PROVE  SessionsInv'
BY AnsweredStep DEF Serves, Refuses

\* The commit, with whatever registration comes with it.
LEMMA IssuesStep ==
    ASSUME SessionsInv, NEW q \in Requests, Issues(q)
    PROVE  SessionsInv'
<1> DEFINE u == req[q].user
           t == req[q].tenant
           session == [user |-> u, tenant |-> t, dead |-> FALSE]
           claims == [user |-> u, tenant |-> t, key |-> keys.current]
<1>1. /\ TokenOk(q) /\ ~req[q].late /\ req[q].token \in Tokens \cup {NoOne}
      /\ u \in Users /\ t \in Tenants
      /\ req[q].op # "register" => t \in taken
  <2>1. req[q].pc = "commit"
    BY DEF Issues
  <2>2. req[q].op \in Ops /\ TenantOk(q) /\ taken \subseteq Tenants
    BY <2>1, RequestShape, RequestFacts DEF SessionsInv, TypeOK
  <2>. QED BY <2>1, <2>2, RequestShape, RequestFacts, NotLate DEF TenantOk, Ops, SessionsInv
<1>2. PICK k \in Tokens :
          /\ refresh[k] = NoOne
          /\ refresh' = [j \in Tokens |->
                IF j = k THEN session
                ELSE IF j = req[q].token THEN [refresh[j] EXCEPT !.dead = TRUE]
                ELSE refresh[j]]
  BY DEF Issues
<1>3. /\ access' = access \cup {claims}
      /\ hist' = [hist EXCEPT !.used = @ \cup ({req[q].token} \ {NoOne})]
      /\ UNCHANGED <<keys, window, count, born, arrived, events>>
      /\ IF req[q].op = "register" THEN Registers(q) ELSE UNCHANGED accounts
  BY DEF Issues
<1>4. /\ user' \in [Users -> {"absent", "active", "inactive"}]
      /\ taken \subseteq taken' /\ taken' \subseteq Tenants /\ t \in taken'
      /\ member' \subseteq {v \in Users : user'[v] # "absent"} \X taken'
      /\ \A v \in Users : user[v] # "absent" =>
            /\ user'[v] # "absent"
            /\ \A z \in Tenants : <<v, z>> \in member' => <<v, z>> \in member
  <2>1. CASE Registers(q)
    BY <2>1, <1>1 DEF Registers, SessionsInv, TypeOK
  <2>2. CASE UNCHANGED accounts /\ req[q].op # "register"
    BY <2>2, <1>1 DEF accounts, SessionsInv, TypeOK
  <2>. QED BY <1>3, <2>1, <2>2
<1>5. session \in Session /\ session # NoOne /\ session.tenant = t
  <2>1. session \in Session /\ session.tenant = t
    BY <1>1 DEF Session
  <2>2. NoOne \notin Session
    BY SessionsAssumption
  <2>. HIDE DEF session
  <2>. QED BY <2>1, <2>2
<1>6. claims \in Claims /\ claims.tenant = t /\ claims.key \in VerificationKeys
  BY <1>1 DEF Claims, VerificationKeys, SessionsInv, TypeOK
<1> HIDE DEF session, claims
<1>7. /\ \A j \in Tokens : refresh[j] # NoOne =>
            /\ refresh'[j] # NoOne /\ refresh'[j] \in Session
            /\ refresh'[j].tenant = refresh[j].tenant
            /\ refresh[j].dead => refresh'[j].dead
            /\ j = req[q].token => refresh'[j].dead
      /\ refresh' \in [Tokens -> Session \cup {NoOne}]
      /\ \A j \in Tokens : refresh'[j] # NoOne => refresh'[j].tenant \in taken'
  <2>1. ASSUME NEW j \in Tokens, refresh[j] # NoOne
        PROVE  /\ refresh'[j] # NoOne /\ refresh'[j] \in Session
               /\ refresh'[j].tenant = refresh[j].tenant
               /\ refresh[j].dead => refresh'[j].dead
               /\ j = req[q].token => refresh'[j].dead
    <3>1. refresh[j] \in Session
      BY <2>1 DEF SessionsInv, TypeOK
    <3>2. /\ [refresh[j] EXCEPT !.dead = TRUE] \in Session
          /\ [refresh[j] EXCEPT !.dead = TRUE].tenant = refresh[j].tenant
          /\ [refresh[j] EXCEPT !.dead = TRUE].dead
      BY <3>1 DEF Session
    <3>. QED BY <1>2, <2>1, <3>1, <3>2, SessionsAssumption
  <2>2. ASSUME NEW j \in Tokens, refresh[j] = NoOne
        PROVE  /\ refresh'[j] \in Session \cup {NoOne}
               /\ refresh'[j] # NoOne => refresh'[j].tenant \in taken'
    <3>1. j # req[q].token
      BY <1>1, <2>2, SessionsAssumption DEF TokenOk
    <3>. QED BY <1>2, <1>4, <1>5, <2>2, <3>1
  <2>3. \A j \in Tokens : refresh[j] # NoOne => refresh[j].tenant \in taken
    BY DEF SessionsInv, TypeOK
  <2>. QED BY <1>2, <1>4, <2>1, <2>2, <2>3
<1>8. /\ hist'.used = hist.used \cup ({req[q].token} \ {NoOne})
      /\ hist'.passed = hist.passed /\ hist'.expired = hist.expired /\ hist' \in Remembered
  BY <1>1, <1>3 DEF SessionsInv, TypeOK, Remembered
<1>9. ASSUME NEW p \in Requests
      PROVE  req'[p] \in InFlight \cup {Free} /\ RequestOk(p)'
  <2>1. CASE p = q \/ req[p] = Free
    BY <2>1 DEF Issues, RequestOk
  <2>2. CASE p # q /\ req[p] # Free
    <3> DEFINE more == {e \in Entitled' : e[1] = req[p].user}
               r == [req[p] EXCEPT !.since = @ \cup more]
    <3>1. req[p] \in InFlight /\ req[p].pc # "free" /\ req[p].token \in Tokens \cup {NoOne}
          /\ req[p].user \in Users
      BY <2>2, InFlightNotFree, RequestShape DEF SessionsInv, TypeOK
    <3>2. TokenOk(p) /\ TenantOk(p) /\ SinceOk(p)
      BY <3>1, RequestFacts
    <3>3. req'[p] = r
      BY <2>2 DEF Issues
    <3>4. more \subseteq Users \X Tenants
      BY <1>4 DEF Entitled
    <3> HIDE DEF more
    <3>5. /\ r \in InFlight /\ r.pc = req[p].pc /\ r.op = req[p].op /\ r.user = req[p].user
          /\ r.tenant = req[p].tenant /\ r.token = req[p].token /\ r.late = req[p].late
          /\ r.window = req[p].window
          /\ r.since = req[p].since \cup more
      BY <3>1, <3>4 DEF InFlight
    <3> HIDE DEF r
    <3>6. TokenOk(p)'
      BY <3>1, <3>2, <3>3, <3>5, <1>3, <1>7, <1>8 DEF TokenOk
    <3>7. TenantOk(p)'
      BY <3>2, <3>3, <3>5, <1>4 DEF TenantOk
    <3>8. SinceOk(p)'
      <4>1. Entitlements(req[p].user)' \subseteq req'[p].since
        BY <3>3, <3>5 DEF Entitlements, more
      <4>2. req'[p].pc = "second" /\ req'[p].op # "refresh" =>
                /\ user'[req'[p].user] # "absent"
                /\ \A z \in Tenants : <<req'[p].user, z>> \in member' =>
                      <<req'[p].user, z>> \in req'[p].since
        BY <3>1, <3>2, <3>3, <3>5, <1>4 DEF SinceOk
      <4>3. req'[p].pc = "commit" /\ req'[p].op # "register" =>
                <<req'[p].user, req'[p].tenant>> \in req'[p].since
        BY <3>2, <3>3, <3>5 DEF SinceOk
      <4>. QED BY <4>1, <4>2, <4>3 DEF SinceOk
    <3>. QED BY <3>3, <3>5, <3>6, <3>7, <3>8 DEF RequestOk
  <2>. QED BY <2>1, <2>2
<1>10. TypeOK'
  <2>1. access' \subseteq Claims /\ \A a \in access' : a.tenant \in taken'
    BY <1>3, <1>4, <1>6 DEF SessionsInv, TypeOK
  <2>2. req' \in [Requests -> InFlight \cup {Free}]
    BY <1>9 DEF Issues
  <2>. QED BY <1>3, <1>4, <1>7, <1>8, <2>1, <2>2 DEF SessionsInv, TypeOK, Remembered
<1>11. KeysInv'
  BY <1>3, <1>6 DEF SessionsInv, KeysInv, VerificationKeys
<1>12. UsedInv'
  BY <1>1, <1>7, <1>8 DEF SessionsInv, TypeOK, UsedInv, TokenOk
<1>13. CountInv'
  BY <1>3, <1>8 DEF SessionsInv, CountInv
<1>. QED BY <1>9, <1>10, <1>11, <1>12, <1>13 DEF SessionsInv, RequestsOk

-------------------------------------------------------------------------------
(* Support, time and the operator.                                          *)

\* What happens to accounts, tokens and keys leaves the requests in flight alone.
LEMMA WorldStep ==
    ASSUME SessionsInv, Keeps, TypeOK', KeysInv', UsedInv',
           UNCHANGED <<count, born, req, hist>>
    PROVE  SessionsInv'
<1>1. CountInv'
  <2>1. \A e \in hist.expired : e[1] \in Windows /\ e[1] < window
    BY DEF SessionsInv, TypeOK, CountInv
  <2>. QED BY <2>1 DEF SessionsInv, CountInv, Keeps
<1>2. RequestsOk'
  BY RequestKept DEF RequestsOk
<1>. QED BY <1>1, <1>2 DEF SessionsInv

LEMMA DeactivatesStep ==
    ASSUME SessionsInv, NEW u \in Users, Deactivates(u)
    PROVE  SessionsInv'
<1> USE SessionsAssumption DEF Deactivates, Happens, SessionsInv
<1>1. Keeps
  BY DEF Keeps, Entitlements, Entitled, TypeOK
<1>2. TypeOK'
  <2>1. user' \in [Users -> {"absent", "active", "inactive"}]
    BY DEF TypeOK
  <2>2. \A v \in Users : user[v] # "absent" => user'[v] # "absent"
    BY DEF TypeOK
  <2>3. member' \subseteq {v \in Users : user'[v] # "absent"} \X taken'
    BY <2>2 DEF TypeOK
  <2>4. events' \in 0 .. MaxEvents
    BY DEF TypeOK
  <2>. QED BY <2>1, <2>3, <2>4 DEF TypeOK
<1>3. KeysInv' /\ UsedInv'
  BY DEF KeysInv, VerificationKeys, UsedInv
<1>. QED BY <1>1, <1>2, <1>3, WorldStep

LEMMA RemovesStep ==
    ASSUME SessionsInv, NEW e \in member, Removes(e)
    PROVE  SessionsInv'
<1> USE SessionsAssumption DEF Removes, Happens, SessionsInv
<1>1. Keeps
  BY DEF Keeps, Entitlements, Entitled
<1>2. TypeOK'
  BY DEF TypeOK
<1>3. KeysInv' /\ UsedInv'
  BY DEF KeysInv, VerificationKeys, UsedInv
<1>. QED BY <1>1, <1>2, <1>3, WorldStep

LEMMA MinuteStep ==
    ASSUME SessionsInv, Minute
    PROVE  SessionsInv'
<1> USE SessionsAssumption DEF Minute, Happens, SessionsInv, accounts
<1>1. Keeps
  <2>1. \A n \in Windows : (n <= window => n <= window') /\ (n < window => n < window')
    BY DEF TypeOK, Windows
  <2>. QED BY <2>1 DEF Keeps, Entitlements, Entitled
<1>2. TypeOK'
  <2>1. window' \in Windows /\ events' \in 0 .. MaxEvents
    BY DEF TypeOK, Windows
  <2>. QED BY <2>1 DEF TypeOK
<1>3. KeysInv' /\ UsedInv'
  BY DEF KeysInv, VerificationKeys, UsedInv
<1>. QED BY <1>1, <1>2, <1>3, WorldStep

LEMMA KeyExpiresStep ==
    ASSUME SessionsInv, NEW n \in Windows, NEW b \in Buckets, KeyExpires(n, b)
    PROVE  SessionsInv'
<1> USE SessionsAssumption DEF KeyExpires, Happens, accounts
<1>1. /\ count \in Counters /\ born[n][b] \in Nat /\ n \in Nat /\ window \in Nat
      /\ hist \in Remembered /\ events' \in 0 .. MaxEvents
  <2>1. born[n][b] \in Windows /\ window \in Windows /\ Windows \subseteq Nat
    BY DEF SessionsInv, TypeOK, Windows
  <2>. QED BY <2>1 DEF SessionsInv, TypeOK, Remembered
<1>2. /\ count' \in Counters /\ count'[n][b] = 0
      /\ \A m \in Windows, a \in Buckets : m # n \/ a # b => count'[m][a] = count[m][a]
  BY <1>1 DEF Counters
<1>3. /\ hist' \in Remembered /\ hist'.used = hist.used /\ hist'.passed = hist.passed
      /\ hist'.expired = hist.expired \cup {<<n, b>>}
  BY <1>1 DEF Remembered
<1>4. n < window
  <2>1. n <= born[n][b]
    BY DEF SessionsInv, CountInv
  <2>. QED BY <1>1, <2>1
<1>5. CountInv'
  <2>1. \A m \in Windows, a \in Buckets :
          /\ <<m, a>> \notin hist'.expired => hist'.passed[m][a] <= count'[m][a]
          /\ hist'.passed[m][a] <= Limit[a]
          /\ count'[m][a] > 0 => m <= born'[m][a]
    <3> SUFFICES ASSUME NEW m \in Windows, NEW a \in Buckets
                 PROVE  /\ <<m, a>> \notin hist'.expired => hist'.passed[m][a] <= count'[m][a]
                        /\ hist'.passed[m][a] <= Limit[a]
                        /\ count'[m][a] > 0 => m <= born'[m][a]
      OBVIOUS
    <3>1. /\ <<m, a>> \notin hist.expired => hist.passed[m][a] <= count[m][a]
          /\ hist.passed[m][a] <= Limit[a]
          /\ count[m][a] > 0 => m <= born[m][a]
      BY DEF SessionsInv, CountInv
    <3>2. CASE m = n /\ a = b
      BY <1>2, <1>3, <3>1, <3>2
    <3>3. CASE m # n \/ a # b
      BY <1>2, <1>3, <3>1, <3>3
    <3>. QED BY <3>2, <3>3
  <2>2. \A e \in hist'.expired : e[1] < window'
    BY <1>3, <1>4 DEF SessionsInv, CountInv
  <2>. QED BY <2>1, <2>2 DEF CountInv
<1>6. Keeps
  BY <1>1, <1>3 DEF Keeps, Entitlements, Entitled
<1>7. TypeOK'
  BY <1>1, <1>2, <1>3 DEF SessionsInv, TypeOK, Remembered
<1>8. KeysInv' /\ UsedInv'
  BY <1>3 DEF SessionsInv, KeysInv, VerificationKeys, UsedInv
<1>9. RequestsOk'
  BY <1>6, RequestKept DEF RequestsOk
<1>. QED BY <1>5, <1>7, <1>8, <1>9 DEF SessionsInv

LEMMA AccessExpiresStep ==
    ASSUME SessionsInv, NEW a \in access, AccessExpires(a)
    PROVE  SessionsInv'
<1> USE SessionsAssumption DEF AccessExpires, Happens, SessionsInv, accounts
<1>1. Keeps
  BY DEF Keeps, Entitlements, Entitled
<1>2. TypeOK'
  BY DEF TypeOK
<1>3. KeysInv' /\ UsedInv'
  BY DEF KeysInv, VerificationKeys, UsedInv
<1>. QED BY <1>1, <1>2, <1>3, WorldStep

LEMMA RefreshExpiresStep ==
    ASSUME SessionsInv, NEW k \in Tokens, RefreshExpires(k)
    PROVE  SessionsInv'
<1> USE SessionsAssumption DEF RefreshExpires, Happens, SessionsInv, accounts
<1> DEFINE dead == [refresh[k] EXCEPT !.dead = TRUE]
<1>1. refresh' = [refresh EXCEPT ![k] = dead] /\ refresh[k] \in Session
  BY DEF TypeOK
<1>2. dead \in Session /\ dead # NoOne /\ dead.dead /\ dead.tenant = refresh[k].tenant
  BY <1>1 DEF Session
<1> HIDE DEF dead
<1>3. refresh'[k] = dead /\ \A j \in Tokens \ {k} : refresh'[j] = refresh[j]
  BY <1>1 DEF TypeOK
<1>4. Keeps
  BY <1>2, <1>3 DEF Keeps, Entitlements, Entitled
<1>5. TypeOK'
  <2>. refresh \in [Tokens -> Session \cup {NoOne}]
    BY DEF TypeOK
  <2>. HIDE DEF RefreshExpires, SessionsInv
  <2>1. refresh' \in [Tokens -> Session \cup {NoOne}]
    BY <1>1, <1>2
  <2>. USE DEF RefreshExpires, SessionsInv
  <2>2. \A j \in Tokens : refresh'[j] # NoOne => refresh'[j].tenant \in taken'
    BY <1>2, <1>3 DEF TypeOK
  <2>3. events' \in 0 .. MaxEvents
    BY DEF TypeOK
  <2>. QED BY <2>1, <2>2, <2>3 DEF TypeOK
<1>6. KeysInv' /\ UsedInv'
  BY <1>2, <1>3 DEF KeysInv, VerificationKeys, UsedInv, TypeOK
<1>. QED BY <1>4, <1>5, <1>6, WorldStep

LEMMA RotatesStep ==
    ASSUME SessionsInv, Rotates
    PROVE  SessionsInv'
<1> USE SessionsAssumption DEF Rotates, Happens, SessionsInv, accounts
<1>1. Keeps
  BY DEF Keeps, Entitlements, Entitled
<1>2. TypeOK'
  <2>1. keys' \in [current : 1 .. MaxKeys, previous : (1 .. MaxKeys) \cup {NoOne}]
    BY DEF TypeOK
  <2>2. events' \in 0 .. MaxEvents
    BY DEF TypeOK
  <2>. QED BY <2>1, <2>2 DEF TypeOK
<1>3. KeysInv'
  <2> SUFFICES ASSUME NEW a \in access PROVE a.key = keys.current
    BY DEF KeysInv, VerificationKeys
  <2>1. a.key \in 1 .. MaxKeys /\ a.key \in {keys.current, NoOne}
    BY DEF TypeOK, Claims, KeysInv, VerificationKeys
  <2>2. a.key \in Nat
    BY <2>1
  <2>. QED BY <2>1, <2>2
<1>4. UsedInv'
  BY DEF UsedInv
<1>. QED BY <1>1, <1>2, <1>3, <1>4, WorldStep

LEMMA DropsOldKeyStep ==
    ASSUME SessionsInv, DropsOldKey
    PROVE  SessionsInv'
<1> USE SessionsAssumption DEF DropsOldKey, Happens, SessionsInv, accounts
<1>1. Keeps
  BY DEF Keeps, Entitlements, Entitled
<1>2. TypeOK' /\ keys'.current = keys.current
  <2>1. keys' \in [current : 1 .. MaxKeys, previous : (1 .. MaxKeys) \cup {NoOne}]
        /\ keys'.current = keys.current
    BY DEF TypeOK
  <2>2. events' \in 0 .. MaxEvents
    BY DEF TypeOK
  <2>. QED BY <2>1, <2>2 DEF TypeOK
<1>3. KeysInv'
  BY <1>2 DEF KeysInv, VerificationKeys
<1>4. UsedInv'
  BY DEF UsedInv
<1>. QED BY <1>1, <1>2, <1>3, <1>4, WorldStep

LEMMA SessionsSteps == SessionsInv /\ [Next]_vars => SessionsInv'
<1> SUFFICES ASSUME SessionsInv, [Next]_vars PROVE SessionsInv'
  OBVIOUS
<1>1. CASE UNCHANGED vars
  <2> USE <1>1 DEF vars, accounts
  <2>1. Keeps
    BY DEF Keeps, Entitlements, Entitled
  <2>2. TypeOK'
    BY DEF SessionsInv, TypeOK
  <2>3. KeysInv' /\ UsedInv'
    BY DEF SessionsInv, KeysInv, VerificationKeys, UsedInv
  <2>. QED BY <2>1, <2>2, <2>3, WorldStep
<1>2. ASSUME NEW q \in Requests, NEW p \in Sent, Arrive(q, p) PROVE SessionsInv'
  BY <1>2, ArriveStep
<1>3. ASSUME NEW q \in Requests,
             \/ Counts(q)
             \/ RegisterReads(q) \/ RegisterLoses(q)
             \/ LoginReads(q) \/ LoginChooses(q)
             \/ RefreshReads(q) \/ RefreshChecks(q)
             \/ Unverified(q) \/ Identifies(q) \/ SwitchChecks(q)
             \/ Serves(q) \/ Refuses(q)
             \/ Issues(q)
      PROVE  SessionsInv'
  BY <1>3, CountsStep, RegisterStep, LoginReadsStep, LoginChoosesStep, RefreshReadsStep,
     RefreshChecksStep, UnverifiedStep, IdentifiesStep, SwitchChecksStep, ServesStep,
     IssuesStep
<1>4. ASSUME NEW u \in Users, Deactivates(u) PROVE SessionsInv'
  BY <1>4, DeactivatesStep
<1>5. ASSUME NEW e \in member, Removes(e) PROVE SessionsInv'
  BY <1>5, RemovesStep
<1>6. ASSUME NEW a \in access, AccessExpires(a) PROVE SessionsInv'
  BY <1>6, AccessExpiresStep
<1>7. ASSUME NEW k \in Tokens, RefreshExpires(k) PROVE SessionsInv'
  BY <1>7, RefreshExpiresStep
<1>9. ASSUME NEW n \in Windows, NEW b \in Buckets, KeyExpires(n, b) PROVE SessionsInv'
  BY <1>9, KeyExpiresStep
<1>8. CASE Minute \/ Rotates \/ DropsOldKey
  BY <1>8, MinuteStep, RotatesStep, DropsOldKeyStep
<1>. QED BY <1>1, <1>2, <1>3, <1>4, <1>5, <1>6, <1>7, <1>8, <1>9 DEF Next

-------------------------------------------------------------------------------
\* Types, the keys that verify, revoked tokens, the limiter's counts, and what each
\* request in flight has read: however requests, revocations and rotations interleave.
THEOREM SessionsInvariant == Spec => []SessionsInv
BY SessionsInit, SessionsSteps, PTL DEF Spec

\* get_current_membership, refresh and switch_tenant let nobody in who was not entitled
\* to the tenant at some time since the request came.
THEOREM EntitledAlone == Spec => EntitledOnly
<1> DEFINE In(q) == Serves(q) \/ (Issues(q) /\ req[q].op # "register")
                    => <<req[q].user, req[q].tenant>> \in req[q].since
<1>1. ASSUME SessionsInv, NEW q \in Requests PROVE In(q)
  <2>1. Serves(q) => <<req[q].user, req[q].tenant>> \in req[q].since
    BY <1>1, RequestFacts DEF Serves, At, IsMember, SinceOk, SessionsInv, TypeOK
  <2>2. Issues(q) /\ req[q].op # "register" => <<req[q].user, req[q].tenant>> \in req[q].since
    BY <1>1, RequestFacts DEF Issues, SinceOk
  <2>. QED BY <2>1, <2>2
<1>2. SessionsInv => [\A q \in Requests : In(q)]_vars
  BY <1>1
<1>. QED BY <1>2, SessionsInvariant, PTL DEF EntitledOnly

\* A refresh token is good for one session: a request that comes with it after that
\* gets nothing (rotate_refresh_token).
THEOREM TokensUsedOnce == Spec => UsedOnce
<1>1. ASSUME SessionsInv, NEW q \in Requests, Issues(q) PROVE ~req[q].late
  BY <1>1, NotLate DEF Issues
<1>2. SessionsInv => [\A q \in Requests : Issues(q) /\ req[q].op = "refresh" => ~req[q].late]_vars
  BY <1>1
<1>. QED BY <1>2, SessionsInvariant, PTL DEF UsedOnce

\* No window lets more requests of a bucket through than its limit while its counter
\* lives, and the counter outlives the window, however the round trips to Redis
\* interleave with the clock (_check_and_increment).
THEOREM LimitRespected == Spec => []WindowRespected
<1>1. SessionsInv => WindowRespected
  BY DEF SessionsInv, CountInv, WindowRespected
<1>. QED BY <1>1, SessionsInvariant, PTL

\* Rotating SECRET_KEY by the runbook turns no unexpired access token away
\* (decode_access_token).
THEOREM NobodyForcedOut == Spec => NeverForcedOut
<1>1. ASSUME SessionsInv, NEW q \in Requests, Unverified(q) PROVE req[q].claims \notin access
  BY <1>1 DEF Unverified, Verifies, SessionsInv, KeysInv
<1>2. SessionsInv => [\A q \in Requests : Unverified(q) => req[q].claims \notin access]_vars
  BY <1>1
<1>. QED BY <1>2, SessionsInvariant, PTL DEF NeverForcedOut
===============================================================================
