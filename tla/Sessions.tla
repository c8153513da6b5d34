------------------------------- MODULE Sessions -------------------------------
(***************************************************************************)
(* Accounts and sessions of the API.  A request passes the rate limiter,   *)
(* then the handler of /auth/* or of any other route that depends on       *)
(* get_current_membership; between its queries other requests commit,      *)
(* support deactivates a user or removes a membership, tokens expire and   *)
(* the operator rotates SECRET_KEY.                                        *)
(***************************************************************************)
EXTENDS Naturals

CONSTANTS
    Users,      \* an account, its e-mail address
    Tenants,    \* a tenant, its slug
    Requests,   \* requests in flight at once, of one client address
    Tokens,     \* refresh tokens that may be issued
    Limit,      \* requests per window: of the bucket "auth", and "default"
    MaxWindows, \* minutes
    MaxKeys,    \* signing keys
    MaxArrivals, \* requests in all
    MaxEvents,  \* what else happens
    FirstUsers, \* the accounts there are
    FirstMembers, \* their memberships,
    FirstSession, \* and the one logged in, in the middle of a rotation
    Newcomers,  \* who registers
    LoginTenants, \* the tenants a login names, NoOne when it names none
    NoOne       \* no tenant, token or key

Buckets == {"auth", "default"}

Windows == 0 .. MaxWindows

Ops == {"register", "login", "refresh", "switch", "use"}

\* An access token, by its claims.
Claims == [user : Users, tenant : Tenants, key : 1 .. MaxKeys]

Session == [user : Users, tenant : Tenants, dead : BOOLEAN]

ASSUME SessionsAssumption ==
    /\ Limit \in [Buckets -> Nat \ {0}]
    /\ {MaxWindows, MaxArrivals, MaxEvents} \subseteq Nat /\ MaxKeys \in Nat \ {0, 1}
    /\ FirstUsers \subseteq Users
    /\ FirstMembers \subseteq FirstUsers \X Tenants
    /\ <<FirstSession.user, FirstSession.tenant>> \in FirstMembers
    /\ Newcomers \subseteq Users
    /\ LoginTenants \subseteq Tenants \cup {NoOne}
    /\ FirstSession.token \in Tokens
    /\ NoOne \notin Nat \cup Tenants \cup Tokens \cup Session

VARIABLES
    user,    \* absent, active or inactive
    member,  \* the memberships
    taken,   \* the slugs that exist
    refresh, \* refresh_tokens: whose, for which tenant, and
             \* dead: revoked_at is set, or expires_at has passed
    access,  \* the access tokens that have not expired
    keys,    \* secret_key and secret_key_previous
    window,  \* the current minute
    count,   \* the limiter's counters in Redis, 0 when there is no such key
    born,    \* the minute in which each counter was last given 60 seconds to live
    req,     \* the requests
    arrived, events,
    hist     \* what the properties remember

vars == <<user, member, taken, refresh, access, keys, window, count, born, req,
          arrived, events, hist>>

accounts == <<user, member, taken>>

Entitled == {e \in member : user[e[1]] = "active"}

Free == [pc |-> "free", op |-> "none"]

InFlight ==
    [pc : {"arrived", "first", "second", "commit"}, op : Ops, user : Users,
     tenant : Tenants \cup {NoOne}, token : Tokens \cup {NoOne}, claims : Claims \cup {NoOne},
     window : Windows, since : SUBSET (Users \X Tenants), late : BOOLEAN]

Counters == [Windows -> [Buckets -> Nat]]

TypeOK ==
    /\ user \in [Users -> {"absent", "active", "inactive"}]
    /\ member \subseteq {u \in Users : user[u] # "absent"} \X taken
    /\ taken \subseteq Tenants
    /\ refresh \in [Tokens -> Session \cup {NoOne}]
    /\ \A k \in Tokens : refresh[k] # NoOne => refresh[k].tenant \in taken
    /\ access \subseteq Claims /\ \A a \in access : a.tenant \in taken
    /\ keys \in [current : 1 .. MaxKeys, previous : (1 .. MaxKeys) \cup {NoOne}]
    /\ window \in Windows
    /\ count \in Counters
    /\ born \in [Windows -> [Buckets -> Windows]]
    /\ req \in [Requests -> InFlight \cup {Free}]
    /\ arrived \in 0 .. MaxArrivals /\ events \in 0 .. MaxEvents
    /\ hist \in [used : SUBSET Tokens, passed : Counters, expired : SUBSET (Windows \X Buckets)]

Init ==
    /\ user = [u \in Users |-> IF u \in FirstUsers THEN "active" ELSE "absent"]
    /\ member = FirstMembers
    /\ taken = {e[2] : e \in FirstMembers}
    /\ refresh = [k \in Tokens |-> IF k = FirstSession.token
          THEN [user |-> FirstSession.user, tenant |-> FirstSession.tenant, dead |-> FALSE]
          ELSE NoOne]
    /\ access = {[user |-> FirstSession.user, tenant |-> FirstSession.tenant, key |-> 2]}
    /\ keys = [current |-> 2, previous |-> 1]
    /\ window = 0
    /\ count = [w \in Windows |-> [b \in Buckets |-> 0]]
    /\ born = [w \in Windows |-> [b \in Buckets |-> 0]]
    /\ req = [q \in Requests |-> Free]
    /\ arrived = 0
    /\ events = 0
    /\ hist = [used |-> {},
               passed |-> [w \in Windows |-> [b \in Buckets |-> 0]],
               expired |-> {}]

-----------------------------------------------------------------------------
(* The limiter.  The counter's key names the window the clock was in when   *)
(* the request came; it is incremented after a round trip to Redis.         *)

BucketOf(op) == IF op = "use" THEN "default" ELSE "auth"

Bucket(q) == BucketOf(req[q].op)

Arrive(q, p) ==
    /\ req[q] = Free
    /\ arrived < MaxArrivals /\ arrived' = arrived + 1
    /\ p.token # NoOne => refresh[p.token] # NoOne
    /\ req' = [req EXCEPT ![q] =
          [pc |-> "arrived", op |-> p.op, user |-> p.user, tenant |-> p.tenant,
           token |-> p.token, claims |-> p.claims, window |-> window,
           since |-> {e \in Entitled : e[1] = p.user}, late |-> p.token \in hist.used]]
    /\ UNCHANGED <<accounts, refresh, access, keys, window, count, born, events, hist>>

\* The answer arrives, or is lost with the connection.
Answered(q) == req' = [req EXCEPT ![q] = Free]

Goes(q, pc) == req' = [req EXCEPT ![q].pc = pc]

\* What the properties remember of a request let through: whether the counter that
\* let it through had counted its window from the start.
Passes(w, b) ==
    hist' = IF <<w, b>> \in hist.expired THEN hist ELSE [hist EXCEPT !.passed[w][b] = @ + 1]

\* INCR, and EXPIRE when it made the key.
Increments(w, b) ==
    /\ count' = [count EXCEPT ![w][b] = @ + 1]
    /\ born' = IF count[w][b] = 0 THEN [born EXCEPT ![w][b] = window] ELSE born

\* Variant: the counter is compared before it is incremented.
Counts_Before(q) ==
    LET w == req[q].window
        b == Bucket(q)
    IN /\ req[q].pc = "arrived"
       /\ Increments(w, b)
       /\ IF count[w][b] > Limit[b]
             THEN Answered(q) /\ UNCHANGED hist
             ELSE Goes(q, "first") /\ Passes(w, b)
       /\ UNCHANGED <<accounts, refresh, access, keys, window, arrived, events>>

\* _check_and_increment: the window is the one the request computed, even when the
\* minute has turned, or the key has expired, before the round trip ends.
Counts(q) ==
    LET w == req[q].window
        b == Bucket(q)
    IN /\ req[q].pc = "arrived"
       /\ Increments(w, b)
       /\ IF count'[w][b] > Limit[b]
             THEN Answered(q) /\ UNCHANGED hist
             ELSE Goes(q, "first") /\ Passes(w, b)
       /\ UNCHANGED <<accounts, refresh, access, keys, window, arrived, events>>

-----------------------------------------------------------------------------
(* The handlers: what they read first, what they read next, the commit.     *)

rest == <<accounts, refresh, access, keys, window, count, born, arrived, events, hist>>

\* Variant: only the key that signs now verifies.
VerificationKeys_CurrentOnly == {keys.current}

VerificationKeys == {keys.current, keys.previous}

\* decode_access_token.
Verifies(claims) == claims \in access /\ claims.key \in VerificationKeys

\* Variant: a rotated token still passes.
StoredIsGood_Unchecked(k) == refresh[k] # NoOne

StoredIsGood(k) == refresh[k] # NoOne /\ ~refresh[k].dead

At(q, op, pc) == req[q].op = op /\ req[q].pc = pc

\* register: the address and the slug are free when it looks.
RegisterReads(q) ==
    /\ At(q, "register", "first")
    /\ IF user[req[q].user] # "absent" THEN Answered(q)
       ELSE \E t \in Tenants \ taken :
               req' = [req EXCEPT ![q].pc = "commit", ![q].tenant = t]
    /\ UNCHANGED rest

\* Another registration took one of them: the unique index refuses this one.
RegisterLoses(q) ==
    /\ At(q, "register", "commit")
    /\ user[req[q].user] # "absent" \/ req[q].tenant \in taken
    /\ Answered(q)
    /\ UNCHANGED rest

\* authenticate.
LoginReads(q) ==
    /\ At(q, "login", "first")
    /\ IF user[req[q].user] = "active" THEN Goes(q, "second") ELSE Answered(q)
    /\ UNCHANGED rest

TenantsOf(u) == {t \in Tenants : <<u, t>> \in member}

\* Without a tenant a user logs into the only one there is, if that is so.
LogsInto(q) ==
    {t \in TenantsOf(req[q].user) :
        IF req[q].tenant = NoOne THEN TenantsOf(req[q].user) = {t}
        ELSE t = req[q].tenant}

LoginChooses(q) ==
    /\ At(q, "login", "second")
    /\ IF LogsInto(q) = {} THEN Answered(q)
       ELSE \E t \in LogsInto(q) :
               req' = [req EXCEPT ![q].pc = "commit", ![q].tenant = t]
    /\ UNCHANGED rest

RefreshReads(q) ==
    /\ At(q, "refresh", "first")
    /\ IF StoredIsGood(req[q].token) THEN Goes(q, "second") ELSE Answered(q)
    /\ UNCHANGED rest

\* Variant: the membership is taken from the signed claims.
IsMember_Claimed(u, t) == TRUE

\* get_membership.
IsMember(u, t) == <<u, t>> \in member

\* A refresh revokes the old token even when the session goes no further.
RefreshChecks(q) ==
    /\ At(q, "refresh", "second")
    /\ IF user[req[q].user] = "active" /\ IsMember(req[q].user, req[q].tenant)
          THEN Goes(q, "commit") /\ UNCHANGED refresh
          ELSE Answered(q) /\ refresh' = [refresh EXCEPT ![req[q].token].dead = TRUE]
    /\ UNCHANGED <<accounts, access, keys, window, count, born, arrived, events, hist>>

\* get_current_user finds no key that verifies the token it was sent.
Unverified(q) ==
    /\ At(q, "switch", "first") \/ At(q, "use", "first")
    /\ ~Verifies(req[q].claims)
    /\ Answered(q)
    /\ UNCHANGED rest

Identifies(q) ==
    /\ At(q, "switch", "first") \/ At(q, "use", "first")
    /\ Verifies(req[q].claims)
    /\ IF user[req[q].user] = "active" THEN Goes(q, "second") ELSE Answered(q)
    /\ UNCHANGED rest

SwitchChecks(q) ==
    /\ At(q, "switch", "second")
    /\ IF IsMember(req[q].user, req[q].tenant) THEN Goes(q, "commit") ELSE Answered(q)
    /\ UNCHANGED rest

\* get_current_membership, and the route behind it or 403.
Serves(q) ==
    /\ At(q, "use", "second")
    /\ IsMember(req[q].user, req[q].tenant)
    /\ Answered(q)
    /\ UNCHANGED rest

Refuses(q) ==
    /\ At(q, "use", "second")
    /\ ~IsMember(req[q].user, req[q].tenant)
    /\ Answered(q)
    /\ UNCHANGED rest

\* Tenant, user, the owner's membership, the subscription and the first refresh
\* token are one transaction.
Registers(q) ==
    /\ user[req[q].user] = "absent" /\ req[q].tenant \notin taken
    /\ user' = [user EXCEPT ![req[q].user] = "active"]
    /\ taken' = taken \cup {req[q].tenant}
    /\ member' = member \cup {<<req[q].user, req[q].tenant>>}

\* _issue_token_pair.
Issues(q) ==
    /\ req[q].pc = "commit"
    /\ IF req[q].op = "register" THEN Registers(q) ELSE UNCHANGED accounts
    /\ \E k \in {j \in Tokens : refresh[j] = NoOne} :
          refresh' = [j \in Tokens |->
             IF j = k THEN [user |-> req[q].user, tenant |-> req[q].tenant, dead |-> FALSE]
             ELSE IF j = req[q].token THEN [refresh[j] EXCEPT !.dead = TRUE]
             ELSE refresh[j]]
    /\ access' = access \cup {[user |-> req[q].user, tenant |-> req[q].tenant,
                               key |-> keys.current]}
    /\ req' = [p \in Requests |->
          IF p = q \/ req[p] = Free THEN Free
          ELSE [req[p] EXCEPT !.since = @ \cup {e \in Entitled' : e[1] = req[p].user}]]
    /\ hist' = [hist EXCEPT !.used = @ \cup ({req[q].token} \ {NoOne})]
    /\ UNCHANGED <<keys, window, count, born, arrived, events>>

-----------------------------------------------------------------------------
(* Support, with SQL; time; the operator, by docs/security/secret-rotation. *)

Happens == events < MaxEvents /\ events' = events + 1

Deactivates(u) ==
    /\ Happens
    /\ user[u] = "active"
    /\ user' = [user EXCEPT ![u] = "inactive"]
    /\ UNCHANGED <<member, taken, refresh, access, keys, window, count, born, req, arrived, hist>>

Removes(e) ==
    /\ Happens
    /\ member' = member \ {e}
    /\ UNCHANGED <<user, taken, refresh, access, keys, window, count, born, req, arrived, hist>>

Minute ==
    /\ Happens
    /\ window < MaxWindows /\ window' = window + 1
    /\ UNCHANGED <<accounts, refresh, access, keys, count, born, req, arrived, hist>>

\* Redis drops a key 60 seconds after EXPIRE, so in a later minute than that call, or
\* never, when the process died between INCR and EXPIRE.
KeyExpires(w, b) ==
    /\ Happens
    /\ count[w][b] > 0 /\ born[w][b] < window
    /\ count' = [count EXCEPT ![w][b] = 0]
    /\ hist' = [hist EXCEPT !.expired = @ \cup {<<w, b>>}]
    /\ UNCHANGED <<accounts, refresh, access, keys, window, born, req, arrived>>

AccessExpires(a) ==
    /\ Happens
    /\ access' = access \ {a}
    /\ UNCHANGED <<accounts, refresh, keys, window, count, born, req, arrived, hist>>

RefreshExpires(k) ==
    /\ Happens
    /\ refresh[k] # NoOne /\ ~refresh[k].dead
    /\ refresh' = [refresh EXCEPT ![k].dead = TRUE]
    /\ UNCHANGED <<accounts, access, keys, window, count, born, req, arrived, hist>>

Rotates ==
    /\ Happens
    /\ keys.previous = NoOne /\ keys.current < MaxKeys
    /\ keys' = [current |-> keys.current + 1, previous |-> keys.current]
    /\ UNCHANGED <<accounts, refresh, access, window, count, born, req, arrived, hist>>

\* Once every token signed with the old key has expired.
DropsOldKey ==
    /\ Happens
    /\ keys.previous # NoOne
    /\ \A a \in access : a.key # keys.previous
    /\ keys' = [keys EXCEPT !.previous = NoOne]
    /\ UNCHANGED <<accounts, refresh, access, window, count, born, req, arrived, hist>>

\* What clients send: their own tokens, one that was rotated among them.
Sent ==
    {[op |-> "register", user |-> u, tenant |-> NoOne, token |-> NoOne,
      claims |-> NoOne] : u \in Newcomers}
    \cup {[op |-> "login", user |-> u, tenant |-> t, token |-> NoOne,
           claims |-> NoOne] : u \in FirstUsers, t \in LoginTenants}
    \cup {[op |-> "refresh", user |-> refresh[k].user, tenant |-> refresh[k].tenant,
           token |-> k, claims |-> NoOne] : k \in {j \in Tokens : refresh[j] # NoOne}}
    \cup {[op |-> "switch", user |-> a.user, tenant |-> t, token |-> NoOne,
           claims |-> a] : a \in access, t \in taken}
    \cup {[op |-> "use", user |-> a.user, tenant |-> a.tenant, token |-> NoOne,
           claims |-> a] : a \in access}

Next ==
    \/ \E q \in Requests, p \in Sent : Arrive(q, p)
    \/ \E q \in Requests :
          \/ Counts(q)
          \/ RegisterReads(q) \/ RegisterLoses(q)
          \/ LoginReads(q) \/ LoginChooses(q)
          \/ RefreshReads(q) \/ RefreshChecks(q)
          \/ Unverified(q) \/ Identifies(q) \/ SwitchChecks(q)
          \/ Serves(q) \/ Refuses(q)
          \/ Issues(q)
    \/ \E u \in Users : Deactivates(u)
    \/ \E e \in member : Removes(e)
    \/ \E a \in access : AccessExpires(a)
    \/ \E k \in Tokens : RefreshExpires(k)
    \/ \E w \in Windows, b \in Buckets : KeyExpires(w, b)
    \/ Minute \/ Rotates \/ DropsOldKey

Spec == Init /\ [][Next]_vars

-----------------------------------------------------------------------------
(* get_current_membership: a removed membership or a deactivated user takes *)
(* effect on the next request, whatever access tokens, refresh tokens and   *)
(* tenant switches were still to come of the login: a request that succeeds *)
(* was entitled to its tenant at some time since it arrived.                *)
EntitledOnly ==
    [][\A q \in Requests :
          Serves(q) \/ (Issues(q) /\ req[q].op # "register")
          => <<req[q].user, req[q].tenant>> \in req[q].since]_vars

(* Rotating a refresh token revokes the old one: a request that comes with  *)
(* a token after a session was made of it gets nothing.  (Two that overlap  *)
(* both may, see the findings.)                                             *)
UsedOnce ==
    [][\A q \in Requests : Issues(q) /\ req[q].op = "refresh" => ~req[q].late]_vars

(* No window lets more requests of an address through than the limit of     *)
(* their bucket, however their round trips to Redis interleave with the     *)
(* clock and with each other, as long as its counter lives, and the counter *)
(* outlives the window: only a request that reaches Redis after its minute  *)
(* has ended can find the count begun anew.                                 *)
WindowRespected ==
    /\ \A w \in Windows, b \in Buckets : hist.passed[w][b] <= Limit[b]
    /\ \A e \in hist.expired : e[1] < window

(* Rotating SECRET_KEY logs nobody out: a request is turned away as         *)
(* unverified only when its access token has expired.                       *)
NeverForcedOut ==
    [][\A q \in Requests : Unverified(q) => req[q].claims \notin access]_vars
===============================================================================
