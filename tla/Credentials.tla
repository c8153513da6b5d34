------------------------------ MODULE Credentials ------------------------------
(***************************************************************************)
(* Connections: their credentials at rest and what the merchant is told of *)
(* them.  The API stores credentials under the current ENCRYPTION_KEY, a   *)
(* worker's health check and daily sync read them, call the platform and   *)
(* write status and last_error.  Meanwhile the operator rotates the key by *)
(* docs/security/secret-rotation.md: processes are restarted one by one,   *)
(* each with the keys of its environment, and a task migrates the rows.    *)
(***************************************************************************)
EXTENDS Naturals, FiniteSets

CONSTANTS
    Apis, Workers,   \* processes, each with one request or task at a time
    Connections,     \* by name
    First,           \* those there are at first
    MaxKeys,         \* keys there will be
    MaxRequests,     \* connections that merchants create
    MaxChanges,      \* times a platform changes its mind about credentials
    MaxFaults,       \* platform errors and processes that die
    Sent,            \* what merchants send: every field build_connector() needs,
                     \* some ("partial"), or nothing ("none")
    None             \* NULL, and no key

Processes == Apis \cup Workers
Keys == 1 .. MaxKeys

Errors == {None, "auth", "platform", "unexpected"}

\* A connection: the key its credentials are encrypted with, whether they are complete.
Row == [key : Keys \cup {None}, full : BOOLEAN, status : {"connected", "error"},
        error : Errors]

ASSUME CredentialsAssumption ==
    /\ Apis \cap Workers = {}
    /\ First \subseteq Connections
    /\ Sent \subseteq {"full", "partial", "none"}
    /\ {MaxRequests, MaxChanges, MaxFaults} \subseteq Nat /\ MaxKeys \in Nat \ {0}
    /\ None \notin Keys \cup Row

VARIABLES
    row,     \* connections
    accepts, \* whose credentials the platform accepts
    keys,    \* the keys each process was started with
    env,     \* the keys the operator deploys
    phase,   \* the step of the runbook
    report,  \* the failed list of the last migration
    w,       \* what each process does
    requests, changes, faults

vars == <<row, accepts, keys, env, phase, report, w, requests, changes, faults>>
runbook == <<keys, env, phase, report>>
world == <<accepts, requests, changes, faults>>

Idle == [do |-> "idle"]

Tasks ==
    {Idle}
    \cup [do : {"create"}, of : Connections, new : Row]
    \cup [do : {"check", "sync"}, of : Connections, copy : Row]
    \cup [do : {"checked", "synced"}, of : Connections, copy : Row, error : Errors]
    \cup [do : {"migrate"}, moved : SUBSET Connections, failed : SUBSET Connections]

KeyLists == [current : Keys, previous : Keys \cup {None}]

Typed ==
    /\ row \in [Connections -> Row \cup {None}]
    /\ keys \in [Processes -> KeyLists] /\ env \in KeyLists
    /\ phase \in {"stable", "overlap", "migrate", "drop"}
    /\ w \in [Processes -> Tasks]

TypeOK ==
    /\ Typed
    /\ accepts \subseteq Connections /\ report \subseteq Connections \cup {None}
    /\ requests \in 0 .. MaxRequests /\ changes \in 0 .. MaxChanges /\ faults \in 0 .. MaxFaults

Init ==
    /\ row = [c \in Connections |-> IF c \notin First THEN None ELSE
          [key |-> 1, full |-> TRUE, status |-> "connected", error |-> None]]
    /\ accepts = Connections
    /\ env = [current |-> 1, previous |-> None]
    /\ keys = [p \in Processes |-> env]
    /\ phase = "stable" /\ report = {None}
    /\ w = [p \in Processes |-> Idle]
    /\ requests = 0 /\ changes = 0 /\ faults = 0

-----------------------------------------------------------------------------
(* MultiFernet: the first key encrypts, every key of the list decrypts.     *)

\* Variant: the list is built the other way round.
EncryptsWith_Last(ks) == IF ks.previous = None THEN ks.current ELSE ks.previous

EncryptsWith(ks) == ks.current

Decrypts(ks, key) == key # None /\ key \in {ks.current, ks.previous}

\* decrypt_credentials and build_connector pass.
Connects(ks, r) == Decrypts(ks, r.key) /\ r.full

\* The UPDATE sets the columns in which the object differs from what it loaded.
Written(r, copy, new) ==
    [f \in DOMAIN r |-> IF new[f] # copy[f] THEN new[f] ELSE r[f]]

-----------------------------------------------------------------------------
(* The API.                                                                 *)

\* create_connection encrypts what it was sent, if anything ...
Encrypts(p, c, sent) ==
    /\ w[p] = Idle
    /\ requests < MaxRequests /\ requests' = requests + 1
    /\ w' = [w EXCEPT ![p] =
          [do |-> "create", of |-> c,
           new |-> [key |-> IF sent = "none" THEN None ELSE EncryptsWith(keys[p]),
                    full |-> sent = "full", status |-> "connected", error |-> None]]]
    /\ UNCHANGED <<row, accepts, changes, faults, runbook>>

\* ... and commits it, or answers 409 when the name is taken.
Creates(p) ==
    LET c == w[p].of
    IN /\ w[p].do = "create"
       /\ IF row[c] = None
             THEN row' = [row EXCEPT ![c] = w[p].new]
             ELSE UNCHANGED row
       /\ w' = [w EXCEPT ![p] = Idle]
       /\ UNCHANGED <<world, runbook>>

-----------------------------------------------------------------------------
(* The worker's health check and sync.                                      *)

Loads(p, c, do) ==
    /\ w[p] = Idle
    /\ row[c] # None
    /\ w' = [w EXCEPT ![p] = [do |-> do, of |-> c, copy |-> row[c]]]
    /\ UNCHANGED <<row, world, runbook>>

\* create_connection sends for a check, trigger_test whenever the merchant likes.
CheckLoads(p, c) == Loads(p, c, "check")

\* dispatch_daily_sync sends for one of every connection, trigger_sync of one.
SyncLoads(p, c) == Loads(p, c, "sync")

Ends(p, error) ==
    w' = [w EXCEPT ![p] = [do |-> IF w[p].do = "check" THEN "checked" ELSE "synced",
                           of |-> w[p].of, copy |-> w[p].copy, error |-> error]]

\* The check makes one call, the sync as many as there are pages; an error after
\* the retries ends it.
Asks(p) ==
    LET c == w[p].of
    IN /\ w[p].do \in {"check", "sync"}
       /\ Connects(keys[p], w[p].copy)
       /\ \/ c \in accepts /\ Ends(p, None) /\ UNCHANGED faults
          \/ c \notin accepts /\ Ends(p, "auth") /\ UNCHANGED faults
          \/ faults < MaxFaults /\ faults' = faults + 1 /\ Ends(p, "platform")
       /\ UNCHANGED <<row, accepts, requests, changes, runbook>>

\* Without a connector the check records an unexpected error; the sync raises it
\* and records nothing.
Breaks(p) ==
    /\ w[p].do \in {"check", "sync"}
    /\ ~Connects(keys[p], w[p].copy)
    /\ IF w[p].do = "check" THEN Ends(p, "unexpected") ELSE w' = [w EXCEPT ![p] = Idle]
    /\ UNCHANGED <<row, world, runbook>>

\* The check writes both columns.
CheckCommits(p) ==
    LET e == w[p].error
        new == [w[p].copy EXCEPT !.error = e,
                                 !.status = IF e = None THEN "connected" ELSE "error"]
    IN /\ w[p].do = "checked"
       /\ row' = [row EXCEPT ![w[p].of] = Written(@, w[p].copy, new)]
       /\ w' = [w EXCEPT ![p] = Idle]
       /\ UNCHANGED <<world, runbook>>

\* Variant: last_error is written only when there is one.
SyncCommits_KeepsError(p) ==
    LET new == [w[p].copy EXCEPT !.error = IF w[p].error = None THEN @ ELSE w[p].error]
    IN /\ w[p].do = "synced"
       /\ row' = [row EXCEPT ![w[p].of] = Written(@, w[p].copy, new)]
       /\ w' = [w EXCEPT ![p] = Idle]
       /\ UNCHANGED <<world, runbook>>

\* The sync writes last_error, and leaves status to the check.
SyncCommits(p) ==
    LET new == [w[p].copy EXCEPT !.error = w[p].error]
    IN /\ w[p].do = "synced"
       /\ row' = [row EXCEPT ![w[p].of] = Written(@, w[p].copy, new)]
       /\ w' = [w EXCEPT ![p] = Idle]
       /\ UNCHANGED <<world, runbook>>

-----------------------------------------------------------------------------
(* worker.reencrypt_all_connections: one SELECT, one commit.                *)

Stored == {c \in Connections : row[c] # None /\ row[c].key # None}

MigrationReads(p) ==
    /\ phase = "migrate"
    /\ w[p] = Idle
    /\ w' = [w EXCEPT ![p] =
          [do |-> "migrate",
           moved |-> {c \in Stored : Decrypts(keys[p], row[c].key)},
           failed |-> {c \in Stored : ~Decrypts(keys[p], row[c].key)}]]
    /\ UNCHANGED <<row, world, runbook>>

MigrationCommits(p) ==
    /\ w[p].do = "migrate"
    /\ row' = [c \in Connections |->
          IF c \in w[p].moved THEN [row[c] EXCEPT !.key = EncryptsWith(keys[p])] ELSE row[c]]
    /\ report' = w[p].failed
    /\ w' = [w EXCEPT ![p] = Idle]
    /\ UNCHANGED <<world, keys, env, phase>>

-----------------------------------------------------------------------------
(* The operator.                                                            *)

\* The process is restarted, and what it was doing ends with it.
Restarts(p) ==
    /\ keys[p] # env
    /\ keys' = [keys EXCEPT ![p] = env]
    /\ w' = [w EXCEPT ![p] = Idle]
    /\ UNCHANGED <<row, world, env, phase, report>>

Deployed == \A p \in Processes : keys[p] = env

\* The new key, with the old one behind it.
Rotates ==
    /\ phase = "stable" /\ env.current < MaxKeys
    /\ phase' = "overlap"
    /\ env' = [current |-> env.current + 1, previous |-> env.current]
    /\ UNCHANGED <<row, w, world, keys, report>>

Migrates ==
    /\ phase = "overlap" /\ Deployed
    /\ phase' = "migrate" /\ report' = {None}
    /\ UNCHANGED <<row, w, world, keys, env>>

\* "Confirm failed is empty, then deploy again" without the old key.
DropsOldKey ==
    /\ phase = "migrate" /\ report = {}
    /\ phase' = "drop"
    /\ env' = [env EXCEPT !.previous = None]
    /\ UNCHANGED <<row, w, world, keys, report>>

Finishes ==
    /\ phase = "drop" /\ Deployed
    /\ phase' = "stable"
    /\ UNCHANGED <<row, w, world, keys, env, report>>

\* The platform withdraws a key, or accepts it again.
ChangesMind(c) ==
    /\ changes < MaxChanges /\ changes' = changes + 1
    /\ accepts' = IF c \in accepts THEN accepts \ {c} ELSE accepts \cup {c}
    /\ UNCHANGED <<row, w, requests, faults, runbook>>

\* A process dies, or the broker refuses its message.
Dies(p) ==
    /\ w[p] # Idle
    /\ faults < MaxFaults /\ faults' = faults + 1
    /\ w' = [w EXCEPT ![p] = Idle]
    /\ UNCHANGED <<row, accepts, requests, changes, runbook>>

-----------------------------------------------------------------------------
Proceeds(p) ==
    \/ Asks(p) \/ Breaks(p) \/ CheckCommits(p) \/ SyncCommits(p) \/ MigrationCommits(p)

Next ==
    \/ \E p \in Apis :
          \/ \E c \in Connections, sent \in Sent : Encrypts(p, c, sent)
          \/ Creates(p)
    \/ \E p \in Workers :
          \/ \E c \in Connections : CheckLoads(p, c) \/ SyncLoads(p, c)
          \/ MigrationReads(p) \/ Proceeds(p)
    \/ \E c \in Connections : ChangesMind(c)
    \/ \E p \in Processes : Restarts(p) \/ Dies(p)
    \/ Rotates \/ Migrates \/ DropsOldKey \/ Finishes

\* Tasks go on, a deployment is finished, and the queue comes to every connection's
\* daily sync however busy the workers are with other tasks.
Fairness ==
    /\ \A p \in Workers : WF_vars(Proceeds(p))
    /\ \A p \in Processes : WF_vars(Restarts(p))
    /\ \A c \in Connections : SF_vars(\E p \in Workers : SyncLoads(p, c))

Spec == Init /\ [][Next]_vars
FairSpec == Spec /\ Fairness

-----------------------------------------------------------------------------
\* A rotation loses no credentials: at every step of the runbook, with connections
\* created, migrations repeated and processes dying along the way, every worker can read
\* every row, but for one that has not been restarted yet when the new key comes in.
RotationLosesNothing ==
    \A c \in Stored, p \in Workers :
        Decrypts(keys[p], row[c].key) \/ (phase = "overlap" /\ keys[p] # env)

Working(c) == row[c] # None /\ row[c].full /\ c \in accepts
Refused(c) == row[c] # None /\ row[c].full /\ c \notin accepts
Error(c) == IF row[c] = None THEN None ELSE row[c].error
Connected(c) == row[c] # None /\ row[c].status = "connected"
Checking(c) == \E p \in Workers : w[p].do = "check" /\ w[p].of = c

\* The merchant learns how it is: whatever overlapped, died or was rotated meanwhile, once
\* the platform settles on refusing the credentials the daily syncs leave last_error set,
\* once it settles on accepting them they leave it clear, and checks that are made again
\* and again bring the status back to connected.
HealthSettles ==
    \A c \in Connections :
        /\ <>[]Refused(c) => <>[](Error(c) # None)
        /\ <>[]Working(c) => <>[](Error(c) = None)
        /\ <>[]Working(c) /\ []<>Checking(c) => <>[]Connected(c)
================================================================================
