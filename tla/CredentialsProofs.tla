--------------------------- MODULE CredentialsProofs ---------------------------
(***************************************************************************)
(* Proofs about Credentials, for any processes, connections and keys and   *)
(* any number of rotations: a rotation by the runbook loses nothing.       *)
(***************************************************************************)
EXTENDS Credentials, TLAPS

\* A key that a row may be stored under in this phase of the runbook.
Live ==
    {env.current} \cup
        (IF phase = "overlap" \/ (phase = "migrate" /\ report # {})
         THEN {env.previous} ELSE {})

RowsLive == \A c \in Stored : row[c].key \in Live

\* What a process may have been started with.
KeysInv ==
    /\ phase \in {"overlap", "migrate"} <=> env.previous # None
    /\ phase \in {"stable", "migrate"} => Deployed
    /\ phase = "overlap" => \A p \in Processes :
          keys[p] = env \/ keys[p] = [current |-> env.previous, previous |-> None]
    /\ phase = "drop" => \A p \in Processes : keys[p].current = env.current

\* What tasks and requests in flight are about to write.
CreateOk(p) == w[p].do = "create" => w[p].new.key \in {None, keys[p].current}

CopyOk(p) == w[p].do \in {"check", "sync", "checked", "synced"} => row[w[p].of] # None

MigrationOk(p) == w[p].do = "migrate" =>
    /\ phase = "migrate" \/ (phase = "drop" /\ keys[p] # env)
    /\ w[p].moved \subseteq Stored /\ w[p].failed = {}
    /\ \A c \in Stored \ w[p].moved : row[c].key = env.current

TasksInv == \A p \in Processes : CreateOk(p) /\ CopyOk(p) /\ MigrationOk(p)

RotationInv == Typed /\ RowsLive /\ KeysInv /\ TasksInv

-------------------------------------------------------------------------------
LEMMA WrittenRow ==
    ASSUME NEW r \in Row, NEW copy \in Row, NEW new \in Row, new.key = copy.key
    PROVE  /\ Written(r, copy, new) \in Row
           /\ Written(r, copy, new).key = r.key
  BY DEF Written, Row, Errors

\* What a task carries, by what it does.
LEMMA TaskShape ==
    ASSUME Typed, NEW p \in Processes
    PROVE  /\ w[p].do = "create" => w[p].of \in Connections /\ w[p].new \in Row
           /\ w[p].do \in {"check", "sync", "checked", "synced"} =>
                 w[p].of \in Connections /\ w[p].copy \in Row
           /\ w[p].do \in {"checked", "synced"} =>
                 w[p].error \in Errors
           /\ w[p].do = "migrate" =>
                 w[p].moved \subseteq Connections /\ w[p].failed \subseteq Connections
<1>1. w[p] \in Tasks
  BY DEF Typed
<1>. QED BY <1>1 DEF Tasks, Idle

LEMMA RotationInit == Init => RotationInv
<1> SUFFICES ASSUME Init PROVE RotationInv
  OBVIOUS
<1> USE CredentialsAssumption DEF Init
<1>1. 1 \in Keys /\ None \notin Keys
  BY DEF Keys
<1>2. Typed
  BY <1>1 DEF Typed, Row, Errors, Tasks, KeyLists, Idle
<1>3. RowsLive
  BY DEF RowsLive, Stored, Live
<1>4. KeysInv
  BY DEF KeysInv, Deployed
<1>5. TasksInv
  BY DEF TasksInv, CreateOk, CopyOk, MigrationOk, Idle
<1>. QED BY <1>2, <1>3, <1>4, <1>5 DEF RotationInv

LEMMA EncryptsStep ==
    ASSUME RotationInv, NEW p \in Apis, NEW c \in Connections, NEW sent \in Sent,
           Encrypts(p, c, sent)
    PROVE  RotationInv'
<1> USE DEF RotationInv, Encrypts, runbook, Processes
<1>1. Typed'
  BY DEF Typed, Row, Errors, Tasks, KeyLists, EncryptsWith
<1>2. RowsLive'
  BY DEF RowsLive, Stored, Live
<1>3. KeysInv'
  BY DEF KeysInv, Deployed
<1>4. TasksInv'
  BY DEF Typed, TasksInv, CreateOk, CopyOk, MigrationOk, Stored, EncryptsWith
<1>. QED BY <1>1, <1>2, <1>3, <1>4

LEMMA CreatesStep ==
    ASSUME RotationInv, NEW p \in Apis, Creates(p)
    PROVE  RotationInv'
<1> USE DEF RotationInv, Creates, runbook, world, Processes
<1>1. w[p].of \in Connections /\ w[p].new \in Row
  BY TaskShape
<1>2. Typed'
  BY <1>1 DEF Typed, Tasks, Idle
<1>3. w[p].new.key \in Live \cup {None}
  BY DEF Typed, KeysInv, TasksInv, CreateOk, Deployed, Live
<1>4. RowsLive'
  BY <1>1, <1>3 DEF Typed, RowsLive, Stored, Live
<1>5. KeysInv'
  BY DEF KeysInv, Deployed
<1>6. ASSUME NEW q \in Processes PROVE CreateOk(q)' /\ CopyOk(q)'
  <2>1. CASE q = p
    BY <2>1 DEF Typed, CreateOk, CopyOk, Idle
  <2>2. CASE q # p
    <3>1. w'[q] = w[q] /\ CreateOk(q) /\ CopyOk(q)
      BY <2>2 DEF Typed, TasksInv
    <3>2. \A c \in Connections : row[c] # None => row'[c] # None
      BY <1>1, CredentialsAssumption DEF Typed
    <3>. QED BY <3>1, <3>2, TaskShape DEF CreateOk, CopyOk
  <2>. QED BY <2>1, <2>2
<1>7. ASSUME NEW q \in Processes PROVE MigrationOk(q)'
  <2>1. CASE q = p
    BY <2>1 DEF Typed, MigrationOk, Idle
  <2>2. CASE q # p
    <3>1. w'[q] = w[q] /\ MigrationOk(q)
      BY <2>2 DEF Typed, TasksInv
    <3>2. phase \in {"migrate", "drop"} => w[p].new.key \in {None, env.current}
      BY DEF Typed, KeysInv, TasksInv, CreateOk, Deployed
    <3>3. \A c \in Stored' :
            (c \in Stored /\ row'[c] = row[c]) \/ row'[c].key = w[p].new.key
      BY <1>1 DEF Typed, Stored
    <3>4. Stored \subseteq Stored' /\ \A c \in Stored' : row'[c].key # None
      BY <1>1 DEF Typed, Stored
    <3>. QED BY <3>1, <3>2, <3>3, <3>4 DEF MigrationOk
  <2>. QED BY <2>1, <2>2
<1>8. TasksInv'
  BY <1>6, <1>7 DEF TasksInv
<1>. QED BY <1>2, <1>4, <1>5, <1>8

\* A step of a task that writes no row and keeps what the task carries.
LEMMA LoadsStep ==
    ASSUME RotationInv, NEW p \in Workers, NEW c \in Connections,
           NEW do \in {"check", "sync"}, Loads(p, c, do)
    PROVE  RotationInv'
<1> USE DEF RotationInv, Loads, runbook, world, Processes
<1>1. Typed'
  <2>1. row[c] \in Row
    BY DEF Typed
  <2>. QED BY <2>1 DEF Typed, Tasks
<1>2. RowsLive'
  BY DEF RowsLive, Stored, Live
<1>3. KeysInv'
  BY DEF KeysInv, Deployed
<1>4. TasksInv'
  BY DEF Typed, TasksInv, CreateOk, CopyOk, MigrationOk, Stored
<1>. QED BY <1>1, <1>2, <1>3, <1>4

LEMMA AsksStep ==
    ASSUME RotationInv, NEW p \in Workers, Asks(p)
    PROVE  RotationInv'
<1> USE DEF RotationInv, Asks, Ends, runbook, Processes
<1>1. w[p].of \in Connections /\ w[p].copy \in Row
  BY TaskShape
<1>2. Typed'
  BY <1>1 DEF Typed, Tasks, Errors
<1>3. RowsLive'
  BY DEF RowsLive, Stored, Live
<1>4. KeysInv'
  BY DEF KeysInv, Deployed
<1>5. TasksInv'
  BY DEF Typed, TasksInv, CreateOk, CopyOk, MigrationOk, Stored
<1>. QED BY <1>2, <1>3, <1>4, <1>5

LEMMA BreaksStep ==
    ASSUME RotationInv, NEW p \in Workers, Breaks(p)
    PROVE  RotationInv'
<1> USE DEF RotationInv, Breaks, Ends, runbook, world, Processes
<1>1. w[p].of \in Connections /\ w[p].copy \in Row
  BY TaskShape
<1>2. Typed'
  BY <1>1 DEF Typed, Tasks, Errors
<1>3. RowsLive'
  BY DEF RowsLive, Stored, Live
<1>4. KeysInv'
  BY DEF KeysInv, Deployed
<1>5. TasksInv'
  BY DEF Typed, TasksInv, CreateOk, CopyOk, MigrationOk, Stored, Idle
<1>. QED BY <1>2, <1>3, <1>4, <1>5

\* The UPDATE of a check or a sync, which leaves the key of the row alone.
LEMMA WritesStep ==
    ASSUME RotationInv, NEW p \in Workers, NEW new \in Row,
           w[p].do \in {"checked", "synced"}, new.key = w[p].copy.key,
           row' = [row EXCEPT ![w[p].of] = Written(@, w[p].copy, new)],
           w' = [w EXCEPT ![p] = Idle],
           UNCHANGED <<world, runbook>>
    PROVE  RotationInv'
<1> USE DEF RotationInv, runbook, world, Processes
<1> DEFINE of == w[p].of
<1>1. of \in Connections /\ w[p].copy \in Row
  BY TaskShape
<1>2. row[of] \in Row
  BY <1>1 DEF Typed, TasksInv, CopyOk
<1>3. row'[of] \in Row /\ row'[of].key = row[of].key
  BY <1>1, <1>2, WrittenRow DEF Typed
<1>4. \A c \in Connections : c # of => row'[c] = row[c]
  BY <1>1 DEF Typed
<1>5. Typed'
  BY <1>1, <1>3 DEF Typed, Tasks
<1>6. Stored' = Stored /\ \A c \in Stored : row'[c].key = row[c].key
  BY <1>1, <1>2, <1>3, <1>4, CredentialsAssumption DEF Stored
<1>7. \A c \in Connections : row[c] # None => row'[c] # None
  BY <1>3, <1>4, CredentialsAssumption
<1>8. RowsLive'
  BY <1>6 DEF RowsLive, Live
<1>9. KeysInv'
  BY DEF KeysInv, Deployed
<1>10. TasksInv'
  <2> SUFFICES ASSUME NEW q \in Processes
               PROVE  CreateOk(q)' /\ CopyOk(q)' /\ MigrationOk(q)'
    BY DEF TasksInv
  <2>1. CASE q = p
    BY <2>1 DEF Typed, CreateOk, CopyOk, MigrationOk, Idle
  <2>2. CASE q # p
    <3>1. w'[q] = w[q] /\ CreateOk(q) /\ CopyOk(q) /\ MigrationOk(q)
      BY <2>2 DEF Typed, TasksInv
    <3>2. CreateOk(q)' /\ CopyOk(q)'
      BY <3>1, <1>7, TaskShape DEF CreateOk, CopyOk
    <3>3. MigrationOk(q)'
      BY <3>1, <1>6 DEF MigrationOk
    <3>. QED BY <3>2, <3>3
  <2>. QED BY <2>1, <2>2
<1>. QED BY <1>5, <1>8, <1>9, <1>10

LEMMA CheckCommitsStep ==
    ASSUME RotationInv, NEW p \in Workers, CheckCommits(p)
    PROVE  RotationInv'
<1> DEFINE new == [w[p].copy EXCEPT !.error = w[p].error,
                      !.status = IF w[p].error = None THEN "connected" ELSE "error"]
<1>1. w[p].copy \in Row /\ w[p].error \in Errors
  BY TaskShape DEF RotationInv, CheckCommits, Processes
<1>2. new \in Row /\ new.key = w[p].copy.key
  BY <1>1 DEF Row
<1>. QED BY <1>2, WritesStep DEF CheckCommits

LEMMA SyncCommitsStep ==
    ASSUME RotationInv, NEW p \in Workers, SyncCommits(p)
    PROVE  RotationInv'
<1> DEFINE new == [w[p].copy EXCEPT !.error = w[p].error]
<1>1. w[p].copy \in Row /\ w[p].error \in Errors
  BY TaskShape DEF RotationInv, SyncCommits, Processes
<1>2. new \in Row /\ new.key = w[p].copy.key
  BY <1>1 DEF Row
<1>. QED BY <1>2, WritesStep DEF SyncCommits

\* Every process has both keys by now, so that no row is left out.
LEMMA MigrationReadsStep ==
    ASSUME RotationInv, NEW p \in Workers, MigrationReads(p)
    PROVE  RotationInv'
<1> USE DEF RotationInv, MigrationReads, runbook, world, Processes
<1>1. \A c \in Stored : Decrypts(keys[p], row[c].key)
  BY DEF Typed, KeysInv, RowsLive, Live, Deployed, Decrypts, Stored
<1>2. w'[p].moved = Stored /\ w'[p].failed = {} /\ w'[p].do = "migrate"
  BY <1>1 DEF Typed
<1>3. Typed'
  BY DEF Typed, Tasks, Stored
<1>4. RowsLive'
  BY DEF RowsLive, Stored, Live
<1>5. KeysInv'
  BY DEF KeysInv, Deployed
<1>6. TasksInv'
  BY <1>2 DEF Typed, TasksInv, CreateOk, CopyOk, MigrationOk, Stored
<1>. QED BY <1>3, <1>4, <1>5, <1>6

\* The rows that the migration read and those stored since have the new key.
LEMMA MigrationCommitsStep ==
    ASSUME RotationInv, NEW p \in Workers, MigrationCommits(p)
    PROVE  RotationInv'
<1> USE DEF RotationInv, MigrationCommits, runbook, world, Processes
<1>1. MigrationOk(p) /\ w[p].moved \subseteq Connections
  BY TaskShape DEF TasksInv
<1>2. keys[p].current = env.current /\ env.current \in Keys
  BY <1>1 DEF MigrationOk, Typed, KeyLists, KeysInv, Deployed
<1>3. ASSUME NEW c \in Connections
      PROVE  /\ c \in w[p].moved => row'[c] \in Row /\ row'[c].key = env.current
             /\ c \notin w[p].moved => row'[c] = row[c]
  <2>1. CASE c \in w[p].moved
    <3>1. row[c] \in Row /\ row'[c] = [row[c] EXCEPT !.key = env.current]
      BY <1>1, <1>2, <2>1 DEF Typed, EncryptsWith, MigrationOk, Stored
    <3>. QED BY <2>1, <3>1, <1>2 DEF Row
  <2>2. CASE c \notin w[p].moved
    BY <2>2
  <2>. QED BY <2>1, <2>2
<1>4. Typed'
  BY <1>3 DEF Typed, Tasks
<1>5. Stored' = Stored /\ \A c \in Stored : row'[c].key = env.current
  BY <1>1, <1>2, <1>3, CredentialsAssumption DEF MigrationOk, Stored
<1>6. \A c \in Connections : row[c] # None => row'[c] # None
  BY <1>3, CredentialsAssumption
<1>7. RowsLive'
  BY <1>5 DEF RowsLive, Live
<1>8. KeysInv'
  BY DEF KeysInv, Deployed
<1>9. TasksInv'
  <2> SUFFICES ASSUME NEW q \in Processes
               PROVE  CreateOk(q)' /\ CopyOk(q)' /\ MigrationOk(q)'
    BY DEF TasksInv
  <2>1. CASE q = p
    BY <2>1 DEF Typed, CreateOk, CopyOk, MigrationOk, Idle
  <2>2. CASE q # p
    <3>1. w'[q] = w[q] /\ CreateOk(q) /\ CopyOk(q) /\ MigrationOk(q)
      BY <2>2 DEF Typed, TasksInv
    <3>2. CreateOk(q)' /\ CopyOk(q)'
      BY <3>1, <1>6, TaskShape DEF CreateOk, CopyOk
    <3>3. MigrationOk(q)'
      BY <3>1, <1>5 DEF MigrationOk
    <3>. QED BY <3>2, <3>3
  <2>. QED BY <2>1, <2>2
<1>. QED BY <1>4, <1>7, <1>8, <1>9

-------------------------------------------------------------------------------
(* The operator.                                                            *)

LEMMA RestartsStep ==
    ASSUME RotationInv, NEW p \in Processes, Restarts(p)
    PROVE  RotationInv'
<1> USE DEF RotationInv, Restarts, world
<1>1. Typed'
  BY DEF Typed, Tasks
<1>2. RowsLive'
  BY DEF RowsLive, Stored, Live
<1>3. KeysInv'
  BY DEF Typed, KeysInv, Deployed
<1>4. TasksInv'
  BY DEF Typed, TasksInv, CreateOk, CopyOk, MigrationOk, Stored, Idle
<1>. QED BY <1>1, <1>2, <1>3, <1>4

LEMMA RotatesStep ==
    ASSUME RotationInv, Rotates
    PROVE  RotationInv'
<1> USE DEF RotationInv, Rotates, world
<1>1. env'.current \in Keys /\ env'.previous = env.current /\ env.current \in Keys
  BY CredentialsAssumption DEF Typed, KeyLists, Keys
<1>2. env.previous = None /\ env = [current |-> env.current, previous |-> None]
  BY DEF Typed, KeyLists, KeysInv
<1>3. Typed'
  BY <1>1 DEF Typed, KeyLists
<1>4. RowsLive'
  BY <1>1 DEF RowsLive, Stored, Live
<1>5. KeysInv'
  BY <1>1, <1>2, CredentialsAssumption DEF KeysInv, Deployed
<1>6. TasksInv'
  BY DEF TasksInv, CreateOk, CopyOk, MigrationOk
<1>. QED BY <1>3, <1>4, <1>5, <1>6

LEMMA MigratesStep ==
    ASSUME RotationInv, Migrates
    PROVE  RotationInv'
<1> USE DEF RotationInv, Migrates, world
<1>1. Typed'
  BY DEF Typed
<1>2. RowsLive'
  BY DEF RowsLive, Stored, Live
<1>3. KeysInv'
  BY DEF KeysInv, Deployed
<1>4. TasksInv'
  BY DEF TasksInv, CreateOk, CopyOk, MigrationOk
<1>. QED BY <1>1, <1>2, <1>3, <1>4

LEMMA DropsOldKeyStep ==
    ASSUME RotationInv, DropsOldKey
    PROVE  RotationInv'
<1> USE DEF RotationInv, DropsOldKey, world
<1>1. env'.current = env.current /\ env'.previous = None /\ env' \in KeyLists
  BY DEF Typed, KeyLists
<1>2. env.previous # None /\ \A p \in Processes : keys[p] = env
  BY DEF KeysInv, Deployed
<1>3. Typed'
  BY <1>1 DEF Typed
<1>4. RowsLive'
  BY <1>1 DEF RowsLive, Stored, Live
<1>5. KeysInv'
  BY <1>1, <1>2 DEF KeysInv
<1>6. TasksInv'
  BY <1>1, <1>2 DEF TasksInv, CreateOk, CopyOk, MigrationOk, Stored
<1>. QED BY <1>3, <1>4, <1>5, <1>6

\* A migration that was going on has ended with its process's restart.
LEMMA FinishesStep ==
    ASSUME RotationInv, Finishes
    PROVE  RotationInv'
<1> USE DEF RotationInv, Finishes, world
<1>1. Typed'
  BY DEF Typed
<1>2. RowsLive'
  BY DEF RowsLive, Stored, Live
<1>3. KeysInv'
  BY DEF KeysInv, Deployed
<1>4. TasksInv'
  BY DEF Deployed, TasksInv, CreateOk, CopyOk, MigrationOk
<1>. QED BY <1>1, <1>2, <1>3, <1>4

LEMMA DiesStep ==
    ASSUME RotationInv, NEW p \in Processes, Dies(p)
    PROVE  RotationInv'
<1> USE DEF RotationInv, Dies, runbook
<1>1. Typed'
  BY DEF Typed, Tasks
<1>2. RowsLive'
  BY DEF RowsLive, Stored, Live
<1>3. KeysInv'
  BY DEF KeysInv, Deployed
<1>4. TasksInv'
  BY DEF Typed, TasksInv, CreateOk, CopyOk, MigrationOk, Stored, Idle
<1>. QED BY <1>1, <1>2, <1>3, <1>4

\* A step that leaves the rows, the runbook and the tasks alone.
LEMMA RotationStutters ==
    ASSUME RotationInv, UNCHANGED <<row, w, runbook>>
    PROVE  RotationInv'
BY DEF RotationInv, runbook, Typed, RowsLive, Stored, Live, KeysInv, Deployed,
       TasksInv, CreateOk, CopyOk, MigrationOk

LEMMA RotationSteps == RotationInv /\ [Next]_vars => RotationInv'
<1> SUFFICES ASSUME RotationInv, [Next]_vars PROVE RotationInv'
  OBVIOUS
<1>1. CASE UNCHANGED vars
  BY <1>1, RotationStutters DEF vars, runbook
<1>2. ASSUME NEW p \in Apis, NEW c \in Connections, NEW sent \in Sent, Encrypts(p, c, sent)
      PROVE  RotationInv'
  BY <1>2, EncryptsStep
<1>3. ASSUME NEW p \in Apis, Creates(p) PROVE RotationInv'
  BY <1>3, CreatesStep
<1>4. ASSUME NEW p \in Workers, NEW c \in Connections, CheckLoads(p, c) \/ SyncLoads(p, c)
      PROVE  RotationInv'
  BY <1>4, LoadsStep DEF CheckLoads, SyncLoads
<1>5. ASSUME NEW p \in Workers, MigrationReads(p) \/ Proceeds(p) PROVE RotationInv'
  BY <1>5, MigrationReadsStep, AsksStep, BreaksStep, CheckCommitsStep, SyncCommitsStep,
     MigrationCommitsStep DEF Proceeds
<1>6. ASSUME NEW c \in Connections, ChangesMind(c) PROVE RotationInv'
  BY <1>6, RotationStutters DEF ChangesMind
<1>7. ASSUME NEW p \in Processes, Restarts(p) \/ Dies(p) PROVE RotationInv'
  BY <1>7, RestartsStep, DiesStep
<1>8. CASE Rotates \/ Migrates \/ DropsOldKey \/ Finishes
  BY <1>8, RotatesStep, MigratesStep, DropsOldKeyStep, FinishesStep
<1>. QED BY <1>1, <1>2, <1>3, <1>4, <1>5, <1>6, <1>7, <1>8 DEF Next

-------------------------------------------------------------------------------
\* Whatever the requests, tasks, deaths and restarts, between any two keys, a row is
\* stored under a key of the environment, and a process has been started with one.
THEOREM RotationInvariant == Spec => []RotationInv
BY RotationInit, RotationSteps, PTL DEF Spec

\* A rotation by the runbook loses no credentials, for any number of connections,
\* processes and rotations (_reencrypt_all_connections, MultiFernet's key list).
THEOREM RotationKeepsAll == Spec => []RotationLosesNothing
<1>1. RotationInv => RotationLosesNothing
  <2> SUFFICES ASSUME RotationInv, NEW c \in Stored, NEW p \in Workers,
                      phase = "overlap" => keys[p] = env
               PROVE  Decrypts(keys[p], row[c].key)
    BY DEF RotationLosesNothing
  <2>1. row[c].key \in Live /\ row[c].key # None
    BY DEF RotationInv, RowsLive, Stored
  <2>2. phase # "drop" => keys[p] = env
    BY DEF RotationInv, Typed, KeysInv, Deployed, Processes
  <2>3. phase = "drop" => keys[p].current = env.current
    BY DEF RotationInv, KeysInv, Processes
  <2>. QED BY <2>1, <2>2, <2>3 DEF Live, Decrypts
<1>. QED BY <1>1, RotationInvariant, PTL

\* Every variable stays in its type, the counters within their bounds.
THEOREM CredentialsTyped == Spec => []TypeOK
<1> USE CredentialsAssumption DEF world, runbook
<1>1. Init => TypeOK
  BY RotationInit DEF Init, RotationInv, TypeOK
<1>2. TypeOK /\ RotationInv /\ RotationInv' /\ [Next]_vars => TypeOK'
  <2> SUFFICES ASSUME TypeOK, Typed', [Next]_vars PROVE TypeOK'
    BY DEF RotationInv
  <2> USE DEF TypeOK
  <2>1. CASE UNCHANGED vars
    BY <2>1 DEF vars
  <2>2. ASSUME NEW p \in Apis,
               Creates(p) \/ \E c \in Connections, sent \in Sent : Encrypts(p, c, sent)
        PROVE  TypeOK'
    BY <2>2 DEF Encrypts, Creates
  <2>3. ASSUME NEW p \in Workers,
               \/ \E c \in Connections : CheckLoads(p, c) \/ SyncLoads(p, c)
               \/ MigrationReads(p) \/ Asks(p) \/ Breaks(p)
               \/ CheckCommits(p) \/ SyncCommits(p)
        PROVE  TypeOK'
    BY <2>3 DEF CheckLoads, SyncLoads, Loads, MigrationReads, Asks, Breaks,
                CheckCommits, SyncCommits
  <2>4. ASSUME NEW p \in Workers, MigrationCommits(p) PROVE TypeOK'
    BY <2>4, TaskShape DEF MigrationCommits, Processes
  <2>5. ASSUME NEW c \in Connections, ChangesMind(c) PROVE TypeOK'
    BY <2>5 DEF ChangesMind
  <2>6. ASSUME NEW p \in Processes, Restarts(p) \/ Dies(p) PROVE TypeOK'
    BY <2>6 DEF Restarts, Dies
  <2>7. CASE Rotates \/ Migrates \/ DropsOldKey \/ Finishes
    BY <2>7 DEF Rotates, Migrates, DropsOldKey, Finishes
  <2>. QED BY <2>1, <2>2, <2>3, <2>4, <2>5, <2>6, <2>7 DEF Next, Proceeds
<1>. QED BY <1>1, <1>2, RotationInvariant, PTL DEF Spec

===============================================================================
