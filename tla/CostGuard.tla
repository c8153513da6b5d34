------------------------------ MODULE CostGuard ------------------------------
(***************************************************************************)
(* The AI cost guard of the worker.  Every task that makes a billed        *)
(* provider call records itself as an AIJob, compares the tenant's spend   *)
(* of this calendar month with the budget of its plan, calls the provider  *)
(* and writes the cost on the job.  The check and the call are not one     *)
(* transaction, so tasks that were cleared together all spend; and the     *)
(* subscription row is created on first use, by whoever looks first.       *)
(***************************************************************************)
EXTENDS Naturals, FiniteSets, FiniteSetsExt

CONSTANTS
    Jobs,       \* runs of the product content and analytics tasks
    Tenants,
    TenantOf,   \* the tenant each job works for
    Slots,      \* celery's concurrency: tasks at work at the same time
    Budget,     \* AI budget of each tenant's plan, in units of cost
    MaxCost,    \* what one call costs at most
    LastMonth,  \* how far the calendar runs
    Legacy,     \* tenants created before subscriptions existed
    Faults,     \* workers die
    NoJob

ASSUME GuardAssumption ==
    /\ IsFiniteSet(Jobs) /\ TenantOf \in [Jobs -> Tenants]
    /\ Slots \in Nat \ {0}
    /\ Budget \in [Tenants -> Nat \ {0}]
    /\ MaxCost \in Nat
    /\ LastMonth \in Nat
    /\ Legacy \subseteq Tenants
    /\ Faults \in BOOLEAN
    /\ NoJob \notin Jobs

Months == 0..LastMonth

VARIABLES
    now,        \* the current month
    row,        \* tenants whose subscription row is committed
    inserting,  \* per tenant, the job whose insert of that row is flushed, not committed
    job,        \* ai_jobs.status, "absent" before the row exists
    month,      \* the month each job's row was created in
    spent,      \* per tenant and month, the sum of cost_estimate over its jobs
    bill,       \* what the provider has charged for each job
    pc          \* where each task stands

vars == <<now, row, inserting, job, month, spent, bill, pc>>

AtWork == {"created", "missing", "ready", "cleared", "answered"}

TypeOK ==
    /\ now \in Months
    /\ row \subseteq Tenants
    /\ inserting \in [Tenants -> Jobs \cup {NoJob}]
    /\ job \in [Jobs -> {"absent", "running", "succeeded", "failed"}]
    /\ month \in [Jobs -> Months]
    /\ spent \in [Tenants -> [Months -> Nat]]
    /\ bill \in [Jobs -> 0..MaxCost]
    /\ pc \in [Jobs -> AtWork \cup {"idle", "done", "broken", "dead"}]

Init ==
    /\ now = 0
    /\ row = Tenants \ Legacy
    /\ inserting = [t \in Tenants |-> NoJob]
    /\ job = [j \in Jobs |-> "absent"]
    /\ month = [j \in Jobs |-> 0]
    /\ spent = [t \in Tenants |-> [m \in Months |-> 0]]
    /\ bill = [j \in Jobs |-> 0]
    /\ pc = [j \in Jobs |-> "idle"]

JobStep(j, from, to) ==
    /\ pc[j] = from
    /\ pc' = [pc EXCEPT ![j] = to]

\* The session commits: a subscription it had flushed becomes visible.
Commit(j) ==
    LET t == TenantOf[j] IN
    /\ row' = IF inserting[t] = j THEN row \cup {t} ELSE row
    /\ inserting' = [inserting EXCEPT ![t] = IF @ = j THEN NoJob ELSE @]

\* The session is rolled back, and what it had flushed is gone.
Rollback(j) ==
    /\ inserting' = [inserting EXCEPT ![TenantOf[j]] = IF @ = j THEN NoJob ELSE @]
    /\ UNCHANGED row

-------------------------------------------------------------------------------
\* The job is committed as RUNNING before anything is checked.
Create(j) ==
    /\ Cardinality({k \in Jobs : pc[k] \in AtWork}) < Slots
    /\ JobStep(j, "idle", "created")
    /\ job' = [job EXCEPT ![j] = "running"]
    /\ month' = [month EXCEPT ![j] = now]
    /\ UNCHANGED <<now, row, inserting, spent, bill>>

\* get_or_create_subscription() looks for the row.
LooksUp(j) ==
    /\ JobStep(j, "created", IF TenantOf[j] \in row THEN "ready" ELSE "missing")
    /\ UNCHANGED <<now, row, inserting, job, month, spent, bill>>

\* ... and flushes an INSERT if there was none.  The unique index on tenant_id
\* makes it wait for another session's uncommitted row, and refuses it when that
\* row is committed: the IntegrityError is raised outside the task's try.
Inserts(j) ==
    LET t == TenantOf[j] IN
    /\ inserting[t] = NoJob
    /\ \/ /\ t \notin row
          /\ JobStep(j, "missing", "ready")
          /\ inserting' = [inserting EXCEPT ![t] = j]
       \/ /\ t \in row
          /\ JobStep(j, "missing", "broken")
          /\ UNCHANGED inserting
    /\ UNCHANGED <<now, row, job, month, spent, bill>>

Exceeded(t, m) == spent[t][m] >= Budget[t]

Clears(j) ==
    /\ JobStep(j, "ready", "cleared")
    /\ UNCHANGED <<row, inserting, job>>

Refuses(j) ==
    /\ JobStep(j, "ready", "done")
    /\ job' = [job EXCEPT ![j] = "failed"]
    /\ Commit(j)

\* Variant: sums up the month the tenant started in, not the current one.
Checks_FirstMonth(j) ==
    /\ \/ ~Exceeded(TenantOf[j], 0) /\ Clears(j)
       \/ Exceeded(TenantOf[j], 0) /\ Refuses(j)
    /\ UNCHANGED <<now, month, spent, bill>>

\* check_tenant_ai_budget(): cleared, or FAILED without a call.
Checks(j) ==
    /\ \/ ~Exceeded(TenantOf[j], now) /\ Clears(j)
       \/ Exceeded(TenantOf[j], now) /\ Refuses(j)
    /\ UNCHANGED <<now, month, spent, bill>>

\* The provider answers, and charges for it.
Calls(j) ==
    /\ JobStep(j, "cleared", "answered")
    /\ \E c \in 0..MaxCost : bill' = [bill EXCEPT ![j] = c]
    /\ UNCHANGED <<now, row, inserting, job, month, spent>>

\* Variant: the failure is raised before the session is committed or closed.
CallFails_KeepsOpen(j) ==
    /\ JobStep(j, "cleared", "done")
    /\ job' = [job EXCEPT ![j] = "failed"]
    /\ \E c \in 0..MaxCost : bill' = [bill EXCEPT ![j] = c]
    /\ UNCHANGED <<now, row, inserting, month, spent>>

\* The call raises, or its answer does not validate: FAILED, with no cost, though
\* the provider may have charged for the answer.
CallFails(j) ==
    /\ JobStep(j, "cleared", "done")
    /\ job' = [job EXCEPT ![j] = "failed"]
    /\ \E c \in 0..MaxCost : bill' = [bill EXCEPT ![j] = c]
    /\ Commit(j)
    /\ UNCHANGED <<now, month, spent>>

\* Variant: the cost counts for the month in which the answer came.
Records_ThisMonth(j) ==
    /\ JobStep(j, "answered", "done")
    /\ job' = [job EXCEPT ![j] = "succeeded"]
    /\ spent' = [spent EXCEPT ![TenantOf[j]][now] = @ + bill[j]]
    /\ Commit(j)
    /\ UNCHANGED <<now, month, bill>>

\* SUCCEEDED and the usage, in one commit.  The cost counts for the month of the
\* job's created_at, whatever the month is by now.
Records(j) ==
    /\ JobStep(j, "answered", "done")
    /\ job' = [job EXCEPT ![j] = "succeeded"]
    /\ spent' = [spent EXCEPT ![TenantOf[j]][month[j]] = @ + bill[j]]
    /\ Commit(j)
    /\ UNCHANGED <<now, month, bill>>

\* The worker dies; nothing looks after a job left RUNNING.
Dies(j) ==
    /\ Faults
    /\ \E at \in AtWork : JobStep(j, at, "dead")
    /\ Rollback(j)
    /\ UNCHANGED <<now, job, month, spent, bill>>

\* A billing request creates the row in a transaction of its own.
StatusRead(t) ==
    /\ t \notin row
    /\ inserting[t] = NoJob
    /\ row' = row \cup {t}
    /\ UNCHANGED <<now, inserting, job, month, spent, bill, pc>>

NextMonth ==
    /\ now < LastMonth
    /\ now' = now + 1
    /\ UNCHANGED <<row, inserting, job, month, spent, bill, pc>>

-------------------------------------------------------------------------------
Proceeds(j) ==
    LooksUp(j) \/ Inserts(j) \/ Checks(j) \/ Calls(j) \/ CallFails(j) \/ Records(j)

Next ==
    \/ \E j \in Jobs : Create(j) \/ Proceeds(j) \/ Dies(j)
    \/ \E t \in Tenants : StatusRead(t)
    \/ NextMonth

\* A worker goes on with a task it has taken.
Spec     == Init /\ [][Next]_vars
FairSpec == Spec /\ \A j \in Jobs : WF_vars(Proceeds(j))

-------------------------------------------------------------------------------
\* How far the guard lets a tenant overshoot: tasks that hold a slot when the
\* budget runs out still spend, once for the month they were created in and, when
\* the calendar turned between a job's creation and its check, once more.
SpendBounded ==
    \A t \in Tenants, m \in 0..now :
        spent[t][m] < Budget[t] + (IF m = now THEN 1 ELSE 2) * Slots * MaxCost

\* The successful jobs of a tenant's month, and what a set of jobs was charged.
Counted(t, m) == {j \in Jobs : TenantOf[j] = t /\ month[j] = m /\ job[j] = "succeeded"}
Charged(S) == MapThenSumSet(LAMBDA j : bill[j], S)

\* What the guard sums up is what the successful jobs of the month were charged:
\* no call is counted twice, or in a month other than that of its job.
SpendIsBilled ==
    \A t \in Tenants, m \in Months : spent[t][m] = Charged(Counted(t, m))

\* A task that began comes to an end: none waits for ever for another's row.
TasksEnd == \A j \in Jobs : pc[j] = "created" ~> pc[j] \in {"done", "broken", "dead"}
===============================================================================
