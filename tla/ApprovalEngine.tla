---------------------------- MODULE ApprovalEngine ----------------------------
(***************************************************************************)
(* The recommendation life cycle: worker tasks that generate a             *)
(* recommendation and put it in the human queue, and API requests that     *)
(* approve or reject it (packages/policies, the generator tasks of         *)
(* apps/worker, the recommendation routes of apps/api).                    *)
(*                                                                         *)
(* Every task and every request has a database session of its own.         *)
(* PostgreSQL runs READ COMMITTED and no query takes a row lock, so a      *)
(* session's reads and its commits are separate steps: one action here     *)
(* ends at each commit, and what a session loaded before may be stale when *)
(* it commits.  An UPDATE names only the columns the session changed.      *)
(*                                                                         *)
(* A recommendation is identified with the one task that may create it.    *)
(***************************************************************************)
EXTENDS FiniteSets, Naturals

CONSTANTS
    Recs,           \* recommendation ids, one for each generator task
    Entities,       \* (recommendation type, offer or product) pairs
    Tenants,
    Requests,       \* approve and reject calls, each made once
    NoOne,          \* decided_by while it is NULL
    NoCall,         \* the arguments of a request that was not accepted
    EntityOf,       \* what each recommendation is about
    TenantOf,       \* the tenant that owns each entity
    QueueLimit,     \* the rows GET /recommendations returns at most (200 in the code)
    SingleApprover, \* policies/README: decisions on one recommendation never overlap
    Crashes,        \* a process may die between two commits
    FlushErrors     \* the database may refuse the tool's write at commit

ASSUME WiringAssumption ==
    /\ EntityOf \in [Recs -> Entities]
    /\ TenantOf \in [Entities -> Tenants]
    /\ NoOne \notin Requests
    /\ QueueLimit \in Nat \ {0}
    /\ {SingleApprover, Crashes, FlushErrors} \subseteq BOOLEAN

Verdicts == {"approve", "reject"}
Calls    == [rec : Recs, verdict : Verdicts, tenant : Tenants]

ASSUME NoCallAssumption == NoCall \notin Calls

VARIABLES
    \* the database
    status,    \* recommendations.status ("absent": no row yet)
    approval,  \* approvals.status ("none": no row yet)
    decidedBy, \* approvals.decided_by
    audit,     \* audit_events rows written by approve()
    applied,   \* the requests whose tool call's writes were committed
    created,   \* recommendations.created_at: when the inserting transaction began
    clock,     \* the database's clock
    \* the sessions
    gen,       \* where each generator task stands
    pc,        \* where each request stands
    call,      \* the arguments of each accepted request
    result     \* ToolResult.success of each request, until it is committed

dbVars   == <<status, approval, decidedBy, audit, applied, created, clock>>
reqVars  == <<pc, call, result>>
vars     == <<dbVars, gen, reqVars>>

Terminal     == {"rejected", "success", "failed"}
OpenStatuses == {"proposed", "pending_approval"}
\* RecommendationStatus without APPROVED, which no code path ever stores
Statuses     == {"absent", "executing"} \cup OpenStatuses \cup Terminal
AuditRows    == [rec : Recs, actor : Requests, outcome : {"ok", "fail"}]
InFlight     == {"loaded", "executing", "ran"}

TypeOK ==
    /\ status \in [Recs -> Statuses]
    /\ approval \in [Recs -> {"none", "pending", "approved", "rejected"}]
    /\ decidedBy \in [Recs -> Requests \cup {NoOne}]
    /\ audit \subseteq AuditRows
    /\ applied \subseteq Requests
    /\ created \in [Recs -> Nat]
    /\ clock \in Nat
    /\ gen \in [Recs -> {"queued", "clear", "proposed", "done", "lost"}]
    /\ pc \in [Requests -> {"idle", "refused", "done", "error", "lost"} \cup InFlight]
    /\ call \in [Requests -> Calls \cup {NoCall}]
    /\ result \in [Requests -> {"none", "ok", "fail"}]

Init ==
    /\ status = [r \in Recs |-> "absent"]
    /\ approval = [r \in Recs |-> "none"]
    /\ decidedBy = [r \in Recs |-> NoOne]
    /\ audit = {}
    /\ applied = {}
    /\ created = [r \in Recs |-> 0]
    /\ clock = 1
    /\ gen = [r \in Recs |-> "queued"]
    /\ pc = [q \in Requests |-> "idle"]
    /\ call = [q \in Requests |-> NoCall]
    /\ result = [q \in Requests |-> "none"]

-------------------------------------------------------------------------------
(* Generator tasks: check for an open recommendation, propose, submit.     *)

GenStep(r, from, to) ==
    /\ gen[r] = from
    /\ gen' = [gen EXCEPT ![r] = to]

HasOpenRec(e) == \E r \in Recs : EntityOf[r] = e /\ status[r] \in OpenStatuses

\* The task ends without a proposal: the offer or product is gone, an open
\* recommendation exists, or the agent finds nothing to propose.
GenSkip(r) == GenStep(r, "queued", "done") /\ UNCHANGED <<dbVars, reqVars>>

\* PostgreSQL's now() is the time the transaction began; no two begin together.
Begin(r) ==
    /\ created' = [created EXCEPT ![r] = clock]
    /\ clock' = clock + 1

\* The duplicate check; the transaction that began here goes on while the agent works.
GenClear(r) ==
    /\ ~HasOpenRec(EntityOf[r])
    /\ GenStep(r, "queued", "clear")
    /\ Begin(r)
    /\ UNCHANGED <<status, approval, decidedBy, audit, applied, reqVars>>

\* propose_recommendation(): insert and commit; the earlier check is not repeated.
\* The content task has committed its job since, so its insert begins anew.
GenPropose(r) ==
    /\ GenStep(r, "clear", "proposed")
    /\ status' = [status EXCEPT ![r] = "proposed"]
    /\ Begin(r) \/ UNCHANGED <<created, clock>>
    /\ UNCHANGED <<approval, decidedBy, audit, applied, reqVars>>

\* Variant: the Approval row is inserted, the recommendation's status left alone.
GenSubmit_NoStatus(r) ==
    /\ status[r] = "proposed"
    /\ GenStep(r, "proposed", "done")
    /\ approval' = [approval EXCEPT ![r] = "pending"]
    /\ UNCHANGED <<status, decidedBy, audit, applied, created, clock, reqVars>>

\* submit_for_approval(): both rows change in one commit.
GenSubmit(r) ==
    /\ status[r] = "proposed"
    /\ GenStep(r, "proposed", "done")
    /\ status' = [status EXCEPT ![r] = "pending_approval"]
    /\ approval' = [approval EXCEPT ![r] = "pending"]
    /\ UNCHANGED <<decidedBy, audit, applied, created, clock, reqVars>>

\* The worker dies; celery acknowledged the message early, so nothing reruns it.
GenLost(r) ==
    /\ Crashes
    /\ \E at \in {"clear", "proposed"} : GenStep(r, at, "lost")
    /\ UNCHANGED <<dbVars, reqVars>>

-------------------------------------------------------------------------------
(* Requests: load, decide and commit; an approval goes on to run the tool  *)
(* call and commit its result.                                             *)

ReqStep(q, from, to) ==
    /\ pc[q] = from
    /\ pc' = [pc EXCEPT ![q] = to]

RecOf(q) == call[q].rec

\* No other request is between its read of r and its last commit on it.
NoOverlap(r) == \A q \in Requests : pc[q] \in InFlight => RecOf(q) # r

\* Variant: _load_pending() without the tenant filters.
Decidable_AnyTenant(r, t) == approval[r] = "pending"

\* Variant: _load_pending() looks only for the recommendation, not at its approval.
Decidable_Unchecked(r, t) == status[r] # "absent" /\ TenantOf[EntityOf[r]] = t

\* _load_pending(): the row exists for this tenant, its approval is PENDING.
Decidable(r, t) ==
    /\ status[r] # "absent"
    /\ TenantOf[EntityOf[r]] = t
    /\ approval[r] = "pending"

Newer(p, r) == created[p] > created[r]

\* The QueueLimit newest members of a set of recommendations.
Newest(S) == {r \in S : Cardinality({p \in S : Newer(p, r)}) < QueueLimit}

\* list_recommendations() with status=pending_approval: newest first, cut off.
Listed(t) ==
    Newest({r \in Recs : status[r] = "pending_approval" /\ TenantOf[EntityOf[r]] = t})

Load(q) == \E c \in Calls :
    /\ SingleApprover => NoOverlap(c.rec)
    /\ Decidable(c.rec, c.tenant)
    /\ ReqStep(q, "idle", "loaded")
    /\ call' = [call EXCEPT ![q] = c]
    /\ UNCHANGED <<dbVars, gen, result>>

\* 404 or 409: nothing was written.
Refuse(q) == \E c \in Calls :
    /\ ~Decidable(c.rec, c.tenant)
    /\ ReqStep(q, "idle", "refused")
    /\ UNCHANGED <<dbVars, gen, call, result>>

Decide(q, verdict, newStatus) ==
    /\ call[q].verdict = verdict
    /\ approval' = [approval EXCEPT ![RecOf(q)] =
                       IF verdict = "approve" THEN "approved" ELSE "rejected"]
    /\ decidedBy' = [decidedBy EXCEPT ![RecOf(q)] = q]
    /\ status' = [status EXCEPT ![RecOf(q)] = newStatus]
    /\ UNCHANGED <<audit, applied, created, clock, gen, call, result>>

\* Variant: a rejection falls through to the execution path.
Reject_Runs(q) == ReqStep(q, "loaded", "executing") /\ Decide(q, "reject", "rejected")

Reject(q) == ReqStep(q, "loaded", "done") /\ Decide(q, "reject", "rejected")

\* Variant: the status is only changed in memory, by the final commit.
Approve_LateStatus(q) ==
    ReqStep(q, "loaded", "executing") /\ Decide(q, "approve", status[RecOf(q)])

\* approve(), first commit.
Approve(q) == ReqStep(q, "loaded", "executing") /\ Decide(q, "approve", "executing")

\* The handler runs in the same session and flushes nothing; an unknown tool,
\* bad arguments, a ToolResult.fail and an exception all end as "fail".
RunTool(q) == \E res \in {"ok", "fail"} :
    /\ ReqStep(q, "executing", "ran")
    /\ result' = [result EXCEPT ![q] = res]
    /\ UNCHANGED <<dbVars, gen, call>>

Outcome(q) == [rec |-> RecOf(q), actor |-> q, outcome |-> result[q]]

\* Variant: audits only a failed call, as if a success needed no trace.
CommitResult_AuditsFailures(q) ==
    /\ ReqStep(q, "ran", "done")
    /\ status' = [status EXCEPT ![RecOf(q)] =
                     IF result[q] = "ok" THEN "success" ELSE "failed"]
    /\ audit' = IF result[q] = "fail" THEN audit \cup {Outcome(q)} ELSE audit
    /\ applied' = IF result[q] = "ok" THEN applied \cup {q} ELSE applied
    /\ UNCHANGED <<approval, decidedBy, created, clock, gen, call, result>>

\* Variant: a failed call puts the recommendation back in the queue for a retry.
CommitResult_Requeues(q) ==
    /\ ReqStep(q, "ran", "done")
    /\ status' = [status EXCEPT ![RecOf(q)] =
                     IF result[q] = "ok" THEN "success" ELSE "pending_approval"]
    /\ approval' = IF result[q] = "ok" THEN approval
                   ELSE [approval EXCEPT ![RecOf(q)] = "pending"]
    /\ audit' = audit \cup {Outcome(q)}
    /\ applied' = IF result[q] = "ok" THEN applied \cup {q} ELSE applied
    /\ UNCHANGED <<decidedBy, created, clock, gen, call, result>>

\* Variant: the final status of a failed call is forgotten.
CommitResult_KeepsStatus(q) ==
    /\ ReqStep(q, "ran", "done")
    /\ status' = IF result[q] = "ok" THEN [status EXCEPT ![RecOf(q)] = "success"] ELSE status
    /\ audit' = audit \cup {Outcome(q)}
    /\ applied' = IF result[q] = "ok" THEN applied \cup {q} ELSE applied
    /\ UNCHANGED <<approval, decidedBy, created, clock, gen, call, result>>

\* approve(), second commit: the tool's writes, the status and the audit row.
CommitResult(q) ==
    /\ ReqStep(q, "ran", "done")
    /\ status' = [status EXCEPT ![RecOf(q)] =
                     IF result[q] = "ok" THEN "success" ELSE "failed"]
    /\ audit' = audit \cup {Outcome(q)}
    /\ applied' = IF result[q] = "ok" THEN applied \cup {q} ELSE applied
    /\ UNCHANGED <<approval, decidedBy, created, clock, gen, call, result>>

\* The second commit raises: it is outside the try, so the transaction rolls back.
ResultRefused(q) ==
    /\ FlushErrors
    /\ result[q] = "ok"
    /\ ReqStep(q, "ran", "error")
    /\ UNCHANGED <<dbVars, gen, call, result>>

RequestLost(q) ==
    /\ Crashes
    /\ \E at \in InFlight : ReqStep(q, at, "lost")
    /\ UNCHANGED <<dbVars, gen, call, result>>

-------------------------------------------------------------------------------
Generator(r) == GenSkip(r) \/ GenClear(r) \/ GenPropose(r) \/ GenSubmit(r)
Progress(q)  == Reject(q) \/ Approve(q) \/ RunTool(q) \/ CommitResult(q) \/ ResultRefused(q)

Next ==
    \/ \E r \in Recs : Generator(r) \/ GenLost(r)
    \/ \E q \in Requests : Load(q) \/ Refuse(q) \/ Progress(q) \/ RequestLost(q)

\* A task a worker has started and a request the server has accepted go on;
\* nothing makes a human decide, so Load is not fair.
Fairness ==
    /\ \A r \in Recs : WF_vars(GenPropose(r) \/ GenSubmit(r))
    /\ \A q \in Requests : WF_vars(Progress(q))

Spec     == Init /\ [][Next]_vars
FairSpec == Spec /\ Fairness

-------------------------------------------------------------------------------
(* Properties of every behaviour, overlapping decisions included.          *)

\* What GET /recommendations?status=pending_approval shows a tenant is the newest
\* QueueLimit of what _load_pending() accepts from it, although the list tests one
\* column and approve() and reject() test another: nothing shown is refused for its
\* state, and nothing that can no longer be decided takes a place in a full list.
QueueAgrees == \A t \in Tenants : Listed(t) = Newest({r \in Recs : Decidable(r, t)})

\* A tool's writes are in the store exactly when a success audit row names the
\* request that ran it, and an approval by that request came first: no write
\* without a trace, no trace without a write, whatever else failed or raced.
EffectsAudited ==
    /\ applied = {a.actor : a \in {b \in audit : b.outcome = "ok"}}
    /\ \A a \in audit : /\ call[a.actor] # NoCall
                        /\ a.rec = RecOf(a.actor)
                        /\ call[a.actor].verdict = "approve"
                        /\ approval[a.rec] \in {"approved", "rejected"}

\* A decision never crosses a tenant boundary: who decided a recommendation,
\* and who wrote its audit rows, acted for the tenant that owns the entity.
TenantBoundary ==
    /\ \A r \in Recs : decidedBy[r] # NoOne =>
           call[decidedBy[r]].tenant = TenantOf[EntityOf[r]]
    /\ \A a \in audit : call[a.actor].tenant = TenantOf[EntityOf[a.rec]]

\* Nothing that left the queue comes back to it: once decided, a recommendation
\* is never open again, even when two decisions overlap or a commit fails.
NeverReopened ==
    [][\A r \in Recs : status[r] \notin OpenStatuses \cup {"absent"} =>
           /\ status'[r] \notin OpenStatuses \cup {"absent"}
           /\ approval'[r] \notin {"none", "pending"}]_vars

-------------------------------------------------------------------------------
(* Properties that need SingleApprover.                                    *)

\* "A decision (approve/reject) is made exactly once": decided_by, once set, and
\* the verdict stored with it never change.
DecidedOnce ==
    [][\A r \in Recs : decidedBy[r] # NoOne =>
           decidedBy'[r] = decidedBy[r] /\ approval'[r] = approval[r]]_vars

\* One recommendation's tool call takes effect at most once, and a rejected
\* recommendation's never does.
AtMostOneEffect ==
    /\ \A q1, q2 \in applied : RecOf(q1) = RecOf(q2) => q1 = q2
    /\ \A q \in applied : status[RecOf(q)] = "success" /\ approval[RecOf(q)] = "approved"

\* The engine implements Decisions: PROPOSED and PENDING_APPROVAL are "open".
StageOf(s) ==
    CASE s \in OpenStatuses -> "open"
      [] s = "executing" -> "approved"
      [] s = "success" -> "succeeded"
      [] OTHER -> s

Abstract == INSTANCE Decisions
    WITH stage <- [r \in Recs |-> StageOf(status[r])], effective <- {RecOf(q) : q \in applied}

ImplementsDecisions == Abstract!Spec

\* An approved recommendation leaves EXECUTING unless the request that was
\* executing it died or its final commit was refused.
ExecutionEnds ==
    \A r \in Recs : status[r] = "executing" ~>
        \/ status[r] \in Terminal
        \/ \E q \in Requests : q = decidedBy[r] /\ pc[q] \in {"lost", "error"}

\* A proposal reaches the human queue unless the task that wrote it died.
ProposalsReachQueue ==
    \A r \in Recs : status[r] = "proposed" ~> (status[r] # "proposed" \/ gen[r] = "lost")

-------------------------------------------------------------------------------
(* What the code's own documentation says, and a refused commit breaks.     *)

\* approve(): "Once approved, the recommendation always ends at a terminal
\* status: SUCCESS or FAILED - never left hanging in EXECUTING".
NeverLeftExecuting ==
    \A r \in Recs : status[r] = "executing" =>
        \E q \in Requests : pc[q] \in {"executing", "ran"} /\ RecOf(q) = r
===============================================================================
