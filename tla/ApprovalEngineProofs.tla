------------------------- MODULE ApprovalEngineProofs -------------------------
(***************************************************************************)
(* Proofs about ApprovalEngine, for every number of recommendations,       *)
(* requests, tenants and entities.  EngineInv holds whatever overlaps or   *)
(* fails; SingleInv adds what the absence of overlapping decisions buys.   *)
(***************************************************************************)
EXTENDS ApprovalEngine, TLAPS

Decidable3(r) == approval[r] \in {"pending", "approved", "rejected"}

\* A generator task writes only its own recommendation, in order.
GenInv == \A r \in Recs :
    /\ gen[r] \in {"queued", "clear"} => status[r] = "absent"
    /\ gen[r] = "proposed" => status[r] = "proposed"
    /\ approval[r] = "none" <=> status[r] \in {"absent", "proposed"}

\* The column the list shows and the column the guard tests agree.
ColumnsAgree == \A r \in Recs : status[r] = "pending_approval" <=> approval[r] = "pending"

\* What an accepted request still knows to be true of its recommendation.
RequestInv == \A q \in Requests : pc[q] \in InFlight =>
    /\ call[q] \in Calls
    /\ call[q].tenant = TenantOf[EntityOf[RecOf(q)]]
    /\ Decidable3(RecOf(q))
    /\ pc[q] \in {"executing", "ran"} => /\ call[q].verdict = "approve"
                                         /\ approval[RecOf(q)] \in {"approved", "rejected"}
    /\ pc[q] = "ran" => result[q] \in {"ok", "fail"}

\* decided_by names an accepted request about this very recommendation.
DeciderInv == \A r \in Recs : decidedBy[r] # NoOne =>
    /\ pc[decidedBy[r]] # "idle"
    /\ call[decidedBy[r]].tenant = TenantOf[EntityOf[r]]

\* An audit row is written by the last step of an approving request.
AuditInv == \A a \in audit :
    /\ pc[a.actor] = "done"
    /\ call[a.actor] \in Calls
    /\ a.rec = RecOf(a.actor)
    /\ call[a.actor].verdict = "approve"
    /\ call[a.actor].tenant = TenantOf[EntityOf[a.rec]]
    /\ approval[a.rec] \in {"approved", "rejected"}

AppliedInv ==
    /\ \A q \in applied : pc[q] = "done"
                          /\ \E a \in audit : a.actor = q /\ a.outcome = "ok"
    /\ \A a \in audit : a.outcome = "ok" => a.actor \in applied

EngineInv == /\ TypeOK /\ GenInv /\ ColumnsAgree /\ RequestInv
             /\ DeciderInv /\ AuditInv /\ AppliedInv

\* Without overlap, an in-flight request is alone and what it loaded is current.
AloneInv ==
    /\ \A p, q \in Requests :
           pc[p] \in InFlight /\ pc[q] \in InFlight /\ RecOf(p) = RecOf(q) => p = q
    /\ \A q \in Requests : pc[q] = "loaded" => approval[RecOf(q)] = "pending"
    /\ \A q \in Requests : pc[q] \in {"executing", "ran"} =>
           /\ status[RecOf(q)] = "executing"
           /\ approval[RecOf(q)] = "approved"
           /\ decidedBy[RecOf(q)] = q

OnceInv ==
    /\ \A r \in Recs : decidedBy[r] = NoOne <=> approval[r] \in {"none", "pending"}
    /\ \A q \in applied : /\ call[q] \in Calls
                          /\ decidedBy[RecOf(q)] = q
                          /\ status[RecOf(q)] = "success"
                          /\ approval[RecOf(q)] = "approved"

SingleInv == EngineInv /\ AloneInv /\ OnceInv

-------------------------------------------------------------------------------
LEMMA EngineInit == Init => EngineInv
  BY WiringAssumption, NoCallAssumption
  DEF Init, EngineInv, TypeOK, GenInv, ColumnsAgree, RequestInv, DeciderInv, AuditInv,
      AppliedInv, Statuses, OpenStatuses, Terminal, InFlight

\* A generator step that writes nothing: a skip, a clear check, a lost task.
LEMMA GenOnlyStep ==
    ASSUME EngineInv, NEW r \in Recs, NEW from, NEW to \in {"clear", "done", "lost"},
           GenStep(r, from, to), to = "clear" => from = "queued",
           created' \in [Recs -> Nat], clock' \in Nat,
           UNCHANGED <<status, approval, decidedBy, audit, applied, reqVars>>
    PROVE  EngineInv'
<1> USE WiringAssumption, NoCallAssumption DEF EngineInv, GenStep, dbVars, reqVars,
         InFlight, RecOf
<1>1. TypeOK'
  BY DEF TypeOK, Statuses, OpenStatuses, Terminal
<1>2. GenInv'
  BY DEF TypeOK, GenInv
<1>3. ColumnsAgree'
  BY DEF TypeOK, GenInv, ColumnsAgree
<1>4. RequestInv'
  BY DEF TypeOK, RequestInv, Decidable3
<1>5. DeciderInv'
  BY DEF TypeOK, DeciderInv, RequestInv
<1>6. AuditInv'
  BY DEF TypeOK, AuditInv, AuditRows
<1>7. AppliedInv'
  BY DEF TypeOK, AuditInv, AppliedInv, AuditRows
<1>. QED BY <1>1, <1>2, <1>3, <1>4, <1>5, <1>6, <1>7

LEMMA GenProposeStep ==
    ASSUME EngineInv, NEW r \in Recs, GenPropose(r)  PROVE EngineInv'
<1> USE WiringAssumption, NoCallAssumption DEF EngineInv, GenPropose, Begin, GenStep, dbVars,
         reqVars, InFlight, RecOf
<1>1. TypeOK'
  BY DEF TypeOK, Statuses, OpenStatuses, Terminal
<1>2. GenInv'
  BY DEF TypeOK, GenInv
<1>3. ColumnsAgree'
  BY DEF TypeOK, GenInv, ColumnsAgree
<1>4. RequestInv'
  BY DEF TypeOK, RequestInv, Decidable3
<1>5. DeciderInv'
  BY DEF TypeOK, DeciderInv, RequestInv
<1>6. AuditInv'
  BY DEF TypeOK, AuditInv, AuditRows
<1>7. AppliedInv'
  BY DEF TypeOK, AuditInv, AppliedInv, AuditRows
<1>. QED BY <1>1, <1>2, <1>3, <1>4, <1>5, <1>6, <1>7

LEMMA GenSubmitStep ==
    ASSUME EngineInv, NEW r \in Recs, GenSubmit(r)  PROVE EngineInv'
<1> USE WiringAssumption, NoCallAssumption DEF EngineInv, GenSubmit, GenStep, dbVars,
         reqVars, InFlight, RecOf
<1>1. TypeOK'
  BY DEF TypeOK, Statuses, OpenStatuses, Terminal
<1>2. GenInv'
  BY DEF TypeOK, GenInv
<1>3. ColumnsAgree'
  BY DEF TypeOK, GenInv, ColumnsAgree
<1>4. RequestInv'
  BY DEF TypeOK, GenInv, RequestInv, Decidable3
<1>5. DeciderInv'
  BY DEF TypeOK, DeciderInv, RequestInv
<1>6. AuditInv'
  BY DEF TypeOK, GenInv, AuditInv, AuditRows
<1>7. AppliedInv'
  BY DEF TypeOK, AuditInv, AppliedInv, AuditRows
<1>. QED BY <1>1, <1>2, <1>3, <1>4, <1>5, <1>6, <1>7

\* A request that ends without writing: refused, refused at commit, lost.
LEMMA ReqEndsStep ==
    ASSUME EngineInv, NEW q \in Requests,
           NEW from \in InFlight \cup {"idle"}, NEW to \in {"refused", "error", "lost"},
           ReqStep(q, from, to), UNCHANGED <<dbVars, gen, call, result>>
    PROVE  EngineInv'
<1> USE WiringAssumption, NoCallAssumption DEF EngineInv, ReqStep, dbVars, reqVars,
         InFlight, RecOf
<1>1. TypeOK'
  BY DEF TypeOK, Statuses, OpenStatuses, Terminal
<1>2. GenInv'
  BY DEF TypeOK, GenInv
<1>3. ColumnsAgree'
  BY DEF TypeOK, GenInv, ColumnsAgree
<1>4. RequestInv'
  BY DEF TypeOK, RequestInv, Decidable3
<1>5. DeciderInv'
  BY DEF TypeOK, DeciderInv, RequestInv
<1>6. AuditInv'
  BY DEF TypeOK, AuditInv, AuditRows
<1>7. AppliedInv'
  BY DEF TypeOK, AuditInv, AppliedInv, AuditRows
<1>. QED BY <1>1, <1>2, <1>3, <1>4, <1>5, <1>6, <1>7

LEMMA LoadStep ==
    ASSUME EngineInv, NEW q \in Requests, Load(q)  PROVE EngineInv'
<1> USE WiringAssumption, NoCallAssumption DEF EngineInv, Load, Decidable, ReqStep,
         dbVars, reqVars, InFlight, RecOf
<1>1. TypeOK'
  BY DEF TypeOK, Statuses, OpenStatuses, Terminal
<1>2. GenInv'
  BY DEF TypeOK, GenInv
<1>3. ColumnsAgree'
  BY DEF TypeOK, GenInv, ColumnsAgree
<1>4. RequestInv'
  BY DEF TypeOK, RequestInv, Decidable3, Calls
<1>5. DeciderInv'
  BY DEF TypeOK, DeciderInv, RequestInv
<1>6. AuditInv'
  BY DEF TypeOK, AuditInv, AuditRows
<1>7. AppliedInv'
  BY DEF TypeOK, AuditInv, AppliedInv, AuditRows
<1>. QED BY <1>1, <1>2, <1>3, <1>4, <1>5, <1>6, <1>7

LEMMA RejectStep ==
    ASSUME EngineInv, NEW q \in Requests, Reject(q)  PROVE EngineInv'
<1> USE WiringAssumption, NoCallAssumption DEF EngineInv, Reject, Decide, ReqStep,
         dbVars, reqVars, InFlight, RecOf
<1>1. TypeOK'
  BY DEF TypeOK, Statuses, OpenStatuses, Terminal
<1>2. GenInv'
  BY DEF TypeOK, GenInv, RequestInv, Decidable3, Calls
<1>3. ColumnsAgree'
  BY DEF TypeOK, GenInv, RequestInv, Decidable3, Calls, ColumnsAgree
<1>4. RequestInv'
  BY DEF TypeOK, RequestInv, Decidable3
<1>5. DeciderInv'
  BY DEF TypeOK, DeciderInv, RequestInv
<1>6. AuditInv'
  BY DEF TypeOK, AuditInv, AuditRows
<1>7. AppliedInv'
  BY DEF TypeOK, AuditInv, AppliedInv, AuditRows
<1>. QED BY <1>1, <1>2, <1>3, <1>4, <1>5, <1>6, <1>7

LEMMA ApproveStep ==
    ASSUME EngineInv, NEW q \in Requests, Approve(q)  PROVE EngineInv'
<1> USE WiringAssumption, NoCallAssumption DEF EngineInv, Approve, Decide, ReqStep,
         dbVars, reqVars, InFlight, RecOf
<1>1. TypeOK'
  BY DEF TypeOK, Statuses, OpenStatuses, Terminal
<1>2. GenInv'
  BY DEF TypeOK, GenInv, RequestInv, Decidable3, Calls
<1>3. ColumnsAgree'
  BY DEF TypeOK, GenInv, RequestInv, Decidable3, Calls, ColumnsAgree
<1>4. RequestInv'
  <2>1. call[q] \in Calls /\ RecOf(q) \in Recs
    BY DEF TypeOK, RequestInv, Calls
  <2>2. approval'[RecOf(q)] = "approved"
    BY <2>1 DEF TypeOK
  <2>3. \A r \in Recs : r # RecOf(q) => approval'[r] = approval[r]
    BY DEF TypeOK
  <2>4. \A p \in Requests : p # q => pc'[p] = pc[p]
    BY DEF TypeOK
  <2>. QED BY <2>1, <2>2, <2>3, <2>4 DEF TypeOK, RequestInv, Decidable3, Calls
<1>5. DeciderInv'
  BY DEF TypeOK, DeciderInv, RequestInv
<1>6. AuditInv'
  BY DEF TypeOK, AuditInv, AuditRows
<1>7. AppliedInv'
  BY DEF TypeOK, AuditInv, AppliedInv, AuditRows
<1>. QED BY <1>1, <1>2, <1>3, <1>4, <1>5, <1>6, <1>7

LEMMA RunToolStep ==
    ASSUME EngineInv, NEW q \in Requests, RunTool(q)  PROVE EngineInv'
<1> USE WiringAssumption, NoCallAssumption DEF EngineInv, RunTool, ReqStep, dbVars,
         reqVars, InFlight, RecOf
<1>1. TypeOK'
  BY DEF TypeOK, Statuses, OpenStatuses, Terminal
<1>2. GenInv'
  BY DEF TypeOK, GenInv
<1>3. ColumnsAgree'
  BY DEF TypeOK, GenInv, ColumnsAgree
<1>4. RequestInv'
  BY DEF TypeOK, RequestInv, Decidable3
<1>5. DeciderInv'
  BY DEF TypeOK, DeciderInv, RequestInv
<1>6. AuditInv'
  BY DEF TypeOK, AuditInv, AuditRows
<1>7. AppliedInv'
  BY DEF TypeOK, AuditInv, AppliedInv, AuditRows
<1>. QED BY <1>1, <1>2, <1>3, <1>4, <1>5, <1>6, <1>7

LEMMA CommitResultStep ==
    ASSUME EngineInv, NEW q \in Requests, CommitResult(q)  PROVE EngineInv'
<1> USE WiringAssumption, NoCallAssumption DEF EngineInv, CommitResult, ReqStep,
         Outcome, dbVars, reqVars, InFlight, RecOf
<1>1. TypeOK'
  <2>1. Outcome(q) \in AuditRows
    BY DEF TypeOK, RequestInv, AuditRows, Calls
  <2>2. audit' \subseteq AuditRows /\ applied' \subseteq Requests
    BY <2>1 DEF TypeOK
  <2>3. status' \in [Recs -> Statuses] /\ UNCHANGED <<approval, decidedBy, gen, call, result>>
    BY DEF TypeOK, Statuses, Terminal
  <2>4. pc' \in [Requests -> {"idle", "refused", "done", "error", "lost"} \cup InFlight]
    BY DEF TypeOK
  <2>. QED BY <2>2, <2>3, <2>4 DEF TypeOK
<1>2. GenInv'
  BY DEF TypeOK, GenInv, RequestInv, Decidable3, Calls
<1>3. ColumnsAgree'
  BY DEF TypeOK, GenInv, RequestInv, Decidable3, Calls, ColumnsAgree
<1>4. RequestInv'
  BY DEF TypeOK, RequestInv, Decidable3
<1>5. DeciderInv'
  BY DEF TypeOK, DeciderInv, RequestInv
<1>6. AuditInv'
  BY DEF TypeOK, AuditInv, AuditRows, RequestInv
<1>7. AppliedInv'
  <2>1. q \notin applied /\ \A b \in audit : b.actor # q
    BY DEF AppliedInv, AuditInv, TypeOK, AuditRows
  <2>2. \A b \in audit \cup {Outcome(q)} : b.outcome = "ok" => b.actor \in applied'
    BY <2>1 DEF TypeOK, AppliedInv, AuditRows
  <2>3. ASSUME NEW p \in applied'
        PROVE  pc'[p] = "done" /\ \E b \in audit' : b.actor = p /\ b.outcome = "ok"
    <3>1. CASE p = q
      <4>1. Outcome(q) \in audit' /\ Outcome(q).actor = q /\ Outcome(q).outcome = "ok"
        BY <2>1, <2>3, <3>1
      <4>2. pc'[q] = "done"
        BY DEF TypeOK
      <4>. QED BY <3>1, <4>1, <4>2
    <3>2. CASE p # q
      BY <2>3, <3>2 DEF TypeOK, AppliedInv
    <3>. QED BY <3>1, <3>2
  <2>. QED BY <2>2, <2>3 DEF AppliedInv
<1>. QED BY <1>1, <1>2, <1>3, <1>4, <1>5, <1>6, <1>7

THEOREM EngineInvariant == Spec => []EngineInv
<1>1. EngineInv /\ [Next]_vars => EngineInv'
  <2>1. SUFFICES ASSUME EngineInv, [Next]_vars  PROVE EngineInv'
    OBVIOUS
  <2>2. ASSUME NEW r \in Recs, GenSkip(r) \/ GenClear(r) \/ GenLost(r)  PROVE EngineInv'
    <3>1. created' \in [Recs -> Nat] /\ clock' \in Nat
      BY <2>1, <2>2 DEF GenSkip, GenClear, GenLost, Begin, dbVars, EngineInv, TypeOK
    <3>2. UNCHANGED <<status, approval, decidedBy, audit, applied, reqVars>>
      BY <2>2 DEF GenSkip, GenClear, GenLost, dbVars
    <3>3. CASE GenSkip(r)
      <4>1. GenStep(r, "queued", "done")
        BY <3>3 DEF GenSkip
      <4>. QED BY <2>1, <3>1, <3>2, <4>1, GenOnlyStep
    <3>4. CASE GenClear(r)
      <4>1. GenStep(r, "queued", "clear")
        BY <3>4 DEF GenClear
      <4>. QED BY <2>1, <3>1, <3>2, <4>1, GenOnlyStep
    <3>5. CASE GenLost(r)
      <4>1. PICK at \in {"clear", "proposed"} : GenStep(r, at, "lost")
        BY <3>5 DEF GenLost
      <4>. QED BY <2>1, <3>1, <3>2, <4>1, GenOnlyStep
    <3>. QED BY <2>2, <3>3, <3>4, <3>5
  <2>3. ASSUME NEW r \in Recs, GenPropose(r) \/ GenSubmit(r)  PROVE EngineInv'
    BY <2>1, <2>3, GenProposeStep, GenSubmitStep
  <2>4. ASSUME NEW q \in Requests, Load(q) \/ Reject(q) \/ Approve(q) \/ RunTool(q)
                                   \/ CommitResult(q)
        PROVE  EngineInv'
    BY <2>1, <2>4, LoadStep, RejectStep, ApproveStep, RunToolStep, CommitResultStep
  <2>5. ASSUME NEW q \in Requests, Refuse(q) \/ ResultRefused(q) \/ RequestLost(q)
        PROVE  EngineInv'
    BY <2>1, <2>5, ReqEndsStep DEF Refuse, ResultRefused, RequestLost, InFlight
  <2>6. CASE UNCHANGED vars
    BY <2>1, <2>6 DEF EngineInv, TypeOK, GenInv, ColumnsAgree, RequestInv, DeciderInv,
         AuditInv, AppliedInv, RecOf, Decidable3, vars, dbVars, reqVars
  <2>. QED BY <2>1, <2>2, <2>3, <2>4, <2>5, <2>6 DEF Next, Generator, Progress
<1>. QED BY EngineInit, <1>1, PTL DEF Spec

\* Every column and every session variable stays in its type.
THEOREM TypeCorrect == Spec => []TypeOK
BY EngineInvariant, PTL DEF EngineInv

\* The list shows the newest of what can be decided, however long the queue is.
THEOREM QueueAgreement == Spec => []QueueAgrees
<1>1. ASSUME EngineInv, NEW t \in Tenants
      PROVE  Listed(t) = Newest({r \in Recs : Decidable(r, t)})
  <2>1. \A r \in Recs : (status[r] = "pending_approval" /\ TenantOf[EntityOf[r]] = t)
                       <=> Decidable(r, t)
    BY <1>1 DEF EngineInv, ColumnsAgree, Decidable
  <2>2. {r \in Recs : status[r] = "pending_approval" /\ TenantOf[EntityOf[r]] = t}
          = {r \in Recs : Decidable(r, t)}
    BY <2>1
  <2>. QED BY <2>2 DEF Listed
<1>2. EngineInv => QueueAgrees
  BY <1>1 DEF QueueAgrees
<1>. QED BY <1>2, EngineInvariant, PTL

\* No write without an audit row of an approving request, and no success row
\* without the write, whatever overlaps, dies or is refused.
THEOREM AuditCompleteness == Spec => []EffectsAudited
<1>1. EngineInv => EffectsAudited
  <2>. SUFFICES ASSUME EngineInv PROVE EffectsAudited
    OBVIOUS
  <2>1. applied = {a.actor : a \in {b \in audit : b.outcome = "ok"}}
    BY DEF EngineInv, AppliedInv
  <2>2. \A a \in audit : call[a.actor] # NoCall
    BY NoCallAssumption DEF EngineInv, AuditInv
  <2>. QED BY <2>1, <2>2 DEF EngineInv, AuditInv, EffectsAudited
<1>. QED BY <1>1, EngineInvariant, PTL

\* Deciders and audited actors always act for the tenant that owns the entity.
THEOREM NoCrossTenantDecision == Spec => []TenantBoundary
<1>1. EngineInv => TenantBoundary
  BY DEF EngineInv, DeciderInv, AuditInv, TenantBoundary
<1>. QED BY <1>1, EngineInvariant, PTL

\* A decided recommendation never returns to the queue.
THEOREM DecisionsAreFinal == Spec => NeverReopened
<1>1. ASSUME EngineInv, EngineInv', [Next]_vars, NEW r \in Recs,
             status[r] \notin OpenStatuses \cup {"absent"}
      PROVE  status'[r] \notin OpenStatuses \cup {"absent"}
  <2>. USE <1>1 DEF EngineInv, TypeOK
  <2>1. ASSUME NEW g \in Recs, Generator(g) \/ GenLost(g)
        PROVE  status'[r] \notin OpenStatuses \cup {"absent"}
    BY <2>1 DEF Generator, GenSkip, GenClear, GenPropose, GenSubmit, GenLost, GenStep,
         GenInv, OpenStatuses, dbVars
  <2>2. ASSUME NEW q \in Requests, Reject(q) \/ Approve(q) \/ CommitResult(q)
        PROVE  status'[r] \notin OpenStatuses \cup {"absent"}
    BY <2>2 DEF Reject, Approve, CommitResult, Decide, ReqStep, OpenStatuses
  <2>3. ASSUME NEW q \in Requests, Load(q) \/ Refuse(q) \/ RunTool(q) \/ ResultRefused(q)
                                   \/ RequestLost(q)
        PROVE  status'[r] \notin OpenStatuses \cup {"absent"}
    BY <2>3 DEF Load, Refuse, RunTool, ResultRefused, RequestLost, dbVars
  <2>4. CASE UNCHANGED vars
    BY <2>4 DEF vars, dbVars
  <2>. QED BY <2>1, <2>2, <2>3, <2>4 DEF Next, Progress
<1>2. ASSUME EngineInv', NEW r \in Recs, status'[r] \notin OpenStatuses \cup {"absent"}
      PROVE  approval'[r] \notin {"none", "pending"}
  BY <1>2 DEF EngineInv, GenInv, ColumnsAgree, OpenStatuses
<1>3. EngineInv /\ EngineInv' /\ [Next]_vars =>
        [\A r \in Recs : status[r] \notin OpenStatuses \cup {"absent"} =>
           /\ status'[r] \notin OpenStatuses \cup {"absent"}
           /\ approval'[r] \notin {"none", "pending"}]_vars
  BY <1>1, <1>2
<1>. QED BY <1>3, EngineInvariant, PTL DEF Spec, NeverReopened

-------------------------------------------------------------------------------
(* From here on decisions on one recommendation do not overlap.            *)

\* The steps of generator tasks and of requests that write nothing.
LEMMA QuietStep ==
    ASSUME SingleInv, [Next]_vars,
           \A q \in Requests : ~(Load(q) \/ Reject(q) \/ Approve(q) \/ CommitResult(q))
    PROVE  AloneInv' /\ OnceInv'
<1>. USE DEF SingleInv, EngineInv, TypeOK, InFlight, RecOf
<1>1. ASSUME NEW r \in Recs, GenSkip(r) \/ GenClear(r) \/ GenLost(r)  PROVE AloneInv' /\ OnceInv'
  BY <1>1 DEF GenSkip, GenClear, GenLost, AloneInv, OnceInv, dbVars, reqVars
<1>2. ASSUME NEW r \in Recs, GenPropose(r) \/ GenSubmit(r)  PROVE AloneInv' /\ OnceInv'
  <2>1. status[r] \in {"absent", "proposed"} /\ approval[r] = "none"
    BY <1>2 DEF GenPropose, GenSubmit, GenStep, GenInv
  <2>2. \A x \in Recs : x # r => status'[x] = status[x] /\ approval'[x] = approval[x]
    BY <1>2 DEF GenPropose, GenSubmit
  <2>3. approval'[r] \in {"none", "pending"}
    BY <1>2, <2>1 DEF GenPropose, GenSubmit
  <2>4. UNCHANGED <<decidedBy, audit, applied, pc, call, result>>
    BY <1>2 DEF GenPropose, GenSubmit, reqVars
  <2>5. \A q \in Requests : pc[q] \in InFlight => RecOf(q) \in Recs /\ RecOf(q) # r
    BY <2>1 DEF RequestInv, Decidable3, Calls
  <2>6. \A q \in applied : RecOf(q) \in Recs /\ RecOf(q) # r
    BY <2>1 DEF OnceInv, Calls
  <2>7. AloneInv'
    BY <2>2, <2>4, <2>5 DEF AloneInv
  <2>8. OnceInv'
    BY <2>1, <2>2, <2>3, <2>4, <2>6 DEF OnceInv
  <2>. QED BY <2>7, <2>8
<1>3. ASSUME NEW q \in Requests,
             Refuse(q) \/ RunTool(q) \/ ResultRefused(q) \/ RequestLost(q)
      PROVE  AloneInv' /\ OnceInv'
  BY <1>3 DEF Refuse, RunTool, ResultRefused, RequestLost, ReqStep, AloneInv, OnceInv, dbVars
<1>4. CASE UNCHANGED vars
  BY <1>4 DEF vars, dbVars, reqVars, AloneInv, OnceInv
<1>. QED BY <1>1, <1>2, <1>3, <1>4 DEF Next, Generator, Progress

\* A request that is accepted finds nobody else at work on its recommendation.
LEMMA LoadAlone ==
    ASSUME SingleApprover, SingleInv, NEW q \in Requests, Load(q)
    PROVE  AloneInv' /\ OnceInv'
<1>. USE DEF SingleInv, EngineInv, TypeOK, InFlight, RecOf
<1>1. PICK c \in Calls : /\ NoOverlap(c.rec) /\ approval[c.rec] = "pending"
                         /\ ReqStep(q, "idle", "loaded")
                         /\ call' = [call EXCEPT ![q] = c]
                         /\ UNCHANGED <<dbVars, gen, result>>
  BY DEF Load, Decidable
<1>2. AloneInv'
  BY <1>1 DEF ReqStep, NoOverlap, AloneInv, dbVars
<1>3. q \notin applied
  BY <1>1 DEF AppliedInv, ReqStep
<1>4. OnceInv'
  BY <1>1, <1>3 DEF OnceInv, dbVars
<1>. QED BY <1>2, <1>4

\* A commit touches the recommendation of the one request that is at work on it.
LEMMA CommitAlone ==
    ASSUME SingleInv, NEW q \in Requests, Reject(q) \/ Approve(q) \/ CommitResult(q)
    PROVE  AloneInv' /\ OnceInv'
<1>. USE DEF SingleInv, EngineInv, TypeOK, InFlight, RecOf
<1>1. /\ pc[q] \in InFlight /\ call[q] \in Calls /\ RecOf(q) \in Recs
      /\ UNCHANGED call
  BY DEF Reject, Approve, CommitResult, Decide, ReqStep, RequestInv, Calls
<1>2. \A p \in Requests : p # q /\ pc[p] \in InFlight => RecOf(p) # RecOf(q) /\ RecOf(p) \in Recs
  BY <1>1 DEF AloneInv, RequestInv, Calls
<1>3. \A r \in Recs : r # RecOf(q) =>
        status'[r] = status[r] /\ approval'[r] = approval[r] /\ decidedBy'[r] = decidedBy[r]
  BY DEF Reject, Approve, CommitResult, Decide
<1>4. \A p \in Requests : p # q => pc'[p] = pc[p]
  BY DEF Reject, Approve, CommitResult, ReqStep
<1>5. CASE Reject(q) \/ Approve(q)
  <2>1. pc[q] = "loaded" /\ approval[RecOf(q)] = "pending"
    BY <1>5 DEF Reject, Approve, ReqStep, AloneInv
  <2>2. applied' = applied /\ \A p \in applied : RecOf(p) \in Recs /\ RecOf(p) # RecOf(q)
    BY <1>5, <2>1 DEF Reject, Approve, Decide, OnceInv, Calls
  <2>3. decidedBy'[RecOf(q)] = q /\ q # NoOne /\ approval'[RecOf(q)] \in {"approved", "rejected"}
    BY <1>1, <1>5, WiringAssumption DEF Reject, Approve, Decide
  <2>4. pc'[q] = "executing" =>
          status'[RecOf(q)] = "executing" /\ approval'[RecOf(q)] = "approved"
    BY <1>1, <1>5, <2>1 DEF Reject, Approve, Decide, ReqStep
  <2>5. pc'[q] \in {"executing", "done"}
    BY <1>5 DEF Reject, Approve, ReqStep
  <2>6. AloneInv'
    BY <1>1, <1>2, <1>3, <1>4, <2>3, <2>4, <2>5 DEF AloneInv
  <2>7. OnceInv'
    BY <1>1, <1>3, <2>2, <2>3 DEF OnceInv
  <2>. QED BY <2>6, <2>7
<1>6. CASE CommitResult(q)
  <2>1. /\ pc[q] = "ran" /\ pc'[q] = "done" /\ decidedBy[RecOf(q)] = q
        /\ approval[RecOf(q)] = "approved" /\ status[RecOf(q)] = "executing"
    BY <1>6 DEF CommitResult, ReqStep, AloneInv
  <2>2. UNCHANGED <<approval, decidedBy>>
    BY <1>6 DEF CommitResult
  <2>3. \A p \in applied : RecOf(p) \in Recs /\ RecOf(p) # RecOf(q)
    BY <2>1 DEF OnceInv, Calls
  <2>4. /\ applied' \subseteq applied \cup {q}
        /\ q \in applied' => status'[RecOf(q)] = "success"
    BY <1>1, <1>6, <2>3 DEF CommitResult
  <2>5. AloneInv'
    BY <1>1, <1>2, <1>3, <1>4, <2>1, <2>2 DEF AloneInv
  <2>6. OnceInv'
    BY <1>1, <1>3, <2>1, <2>2, <2>3, <2>4 DEF OnceInv
  <2>. QED BY <2>5, <2>6
<1>. QED BY <1>5, <1>6

THEOREM SingleInvariant == ASSUME SingleApprover PROVE Spec => []SingleInv
<1>1. Init => AloneInv /\ OnceInv
  BY DEF Init, AloneInv, OnceInv, InFlight
<1>2. EngineInv /\ AloneInv /\ OnceInv /\ [Next]_vars => AloneInv' /\ OnceInv'
  BY QuietStep, LoadAlone, CommitAlone DEF SingleInv
<1>3. EngineInv /\ AloneInv /\ OnceInv <=> SingleInv
  BY DEF SingleInv
<1>. QED BY <1>1, <1>2, <1>3, EngineInvariant, PTL DEF Spec

\* No tool call takes effect twice, and a rejected one never does.
THEOREM EffectAtMostOnce == ASSUME SingleApprover PROVE Spec => []AtMostOneEffect
<1>1. SingleInv => AtMostOneEffect
  BY DEF SingleInv, OnceInv, AtMostOneEffect
<1>. QED BY <1>1, SingleInvariant, PTL

\* A decision is made exactly once.
THEOREM DecisionMadeOnce == ASSUME SingleApprover PROVE Spec => DecidedOnce
<1>1. ASSUME SingleInv, [Next]_vars, NEW r \in Recs, decidedBy[r] # NoOne
      PROVE  decidedBy'[r] = decidedBy[r] /\ approval'[r] = approval[r]
  <2>. USE <1>1 DEF SingleInv, EngineInv, TypeOK
  <2>1. approval[r] \in {"approved", "rejected"}
    BY DEF OnceInv
  <2>2. ASSUME NEW g \in Recs, Generator(g) \/ GenLost(g)
        PROVE  decidedBy'[r] = decidedBy[r] /\ approval'[r] = approval[r]
    BY <2>1, <2>2 DEF Generator, GenSkip, GenClear, GenPropose, GenSubmit, GenLost, GenStep,
         GenInv, dbVars
  <2>3. ASSUME NEW q \in Requests, Reject(q) \/ Approve(q)
        PROVE  decidedBy'[r] = decidedBy[r] /\ approval'[r] = approval[r]
    <3>1. approval[RecOf(q)] = "pending"
      BY <2>3 DEF Reject, Approve, ReqStep, AloneInv
    <3>. QED BY <2>1, <2>3, <3>1 DEF Reject, Approve, Decide
  <2>4. ASSUME NEW q \in Requests, Load(q) \/ Refuse(q) \/ RunTool(q) \/ CommitResult(q)
                                   \/ ResultRefused(q) \/ RequestLost(q)
        PROVE  decidedBy'[r] = decidedBy[r] /\ approval'[r] = approval[r]
    BY <2>4 DEF Load, Refuse, RunTool, CommitResult, ResultRefused, RequestLost, dbVars
  <2>5. CASE UNCHANGED vars
    BY <2>5 DEF vars, dbVars
  <2>. QED BY <2>2, <2>3, <2>4, <2>5 DEF Next, Progress
<1>2. SingleInv /\ [Next]_vars =>
        [\A r \in Recs : decidedBy[r] # NoOne =>
           decidedBy'[r] = decidedBy[r] /\ approval'[r] = approval[r]]_vars
  BY <1>1
<1>. QED BY <1>2, SingleInvariant, PTL DEF Spec, DecidedOnce

-------------------------------------------------------------------------------
(* The engine implements Decisions.                                        *)

Stage     == [r \in Recs |-> StageOf(status[r])]
Effective == {RecOf(q) : q \in applied}

\* The status of one recommendation moves, the others keep their stage.
LEMMA StageMove ==
    ASSUME TypeOK, NEW x \in Recs, NEW s, status' = [status EXCEPT ![x] = s]
    PROVE  Stage' = [Stage EXCEPT ![x] = StageOf(s)]
BY DEF TypeOK, Stage

\* A step that changes no status and no commit mark leaves both mapped values.
LEMMA StageStutter ==
    ASSUME UNCHANGED <<status, applied>>, \A q \in applied : RecOf(q)' = RecOf(q)
    PROVE  UNCHANGED <<Stage, Effective>>
BY DEF Stage, Effective

THEOREM EngineImplementsDecisions == ASSUME SingleApprover PROVE Spec => ImplementsDecisions
<1>. DEFINE AbsStep == Abstract!Next \/ UNCHANGED <<Stage, Effective>>
<1>1. Init => Abstract!Init
  BY DEF Init, Abstract!Init, StageOf, OpenStatuses
<1>2. ASSUME SingleInv, [Next]_vars  PROVE AbsStep
  <2>. USE <1>2 DEF SingleInv, EngineInv
  <2>1. ASSUME NEW r \in Recs, GenSkip(r) \/ GenClear(r) \/ GenLost(r)  PROVE AbsStep
    BY <2>1, StageStutter DEF GenSkip, GenClear, GenLost, dbVars, reqVars, RecOf
  <2>2. ASSUME NEW r \in Recs, GenPropose(r)  PROVE AbsStep
    <3>1. Stage[r] = "absent" /\ Stage' = [Stage EXCEPT ![r] = "open"]
      BY <2>2, StageMove DEF GenPropose, GenStep, GenInv, Stage, StageOf, OpenStatuses
    <3>2. UNCHANGED Effective
      BY <2>2 DEF GenPropose, reqVars, Effective, RecOf
    <3>. QED BY <3>1, <3>2 DEF Abstract!Next, Abstract!Open, Abstract!Move, Stage, Effective
  <2>3. ASSUME NEW r \in Recs, GenSubmit(r)  PROVE AbsStep
    <3>1. Stage' = Stage
      BY <2>3 DEF GenSubmit, TypeOK, Stage, StageOf, OpenStatuses
    <3>2. UNCHANGED Effective
      BY <2>3 DEF GenSubmit, reqVars, Effective, RecOf
    <3>. QED BY <3>1, <3>2
  <2>4. ASSUME NEW q \in Requests, Load(q)  PROVE AbsStep
    <3>1. q \notin applied /\ UNCHANGED <<status, applied>>
      BY <2>4 DEF Load, ReqStep, AppliedInv, dbVars
    <3>2. \A p \in applied : RecOf(p)' = RecOf(p)
      BY <2>4, <3>1 DEF Load, RecOf, TypeOK
    <3>. QED BY <3>1, <3>2, StageStutter
  <2>5. ASSUME NEW q \in Requests,
               Refuse(q) \/ RunTool(q) \/ ResultRefused(q) \/ RequestLost(q)
        PROVE  AbsStep
    BY <2>5, StageStutter DEF Refuse, RunTool, ResultRefused, RequestLost, dbVars, RecOf
  <2>6. ASSUME NEW q \in Requests, Reject(q) \/ Approve(q)  PROVE AbsStep
    <3>1. RecOf(q) \in Recs /\ status[RecOf(q)] = "pending_approval"
      BY <2>6 DEF Reject, Approve, ReqStep, AloneInv, RequestInv, ColumnsAgree, InFlight, Calls,
           RecOf
    <3>2. Stage[RecOf(q)] = "open"
      BY <3>1 DEF Stage, StageOf, OpenStatuses
    <3>3. UNCHANGED Effective
      BY <2>6 DEF Reject, Approve, Decide, Effective, RecOf
    <3>4. CASE Reject(q)
      <4>1. Stage' = [Stage EXCEPT ![RecOf(q)] = "rejected"]
        BY <3>1, <3>4, StageMove DEF Reject, Decide, StageOf, OpenStatuses
      <4>. QED BY <3>1, <3>2, <3>3, <4>1 DEF Abstract!Next, Abstract!Reject, Abstract!Move,
             Stage, Effective
    <3>5. CASE Approve(q)
      <4>1. Stage' = [Stage EXCEPT ![RecOf(q)] = "approved"]
        BY <3>1, <3>5, StageMove DEF Approve, Decide, StageOf, OpenStatuses
      <4>. QED BY <3>1, <3>2, <3>3, <4>1 DEF Abstract!Next, Abstract!Approve, Abstract!Move,
             Stage, Effective
    <3>. QED BY <2>6, <3>4, <3>5
  <2>7. ASSUME NEW q \in Requests, CommitResult(q)  PROVE AbsStep
    <3>1. RecOf(q) \in Recs /\ status[RecOf(q)] = "executing"
      BY <2>7 DEF CommitResult, ReqStep, AloneInv, RequestInv, InFlight, Calls, RecOf
    <3>2. Stage[RecOf(q)] = "approved"
      BY <3>1 DEF Stage, StageOf, OpenStatuses
    <3>3. \A p \in Requests : RecOf(p)' = RecOf(p)
      BY <2>7 DEF CommitResult, RecOf
    <3>4. CASE result[q] = "ok"
      <4>1. Stage' = [Stage EXCEPT ![RecOf(q)] = "succeeded"]
        BY <2>7, <3>1, <3>4, StageMove DEF CommitResult, StageOf, OpenStatuses
      <4>2. Effective' = Effective \cup {RecOf(q)}
        BY <2>7, <3>3, <3>4 DEF CommitResult, Effective, TypeOK
      <4>. QED BY <3>1, <3>2, <4>1, <4>2 DEF Abstract!Next, Abstract!Succeed, Abstract!Move,
             Stage, Effective
    <3>5. CASE result[q] # "ok"
      <4>1. Stage' = [Stage EXCEPT ![RecOf(q)] = "failed"]
        BY <2>7, <3>1, <3>5, StageMove DEF CommitResult, StageOf, OpenStatuses
      <4>2. UNCHANGED Effective
        BY <2>7, <3>3, <3>5 DEF CommitResult, Effective, TypeOK
      <4>. QED BY <3>1, <3>2, <4>1, <4>2 DEF Abstract!Next, Abstract!Fail, Abstract!Move,
             Stage, Effective
    <3>. QED BY <3>4, <3>5
  <2>8. CASE UNCHANGED vars
    BY <2>8, StageStutter DEF vars, dbVars, reqVars, RecOf
  <2>. QED BY <2>1, <2>2, <2>3, <2>4, <2>5, <2>6, <2>7, <2>8 DEF Next, Generator, Progress
<1>3. SingleInv /\ [Next]_vars =>
        [Abstract!Next]_<<[r \in Recs |-> StageOf(status[r])], {RecOf(q) : q \in applied}>>
  BY <1>2 DEF Stage, Effective
<1>. QED BY <1>1, <1>3, SingleInvariant, PTL DEF Spec, ImplementsDecisions, Abstract!Spec
===============================================================================
