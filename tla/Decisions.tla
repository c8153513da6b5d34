------------------------------ MODULE Decisions ------------------------------
(***************************************************************************)
(* What the approval workflow promises about one recommendation, said      *)
(* without sessions, commits or queues: it is opened once, decided once,   *)
(* and its tool call takes effect at most once and only after an approval. *)
(* ApprovalEngine is shown to implement this module.                       *)
(***************************************************************************)

CONSTANT Recs

VARIABLES
    stage,    \* where each recommendation stands
    effective \* the recommendations whose tool call is in the store

Stages == {"absent", "open", "rejected", "approved", "succeeded", "failed"}

Init ==
    /\ stage = [r \in Recs |-> "absent"]
    /\ effective = {}

Move(r, from, to) ==
    /\ stage[r] = from
    /\ stage' = [stage EXCEPT ![r] = to]

Open(r)    == Move(r, "absent", "open")      /\ UNCHANGED effective
Reject(r)  == Move(r, "open", "rejected")    /\ UNCHANGED effective
Approve(r) == Move(r, "open", "approved")    /\ UNCHANGED effective
Fail(r)    == Move(r, "approved", "failed")  /\ UNCHANGED effective
Succeed(r) == Move(r, "approved", "succeeded") /\ effective' = effective \cup {r}

Next == \E r \in Recs : Open(r) \/ Reject(r) \/ Approve(r) \/ Fail(r) \/ Succeed(r)

Spec == Init /\ [][Next]_<<stage, effective>>
==============================================================================
