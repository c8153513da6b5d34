---------------------------- MODULE CostGuardProofs ----------------------------
(***************************************************************************)
(* The bound on what a tenant can overspend, for any number of tasks,      *)
(* slots, tenants and months.  SpendBounded is not inductive: what has     *)
(* been spent says nothing of what is about to be.  GuardInv counts, per   *)
(* tenant and month, the tasks whose cost may still come and charges each  *)
(* of them MaxCost in advance.  That the sum the guard works with is what  *)
(* was charged needs lemmas about a fold over a set, which least sets of   *)
(* jobs prove where an induction would.                                    *)
(***************************************************************************)
EXTENDS CostGuard, FiniteSetTheorems, WellFoundedInduction, TLAPS

\* Tasks that hold a slot.
Working == {j \in Jobs : pc[j] \in AtWork}

\* A month's tasks of a tenant: those at work, and those the guard has cleared.
Held(t, m) == {j \in Working : TenantOf[j] = t /\ month[j] = m}
Cleared(t, m) == {j \in Held(t, m) : pc[j] \in {"cleared", "answered"}}

\* What a set of tasks costs at most, and what all that run at once do.
Reserve(S) == MaxCost * Cardinality(S)
Ceiling == MaxCost * Slots

\* In the current month only cleared tasks may still spend; once the month is over
\* the guard looks at another one, and any task of the month that is at work may.
CurrentBounded(t) == spent[t][now] + Reserve(Cleared(t, now)) < Budget[t] + Ceiling

PastBounded(t, m) == spent[t][m] + Reserve(Held(t, m)) < Budget[t] + Ceiling + Ceiling

SpendInv ==
    \A t \in Tenants :
        /\ CurrentBounded(t)
        /\ \A m \in Months : m < now => PastBounded(t, m)
        /\ \A m \in Months : m > now => spent[t][m] = 0

GuardInv ==
    /\ TypeOK
    /\ Cardinality(Working) <= Slots
    /\ \A j \in Working : month[j] <= now
    /\ SpendInv

-------------------------------------------------------------------------------
LEMMA Product ==
    /\ \A a \in Nat : MaxCost * a \in Nat
    /\ \A a, b \in Nat : a <= b => MaxCost * a <= MaxCost * b
    /\ \A a \in Nat : MaxCost * (a + 1) = MaxCost * a + MaxCost
<1>1. MaxCost \in Nat
  BY GuardAssumption
<1>. QED BY <1>1

\* Fewer tasks cost less, those in the slots no more than the ceiling, and
\* one task less is one MaxCost less.
LEMMA Reserves ==
    ASSUME NEW T \in SUBSET Jobs, NEW S \in SUBSET T
    PROVE  /\ Reserve(S) \in Nat /\ Ceiling \in Nat /\ Cardinality(S) \in Nat
           /\ Reserve(S) <= Reserve(T)
           /\ Cardinality(T) <= Slots => Cardinality(S) <= Slots /\ Reserve(S) <= Ceiling
           /\ \A j \in T : Reserve(T \ {j}) + MaxCost = Reserve(T)
<1>1. IsFiniteSet(T) /\ Cardinality(T) \in Nat
  BY GuardAssumption, FS_Subset, FS_CardinalityType
<1>2. IsFiniteSet(S) /\ Cardinality(S) \in Nat /\ Cardinality(S) <= Cardinality(T)
  BY <1>1, FS_Subset, FS_CardinalityType
<1>3. Slots \in Nat
  BY GuardAssumption
<1>4. ASSUME NEW j \in T
      PROVE  Reserve(T \ {j}) + MaxCost = Reserve(T)
  <2>1. Cardinality(T \ {j}) \in Nat /\ Cardinality(T) = Cardinality(T \ {j}) + 1
    <3>1. Cardinality(T \ {j}) = Cardinality(T) - 1 /\ IsFiniteSet(T \ {j})
      BY <1>1, FS_RemoveElement
    <3>2. Cardinality(T \ {j}) \in Nat
      BY <3>1, FS_CardinalityType
    <3>. QED BY <1>1, <3>1, <3>2
  <2>. QED BY <2>1, Product DEF Reserve
<1>5. Reserve(S) \in Nat /\ Reserve(T) \in Nat /\ Reserve(S) <= Reserve(T) /\ Ceiling \in Nat
  BY <1>1, <1>2, <1>3, Product DEF Reserve, Ceiling
<1>6. Cardinality(T) <= Slots => Cardinality(S) <= Slots /\ Reserve(S) <= Ceiling
  <2> SUFFICES ASSUME Cardinality(T) <= Slots
               PROVE  Cardinality(S) <= Slots /\ Reserve(S) <= Ceiling
    OBVIOUS
  <2>1. Cardinality(S) <= Slots
    BY <1>1, <1>2, <1>3
  <2>. QED BY <1>2, <1>3, <2>1, Product DEF Reserve, Ceiling
<1>. QED BY <1>2, <1>4, <1>5, <1>6

LEMMA Numbers ==
    ASSUME TypeOK
    PROVE  /\ MaxCost \in Nat /\ Slots \in Nat /\ Ceiling \in Nat
           /\ now \in Months /\ Months \subseteq Nat
           /\ \A t \in Tenants : Budget[t] \in Nat \ {0}
           /\ \A t \in Tenants, m \in Months : spent[t][m] \in Nat
           /\ \A j \in Jobs : bill[j] \in Nat /\ bill[j] <= MaxCost
           /\ \A j \in Jobs : month[j] \in Months /\ TenantOf[j] \in Tenants
  BY GuardAssumption, Product DEF TypeOK, Months, Ceiling

\* A step that spends nothing, in the same month, with no task more at work or cleared.
LEMMA Quiet ==
    ASSUME GuardInv, TypeOK', now' = now, spent' = spent,
           Working' \subseteq Working,
           \A j \in Working' : month'[j] = month[j],
           \A j \in Working' : pc'[j] \in {"cleared", "answered"}
                               => pc[j] \in {"cleared", "answered"}
    PROVE  GuardInv'
<1>1. \A t \in Tenants, m \in Months :
        Held(t, m)' \subseteq Held(t, m) /\ Cleared(t, m)' \subseteq Cleared(t, m)
  BY DEF Held, Cleared
<1>2. \A t, m : Held(t, m) \in SUBSET Jobs /\ Cleared(t, m) \in SUBSET Jobs
  BY DEF Held, Cleared, Working
<1>3. /\ Ceiling \in Nat /\ now \in Months
      /\ \A t \in Tenants : Budget[t] \in Nat
      /\ \A t \in Tenants, m \in Months : spent[t][m] \in Nat
  BY Numbers DEF GuardInv
<1>4. Cardinality(Working') <= Slots
  <2>1. Working \in SUBSET Jobs /\ Cardinality(Working) <= Slots
    BY DEF GuardInv, Working
  <2>. QED BY <2>1, Reserves
<1>5. \A j \in Working' : month'[j] <= now'
  BY DEF GuardInv
<1>6. ASSUME NEW t \in Tenants
      PROVE  CurrentBounded(t)'
  <2>1. Cleared(t, now)' \subseteq Cleared(t, now)
    BY <1>1, <1>3
  <2>2. /\ Reserve(Cleared(t, now)') <= Reserve(Cleared(t, now))
        /\ Reserve(Cleared(t, now)') \in Nat /\ Reserve(Cleared(t, now)) \in Nat
    BY <1>2, <2>1, Reserves
  <2>3. CurrentBounded(t)
    BY DEF GuardInv, SpendInv
  <2>. QED BY <1>3, <2>2, <2>3 DEF CurrentBounded, Reserve
<1>7. ASSUME NEW t \in Tenants, NEW m \in Months, m < now
      PROVE  PastBounded(t, m)'
  <2>1. /\ Reserve(Held(t, m)') <= Reserve(Held(t, m))
        /\ Reserve(Held(t, m)') \in Nat /\ Reserve(Held(t, m)) \in Nat
    BY <1>1, <1>2, Reserves
  <2>2. PastBounded(t, m)
    BY <1>7 DEF GuardInv, SpendInv
  <2>. QED BY <1>3, <2>1, <2>2 DEF PastBounded, Reserve
<1>. QED BY <1>4, <1>5, <1>6, <1>7 DEF GuardInv, SpendInv

LEMMA GuardInit == ASSUME Init PROVE GuardInv
<1>1. TypeOK
  BY GuardAssumption DEF Init, TypeOK, Months
<1>2. Working = {}
  BY DEF Init, Working, AtWork
<1>3. now = 0 /\ \A t \in Tenants, m \in Months : spent[t][m] = 0
  BY DEF Init
<1>4. \A t \in Tenants : Reserve(Cleared(t, now)) = 0
  <2>1. Cardinality({}) = 0
    BY FS_EmptySet
  <2>2. \A t \in Tenants : Cleared(t, now) = {}
    BY <1>2 DEF Cleared, Held
  <2>3. MaxCost * 0 = 0
    BY GuardAssumption
  <2>. QED BY <2>1, <2>2, <2>3 DEF Reserve
<1>5. ASSUME NEW t \in Tenants
      PROVE  CurrentBounded(t)
  BY <1>1, <1>3, <1>4, Numbers DEF CurrentBounded
<1>6. Cardinality(Working) <= Slots
  BY <1>2, FS_EmptySet, GuardAssumption
<1>7. \A m \in Months : ~(m < now)
  BY <1>1, <1>3, Numbers
<1>. QED BY <1>1, <1>2, <1>3, <1>5, <1>6, <1>7 DEF GuardInv, SpendInv

\* A task that starts holds one more slot; its month is the current one, and
\* nothing has cleared it.
LEMMA CreateStep ==
    ASSUME GuardInv, NEW j \in Jobs, Create(j)
    PROVE  GuardInv'
<1> USE DEF Create, JobStep
<1>1. TypeOK'
  BY DEF GuardInv, TypeOK, AtWork
<1>2. Working' = Working \cup {j} /\ j \notin Working
  BY DEF GuardInv, TypeOK, Working, AtWork
<1>3. Cardinality(Working') <= Slots
  <2>1. Cardinality(Working) < Slots /\ IsFiniteSet(Working)
    BY GuardAssumption, FS_Subset DEF Working
  <2>2. Cardinality(Working) \in Nat /\ Cardinality(Working') = Cardinality(Working) + 1
    BY <1>2, <2>1, FS_AddElement, FS_CardinalityType
  <2>. QED BY <2>1, <2>2, GuardAssumption
<1>4. month' = [month EXCEPT ![j] = now] /\ now' = now /\ spent' = spent
  BY DEF GuardInv
<1>5. now \in Months /\ Months \subseteq Nat
  BY Numbers DEF GuardInv
<1>6. \A i \in Working' : month'[i] <= now'
  BY <1>2, <1>4, <1>5 DEF GuardInv, TypeOK, Working
<1>7. \A t \in Tenants : Cleared(t, now)' = Cleared(t, now)
  BY <1>2 DEF Cleared, Held, GuardInv, TypeOK, Working
<1>8. \A t \in Tenants, m \in Months : m < now => Held(t, m)' = Held(t, m)
  BY <1>2, <1>5 DEF Held, GuardInv, TypeOK, Working
<1>9. SpendInv'
  BY <1>4, <1>7, <1>8 DEF GuardInv, SpendInv, CurrentBounded, PastBounded, Reserve
<1>. QED BY <1>1, <1>3, <1>6, <1>9 DEF GuardInv

LEMMA QuietSteps ==
    ASSUME GuardInv, NEW j \in Jobs, LooksUp(j) \/ Inserts(j) \/ Calls(j) \/ CallFails(j) \/ Dies(j)
    PROVE  GuardInv'
<1> USE DEF JobStep
<1>1. CASE LooksUp(j)
  <2>1. TypeOK'
    BY <1>1 DEF LooksUp, GuardInv, TypeOK, AtWork
  <2>. QED BY <1>1, <2>1, Quiet DEF LooksUp, GuardInv, TypeOK, Working, AtWork
<1>2. CASE Inserts(j)
  <2>1. TypeOK'
    <3>1. inserting' \in [Tenants -> Jobs \cup {NoJob}]
      <4>1. inserting \in [Tenants -> Jobs \cup {NoJob}] /\ TenantOf[j] \in Tenants
        BY GuardAssumption DEF GuardInv, TypeOK
      <4>2. \/ inserting' = [inserting EXCEPT ![TenantOf[j]] = j]
            \/ inserting' = inserting
        BY <1>2 DEF Inserts
      <4>. QED BY <4>1, <4>2
    <3>2. pc' \in [Jobs -> AtWork \cup {"idle", "done", "broken", "dead"}]
      BY <1>2 DEF Inserts, GuardInv, TypeOK, AtWork
    <3>. QED BY <1>2, <3>1, <3>2 DEF Inserts, GuardInv, TypeOK
  <2>. QED BY <1>2, <2>1, Quiet DEF Inserts, GuardInv, TypeOK, Working, AtWork
<1>3. CASE Calls(j)
  <2>1. TypeOK'
    <3>1. bill' \in [Jobs -> 0 .. MaxCost]
      BY <1>3 DEF Calls, GuardInv, TypeOK
    <3>. QED BY <1>3, <3>1 DEF Calls, GuardInv, TypeOK, AtWork
  <2>. QED BY <1>3, <2>1, Quiet DEF Calls, GuardInv, TypeOK, Working, AtWork
<1>4. CASE CallFails(j)
  <2>1. TypeOK'
    <3>1. bill' \in [Jobs -> 0 .. MaxCost]
      BY <1>4 DEF CallFails, GuardInv, TypeOK
    <3>2. pc' \in [Jobs -> AtWork \cup {"idle", "done", "broken", "dead"}]
      BY <1>4 DEF CallFails, GuardInv, TypeOK
    <3>3. inserting' \in [Tenants -> Jobs \cup {NoJob}] /\ row' \subseteq Tenants
      <4>1. TenantOf[j] \in Tenants
        BY GuardAssumption
      <4>. QED BY <1>4, <4>1 DEF CallFails, Commit, GuardInv, TypeOK
    <3>. QED BY <1>4, <3>1, <3>2, <3>3 DEF CallFails, GuardInv, TypeOK
  <2>. QED BY <1>4, <2>1, Quiet DEF CallFails, GuardInv, TypeOK, Working, AtWork
<1>5. CASE Dies(j)
  <2>1. TypeOK'
    BY <1>5, GuardAssumption DEF Dies, Rollback, GuardInv, TypeOK, AtWork
  <2>. QED BY <1>5, <2>1, Quiet DEF Dies, GuardInv, TypeOK, Working, AtWork
<1>. QED BY <1>1, <1>2, <1>3, <1>4, <1>5

\* A task that is cleared has seen its tenant under budget; then no more are cleared
\* than there are slots.
LEMMA ChecksStep ==
    ASSUME GuardInv, NEW j \in Jobs, Checks(j)
    PROVE  GuardInv'
<1> USE DEF Checks, JobStep
<1>1. CASE Refuses(j)
  <2>1. TypeOK'
    <3>1. TenantOf[j] \in Tenants
      BY GuardAssumption
    <3>2. inserting' \in [Tenants -> Jobs \cup {NoJob}] /\ row' \subseteq Tenants
      BY <1>1, <3>1 DEF Refuses, Commit, GuardInv, TypeOK
    <3>3. /\ job' \in [Jobs -> {"absent", "running", "succeeded", "failed"}]
          /\ pc' \in [Jobs -> AtWork \cup {"idle", "done", "broken", "dead"}]
      BY <1>1 DEF Refuses, GuardInv, TypeOK
    <3>. QED BY <1>1, <3>2, <3>3 DEF Refuses, GuardInv, TypeOK
  <2>. QED BY <1>1, <2>1, Quiet DEF Refuses, GuardInv, TypeOK, Working, AtWork
<1>2. CASE Clears(j) /\ ~Exceeded(TenantOf[j], now)
  <2> USE DEF Clears
  <2>1. TypeOK'
    BY <1>2 DEF GuardInv, TypeOK, AtWork
  <2>2. Working' = Working /\ month' = month /\ spent' = spent /\ now' = now
    BY <1>2 DEF GuardInv, TypeOK, Working, AtWork
  <2>3. \A t \in Tenants, m \in Months : Held(t, m)' = Held(t, m)
    BY <2>2 DEF Held
  <2>4. now \in Months /\ Months \subseteq Nat /\ Ceiling \in Nat
    BY Numbers DEF GuardInv
  <2>5. ASSUME NEW t \in Tenants
        PROVE  CurrentBounded(t)'
    <3>1. CASE t = TenantOf[j]
      <4>1. spent[t][now] \in Nat /\ Budget[t] \in Nat /\ spent[t][now] < Budget[t]
        BY <1>2, <3>1, Numbers DEF Exceeded, GuardInv
      <4>2. Cleared(t, now)' \subseteq Working /\ Working \in SUBSET Jobs
            /\ Cardinality(Working) <= Slots
        BY <2>2 DEF Cleared, Held, Working, GuardInv
      <4>3. Reserve(Cleared(t, now)') <= Ceiling /\ Reserve(Cleared(t, now)') \in Nat
        BY <4>2, Reserves
      <4>. QED BY <2>2, <2>4, <4>1, <4>3 DEF CurrentBounded, Reserve
    <3>2. CASE t # TenantOf[j]
      <4>1. Cleared(t, now)' = Cleared(t, now)
        BY <1>2, <2>2, <3>2 DEF Cleared, Held, GuardInv, TypeOK, Working
      <4>. QED BY <2>2, <4>1 DEF CurrentBounded, Reserve, GuardInv, SpendInv
    <3>. QED BY <3>1, <3>2
  <2>6. SpendInv'
    BY <2>2, <2>3, <2>5 DEF GuardInv, SpendInv, PastBounded, Reserve
  <2>. QED BY <2>1, <2>2, <2>6 DEF GuardInv
<1>. QED BY <1>1, <1>2

LEMMA Added ==
    ASSUME NEW f \in [Tenants -> [Months -> Nat]], NEW t \in Tenants, NEW m \in Months,
           NEW n \in Nat, NEW g, g = [f EXCEPT ![t][m] = @ + n]
    PROVE  /\ g \in [Tenants -> [Months -> Nat]]
           /\ g[t][m] = f[t][m] + n
           /\ \A u \in Tenants, k \in Months : u # t \/ k # m => g[u][k] = f[u][k]
<1>1. f[t][m] + n \in Nat
  OBVIOUS
<1>. QED BY <1>1

\* What a task records was set aside when it was cleared, or when its month ended.
LEMMA RecordsStep ==
    ASSUME GuardInv, NEW j \in Jobs, Records(j)
    PROVE  GuardInv'
<1> USE DEF Records, JobStep
<1>1. now \in Months /\ Months \subseteq Nat /\ Ceiling \in Nat /\ MaxCost \in Nat
  BY Numbers DEF GuardInv
<1>2. /\ month[j] \in Months /\ TenantOf[j] \in Tenants
      /\ bill[j] \in Nat /\ bill[j] <= MaxCost
  BY Numbers DEF GuardInv
<1>3. \A t \in Tenants : Budget[t] \in Nat /\ \A m \in Months : spent[t][m] \in Nat
  BY Numbers DEF GuardInv
<1>4. /\ spent' \in [Tenants -> [Months -> Nat]]
      /\ spent'[TenantOf[j]][month[j]] = spent[TenantOf[j]][month[j]] + bill[j]
      /\ \A t \in Tenants, m \in Months :
            t # TenantOf[j] \/ m # month[j] => spent'[t][m] = spent[t][m]
  <2>1. spent \in [Tenants -> [Months -> Nat]]
    BY DEF GuardInv, TypeOK
  <2>2. spent' = [spent EXCEPT ![TenantOf[j]][month[j]] = @ + bill[j]]
    BY DEF Records
  <2>. QED BY <1>2, <2>1, <2>2, Added
<1>5. TypeOK'
  <2>1. row' \subseteq Tenants /\ inserting' \in [Tenants -> Jobs \cup {NoJob}]
    BY GuardAssumption DEF Commit, GuardInv, TypeOK
  <2>. QED BY <1>4, <2>1 DEF GuardInv, TypeOK
<1>6. Working' = Working \ {j} /\ j \in Working /\ month' = month /\ now' = now
  BY DEF GuardInv, TypeOK, Working, AtWork
<1>7. month[j] <= now
  BY <1>6 DEF GuardInv
<1>8. Cardinality(Working') <= Slots
  <2>1. Working' \in SUBSET Working /\ Working \in SUBSET Jobs /\ Cardinality(Working) <= Slots
    BY <1>6 DEF GuardInv, Working
  <2>. QED BY <2>1, Reserves
<1>9. \A t, m : Held(t, m)' = Held(t, m) \ {j} /\ Cleared(t, m)' = Cleared(t, m) \ {j}
  BY <1>6 DEF Held, Cleared, GuardInv, TypeOK, Working
<1>10. \A t, m : Held(t, m) \in SUBSET Jobs /\ Cleared(t, m) \in SUBSET Jobs
  BY DEF Held, Cleared, Working
<1>11. j \in Cleared(TenantOf[j], month[j]) /\ j \in Held(TenantOf[j], month[j])
  BY <1>6 DEF Cleared, Held
<1>12. ASSUME NEW t \in Tenants
       PROVE  CurrentBounded(t)'
  <2>1. CurrentBounded(t)
    BY DEF GuardInv, SpendInv
  <2>2. Reserve(Cleared(t, now)) \in Nat /\ Reserve(Cleared(t, now) \ {j}) \in Nat
        /\ Reserve(Cleared(t, now) \ {j}) <= Reserve(Cleared(t, now))
        /\ \A i \in Cleared(t, now) :
              Reserve(Cleared(t, now) \ {i}) + MaxCost = Reserve(Cleared(t, now))
    <3>1. Cleared(t, now) \in SUBSET Jobs /\ Cleared(t, now) \ {j} \in SUBSET Cleared(t, now)
      BY <1>10
    <3>. QED BY <3>1, Reserves
  <2>3. Reserve(Cleared(t, now))' = Reserve(Cleared(t, now) \ {j})
    BY <1>6, <1>9 DEF Reserve
  <2>4. CASE t = TenantOf[j] /\ now = month[j]
    <3>1. Reserve(Cleared(t, now) \ {j}) + MaxCost = Reserve(Cleared(t, now))
      BY <1>11, <2>2, <2>4
    <3>2. spent'[t][now] = spent[t][now] + bill[j]
      BY <1>4, <2>4
    <3>. QED BY <1>1, <1>2, <1>3, <1>6, <2>1, <2>2, <2>3, <3>1, <3>2 DEF CurrentBounded
  <2>5. CASE ~(t = TenantOf[j] /\ now = month[j])
    <3>1. spent'[t][now] = spent[t][now]
      BY <1>1, <1>4, <2>5
    <3>. QED BY <1>1, <1>3, <1>6, <2>1, <2>2, <2>3, <3>1 DEF CurrentBounded
  <2>. QED BY <2>4, <2>5
<1>13. ASSUME NEW t \in Tenants, NEW m \in Months, m < now
       PROVE  PastBounded(t, m)'
  <2>1. PastBounded(t, m)
    BY <1>13 DEF GuardInv, SpendInv
  <2>2. Reserve(Held(t, m)) \in Nat /\ Reserve(Held(t, m) \ {j}) \in Nat
        /\ Reserve(Held(t, m) \ {j}) <= Reserve(Held(t, m))
        /\ \A i \in Held(t, m) : Reserve(Held(t, m) \ {i}) + MaxCost = Reserve(Held(t, m))
    <3>1. Held(t, m) \in SUBSET Jobs /\ Held(t, m) \ {j} \in SUBSET Held(t, m)
      BY <1>10
    <3>. QED BY <3>1, Reserves
  <2>3. Reserve(Held(t, m))' = Reserve(Held(t, m) \ {j})
    BY <1>9 DEF Reserve
  <2>4. CASE t = TenantOf[j] /\ m = month[j]
    <3>1. Reserve(Held(t, m) \ {j}) + MaxCost = Reserve(Held(t, m))
      BY <1>11, <2>2, <2>4
    <3>2. spent'[t][m] = spent[t][m] + bill[j]
      BY <1>4, <2>4
    <3>. QED BY <1>1, <1>2, <1>3, <2>1, <2>2, <2>3, <3>1, <3>2 DEF PastBounded
  <2>5. CASE ~(t = TenantOf[j] /\ m = month[j])
    <3>1. spent'[t][m] = spent[t][m]
      BY <1>4, <2>5
    <3>. QED BY <1>1, <1>3, <2>1, <2>2, <2>3, <3>1 DEF PastBounded
  <2>. QED BY <2>4, <2>5
<1>14. \A t \in Tenants, m \in Months : m > now' => spent'[t][m] = 0
  BY <1>1, <1>2, <1>4, <1>6, <1>7 DEF GuardInv, SpendInv
<1>15. \A i \in Working' : month'[i] <= now'
  BY <1>6 DEF GuardInv
<1>. QED BY <1>5, <1>6, <1>8, <1>12, <1>13, <1>14, <1>15 DEF GuardInv, SpendInv

\* The month that ends keeps what its tasks at work may still cost: one more ceiling.
LEMMA NextMonthStep ==
    ASSUME GuardInv, NextMonth
    PROVE  GuardInv'
<1> USE DEF NextMonth
<1>1. /\ Months \subseteq Nat /\ Ceiling \in Nat /\ now \in Months
      /\ now' = now + 1 /\ spent' = spent
  BY Numbers DEF GuardInv
<1>2. \A t \in Tenants : /\ Budget[t] \in Nat \ {0}
                         /\ \A m \in Months : spent[t][m] \in Nat
  BY Numbers DEF GuardInv
<1>3. TypeOK'
  BY GuardAssumption DEF GuardInv, TypeOK, Months
<1>4. Working' = Working /\ \A t, m : Held(t, m)' = Held(t, m)
  BY DEF Working, Held
<1>5. \A j \in Working : month[j] \in Nat /\ month[j] <= now
  BY Numbers DEF GuardInv, Working
<1>6. now' \in Months
  BY <1>3 DEF TypeOK
<1>7. ASSUME NEW t \in Tenants
      PROVE  CurrentBounded(t)'
  <2>1. Cleared(t, now)' = {}
    <3>1. \A j \in Working' : month'[j] # now'
      <4>1. \A j \in Working : month[j] # now + 1
        BY <1>1, <1>5
      <4>. QED BY <1>1, <1>4, <4>1
    <3>. QED BY <3>1 DEF Cleared, Held
  <2>2. Reserve(Cleared(t, now))' = 0
    <3>1. Cardinality({}) = 0 /\ MaxCost * 0 = 0
      BY FS_EmptySet, GuardAssumption
    <3>. QED BY <2>1, <3>1 DEF Reserve
  <2>3. spent'[t][now'] = 0
    BY <1>1, <1>6 DEF GuardInv, SpendInv
  <2>. QED BY <1>1, <1>2, <2>2, <2>3 DEF CurrentBounded
<1>8. ASSUME NEW t \in Tenants, NEW m \in Months, m < now'
      PROVE  PastBounded(t, m)'
  <2>1. CASE m < now
    BY <1>1, <1>4, <2>1 DEF GuardInv, SpendInv, PastBounded, Reserve
  <2>2. CASE m = now
    <3>1. Held(t, m) \in SUBSET Working /\ Working \in SUBSET Jobs
          /\ Cardinality(Working) <= Slots /\ Cleared(t, m) \in SUBSET Jobs
      BY DEF Held, Cleared, Working, GuardInv
    <3>2. Reserve(Held(t, m)) \in Nat /\ Reserve(Held(t, m)) <= Ceiling
      BY <3>1, Reserves
    <3>3. Reserve(Cleared(t, m)) \in Nat
      BY <3>1, Reserves
    <3>4. CurrentBounded(t)
      BY DEF GuardInv, SpendInv
    <3>5. PastBounded(t, m)
      BY <1>1, <1>2, <2>2, <3>2, <3>3, <3>4 DEF CurrentBounded, PastBounded
    <3>. QED BY <1>1, <1>4, <3>5 DEF PastBounded, Reserve
  <2>. QED BY <1>1, <1>8, <2>1, <2>2
<1>9. \A t \in Tenants, m \in Months : m > now' => spent'[t][m] = 0
  BY <1>1 DEF GuardInv, SpendInv
<1>10. Cardinality(Working') <= Slots /\ \A j \in Working' : month'[j] <= now'
  BY <1>1, <1>4, <1>5 DEF GuardInv
<1>. QED BY <1>3, <1>7, <1>8, <1>9, <1>10 DEF GuardInv, SpendInv

LEMMA GuardStep == GuardInv /\ [Next]_vars => GuardInv'
<1> SUFFICES ASSUME GuardInv, [Next]_vars
             PROVE  GuardInv'
  OBVIOUS
<1>1. ASSUME NEW t \in Tenants, StatusRead(t)
      PROVE  GuardInv'
  <2>1. TypeOK'
    BY <1>1 DEF StatusRead, GuardInv, TypeOK
  <2>. QED BY <1>1, <2>1, Quiet DEF StatusRead, Working
<1>2. CASE UNCHANGED vars
  <2>1. TypeOK'
    BY <1>2 DEF vars, GuardInv, TypeOK
  <2>. QED BY <1>2, <2>1, Quiet DEF vars, Working
<1>. QED BY <1>1, <1>2, CreateStep, QuietSteps, ChecksStep, RecordsStep, NextMonthStep
     DEF Next, Proceeds

\* However many tasks overlap, die or outlive the month they were created in, what a
\* tenant has spent and what it may still spend stay under the budget and the reserve.
THEOREM GuardInvariant == Spec => []GuardInv
<1>1. Init => GuardInv
  BY GuardInit
<1>. QED BY <1>1, GuardStep, PTL DEF Spec

\* check_tenant_ai_budget and record_ai_usage: a tenant overshoots its budget by at most
\* what its tasks in the slots cost, and for a month that is over by twice as much.
THEOREM OvershootBounded == Spec => []SpendBounded
<1>1. ASSUME GuardInv, NEW t \in Tenants, NEW m \in 0 .. now
      PROVE  spent[t][m] < Budget[t] + (IF m = now THEN 1 ELSE 2) * Slots * MaxCost
  <2>1. /\ m \in Months /\ m <= now /\ now \in Nat /\ m \in Nat
        /\ now \in Months /\ Slots \in Nat /\ MaxCost \in Nat
        /\ Budget[t] \in Nat /\ spent[t][m] \in Nat
    BY <1>1, GuardAssumption DEF Months, GuardInv, TypeOK
  <2>2. Reserve(Held(t, m)) \in Nat /\ Reserve(Cleared(t, m)) \in Nat /\ Ceiling \in Nat
    BY Reserves DEF Held, Cleared, Working
  <2>3. Ceiling = 1 * Slots * MaxCost /\ Ceiling + Ceiling = 2 * Slots * MaxCost
    BY <2>1 DEF Ceiling
  <2>4. CASE m = now
    BY <1>1, <2>1, <2>2, <2>3, <2>4 DEF GuardInv, SpendInv, CurrentBounded
  <2>5. CASE m # now
    <3>1. m < now
      BY <2>1, <2>5
    <3>. QED BY <1>1, <2>1, <2>2, <2>3, <2>5, <3>1 DEF GuardInv, SpendInv, PastBounded
  <2>. QED BY <2>4, <2>5
<1>2. GuardInv => SpendBounded
  BY <1>1 DEF SpendBounded
<1>. QED BY <1>2, GuardInvariant, PTL
-------------------------------------------------------------------------------
\* What a fold over a set of jobs computes, as a function on the sets below it, and
\* its value.  The library's fold takes any element; a set has one it always takes.
Pick(S) == CHOOSE j \in S : TRUE

Sums(g, f, S) ==
    g = [T \in SUBSET S |-> IF T = {} THEN 0 ELSE f[Pick(T)] + g[T \ {Pick(T)}]]

Total(f, S) == (CHOOSE g : Sums(g, f, S))[S]

\* A family of sets of jobs has a least one: what stands for induction on the jobs.
LEMMA Least ==
    ASSUME NEW F \in SUBSET SUBSET Jobs, F # {}
    PROVE  \E T \in F : \A U \in F : U \subseteq T => U = T
<1> DEFINE R == StrictSubsetOrdering(Jobs)
<1> DEFINE D == FiniteSubsetsOf(Jobs)
<1>1. IsWellFoundedOn(R, D)
  BY FS_StrictSubsetOrderingWellFounded
<1>2. F \subseteq D
  BY GuardAssumption, FS_Subset DEF FiniteSubsetsOf
<1>3. PICK T \in F : \A U \in F : ~ (<<U, T>> \in R)
  <2>. HIDE DEF R, D
  <2>. QED BY <1>1, <1>2, WFMin
<1>4. ASSUME NEW U \in F, U \subseteq T, U # T
      PROVE  <<U, T>> \in R
  BY <1>4 DEF StrictSubsetOrdering
<1>5. \A U \in F : U \subseteq T => U = T
  <2>. HIDE DEF R
  <2>. QED BY <1>3, <1>4
<1>. QED BY <1>5

Alike(f, h, S) == \A j \in S : f[j] = h[j]

LEMMA Picked == ASSUME NEW T, T # {} PROVE Pick(T) \in T
  BY DEF Pick

\* Two sums agree on a set on whose jobs the costs agree.
LEMMA SumsAgree ==
    ASSUME NEW X \in SUBSET Jobs, NEW Y \in SUBSET Jobs,
           NEW f, NEW g, NEW h, NEW k, Sums(g, f, X), Sums(k, h, Y),
           NEW S \in SUBSET (X \cap Y), Alike(f, h, S)
    PROVE  g[S] = k[S]
<1> DEFINE F == {T \in SUBSET S : g[T] # k[T]}
<1>1. SUFFICES ASSUME F # {} PROVE FALSE
  OBVIOUS
<1>2. PICK T \in F : \A U \in F : U \subseteq T => U = T
  <2>1. F \in SUBSET SUBSET Jobs
    OBVIOUS
  <2>. HIDE DEF F
  <2>. QED BY <1>1, <2>1, Least
<1>3. /\ g[T] = IF T = {} THEN 0 ELSE f[Pick(T)] + g[T \ {Pick(T)}]
      /\ k[T] = IF T = {} THEN 0 ELSE h[Pick(T)] + k[T \ {Pick(T)}]
  BY DEF Sums
<1>4. T # {}
  BY <1>3
<1>5. Pick(T) \in T
  BY <1>4, Picked
<1>6. g[T \ {Pick(T)}] = k[T \ {Pick(T)}]
  BY <1>2, <1>5
<1>. QED BY <1>3, <1>4, <1>5, <1>6 DEF Alike

\* Every set has its sum.
LEMMA SumsExist ==
    ASSUME NEW f, NEW S \in SUBSET Jobs
    PROVE  \E g : Sums(g, f, S)
<1> DEFINE F == {T \in SUBSET Jobs : ~ \E g : Sums(g, f, T)}
<1>1. SUFFICES ASSUME F # {} PROVE FALSE
  OBVIOUS
<1>2. PICK X \in F : \A U \in F : U \subseteq X => U = X
  <2>1. F \in SUBSET SUBSET Jobs
    OBVIOUS
  <2>. HIDE DEF F
  <2>. QED BY <1>1, <2>1, Least
<1> DEFINE G(T) == CHOOSE g : Sums(g, f, T)
           Value(T) == IF T = {} THEN 0
                       ELSE f[Pick(T)] + G(T \ {Pick(T)})[T \ {Pick(T)}]
           it == [T \in SUBSET X |-> Value(T)]
<1>3. ASSUME NEW T \in SUBSET X, T # X PROVE Sums(G(T), f, T)
  BY <1>2, <1>3
<1>4. ASSUME NEW T \in SUBSET X, T # X PROVE G(T)[T] = Value(T)
  <2> DEFINE U == T \ {Pick(T)}
  <2>1. G(T)[T] = IF T = {} THEN 0 ELSE f[Pick(T)] + G(T)[U]
    <3>1. Sums(G(T), f, T)
      BY <1>3, <1>4
    <3>. HIDE DEF G
    <3>. QED BY <3>1 DEF Sums
  <2>2. CASE T = {}
    BY <2>1, <2>2
  <2>3. CASE T # {}
    <3>1. U \in SUBSET T /\ U # T
      BY <2>3, Picked
    <3>2. Sums(G(T), f, T) /\ Sums(G(U), f, U)
      BY <1>3, <1>4, <3>1
    <3>3. T \in SUBSET Jobs /\ U \in SUBSET Jobs /\ U \in SUBSET (T \cap U)
      BY <1>2, <3>1
    <3>4. Alike(f, f, U)
      BY DEF Alike
    <3>5. G(T)[U] = G(U)[U]
      <4>. HIDE DEF G, U
      <4>. QED BY <3>2, <3>3, <3>4, SumsAgree
    <3>. QED BY <2>1, <2>3, <3>5
  <2>. QED BY <2>2, <2>3
<1>5. Sums(it, f, X)
  <2>1. ASSUME NEW T \in SUBSET X, T # {}
        PROVE  Value(T) = f[Pick(T)] + it[T \ {Pick(T)}]
    <3> DEFINE U == T \ {Pick(T)}
    <3>1. U \in SUBSET X /\ U # X
      BY <2>1, Picked
    <3>2. it[U] = G(U)[U]
      <4>1. it[U] = Value(U)
        BY <3>1
      <4>. HIDE DEF Value, U, G, it
      <4>. QED BY <3>1, <4>1, <1>4
    <3>. QED BY <2>1, <3>2
  <2>2. \A T \in SUBSET X :
          it[T] = IF T = {} THEN 0 ELSE f[Pick(T)] + it[T \ {Pick(T)}]
    <3>1. \A T \in SUBSET X : it[T] = Value(T)
      OBVIOUS
    <3>2. {} \in SUBSET X => Value({}) = 0
      OBVIOUS
    <3>. HIDE DEF Value, it
    <3>. QED BY <2>1, <3>1, <3>2
  <2>3. it = [T \in SUBSET X |-> it[T]]
    OBVIOUS
  <2>. HIDE DEF it
  <2>. QED BY <2>2, <2>3 DEF Sums
<1>6. X \in F
  BY <1>2
<1>. QED BY <1>5, <1>6

LEMMA TotalSums ==
    ASSUME NEW f, NEW S \in SUBSET Jobs, NEW T \in SUBSET S, NEW g, Sums(g, f, S)
    PROVE  Total(f, T) = g[T]
<1>1. Sums(CHOOSE k : Sums(k, f, T), f, T)
  BY SumsExist
<1>. QED BY <1>1, SumsAgree DEF Total, Alike

\* The sum depends on the costs of the set's own jobs only.
LEMMA TotalAgrees ==
    ASSUME NEW f, NEW h, NEW S \in SUBSET Jobs, Alike(f, h, S)
    PROVE  Total(f, S) = Total(h, S)
<1>1. PICK g : Sums(g, f, S)
  BY SumsExist
<1>2. PICK k : Sums(k, h, S)
  BY SumsExist
<1>3. g[S] = k[S]
  <2>1. S \in SUBSET (S \cap S)
    OBVIOUS
  <2>. QED BY <1>1, <1>2, <2>1, SumsAgree
<1>. QED BY <1>1, <1>2, <1>3, TotalSums

LEMMA TotalEmpty == ASSUME NEW f PROVE Total(f, {}) = 0
<1>1. Sums(CHOOSE k : Sums(k, f, {}), f, {})
  BY SumsExist
<1>. QED BY <1>1 DEF Total, Sums

LEMMA TotalPick ==
    ASSUME NEW f, NEW S \in SUBSET Jobs, S # {}
    PROVE  Total(f, S) = f[Pick(S)] + Total(f, S \ {Pick(S)})
<1>1. PICK g : Sums(g, f, S)
  BY SumsExist
<1>2. g[S] = f[Pick(S)] + g[S \ {Pick(S)}]
  BY <1>1 DEF Sums
<1>. QED BY <1>1, <1>2, TotalSums

LEMMA TotalNat ==
    ASSUME NEW f \in [Jobs -> Nat], NEW S \in SUBSET Jobs
    PROVE  Total(f, S) \in Nat
<1> DEFINE F == {T \in SUBSET Jobs : Total(f, T) \notin Nat}
<1>1. SUFFICES ASSUME F # {} PROVE FALSE
  OBVIOUS
<1>2. PICK T \in F : \A U \in F : U \subseteq T => U = T
  <2>1. F \in SUBSET SUBSET Jobs
    OBVIOUS
  <2>. HIDE DEF F
  <2>. QED BY <1>1, <2>1, Least
<1>3. T # {}
  BY TotalEmpty
<1>4. Pick(T) \in T
  BY <1>3, Picked
<1>5. Total(f, T \ {Pick(T)}) \in Nat
  BY <1>2, <1>4
<1>6. f[Pick(T)] \in Nat
  BY <1>4
<1>. QED BY <1>3, <1>5, <1>6, TotalPick

\* One job more adds its own cost, whichever job the fold takes first.
LEMMA TotalRemove ==
    ASSUME NEW f \in [Jobs -> Nat], NEW S \in SUBSET Jobs, NEW j \in S
    PROVE  Total(f, S) = Total(f, S \ {j}) + f[j]
<1> DEFINE Good(T) == \A i \in T : Total(f, T) = Total(f, T \ {i}) + f[i]
           F == {T \in SUBSET Jobs : ~ Good(T)}
<1>1. SUFFICES ASSUME F # {} PROVE FALSE
  OBVIOUS
<1>2. PICK T \in F : \A U \in F : U \subseteq T => U = T
  <2>1. F \in SUBSET SUBSET Jobs
    OBVIOUS
  <2>. HIDE DEF F
  <2>. QED BY <1>1, <2>1, Least
<1>3. PICK i \in T : Total(f, T) # Total(f, T \ {i}) + f[i]
  OBVIOUS
<1> DEFINE x == Pick(T)
<1>4. x \in T
  BY <1>3, Picked
<1>5. Total(f, T) = f[x] + Total(f, T \ {x})
  BY <1>3, TotalPick
<1> HIDE DEF x
<1>6. /\ f[x] \in Nat /\ f[i] \in Nat
      /\ Total(f, T \ {x}) \in Nat
      /\ Total(f, T \ {i}) \in Nat
      /\ Total(f, (T \ {x}) \ {i}) \in Nat
  BY <1>4, TotalNat
<1>7. x # i
  BY <1>3, <1>5, <1>6
<1>8. Good(T \ {x}) /\ Good(T \ {i})
  BY <1>2, <1>3, <1>4
<1>9. Total(f, T \ {x}) = Total(f, (T \ {x}) \ {i}) + f[i]
  BY <1>3, <1>7, <1>8
<1>10. Total(f, T \ {i}) = Total(f, (T \ {i}) \ {x}) + f[x]
  BY <1>4, <1>7, <1>8
<1>11. (T \ {x}) \ {i} = (T \ {i}) \ {x}
  OBVIOUS
<1>. QED BY <1>3, <1>5, <1>6, <1>9, <1>10, <1>11

\* The library's fold, as the model uses it, is this sum.
LEMMA ChargedIsTotal == ASSUME NEW S \in SUBSET Jobs PROVE Charged(S) = Total(bill, S)
<1>1. Total(bill, S) = (CHOOSE g : Sums(g, bill, S))[S]
  BY DEF Total
<1>2. Charged(S) = (CHOOSE g : Sums(g, bill, S))[S]
  BY DEF Charged, MapThenSumSet, MapThenFoldSet, Sums, Pick
<1>. QED BY <1>1, <1>2

-------------------------------------------------------------------------------
\* What SpendIsBilled needs to survive a step: a job that counts is done with.
BilledInv ==
    /\ TypeOK
    /\ \A j \in Jobs : job[j] = "succeeded" => pc[j] = "done"
    /\ \A t \in Tenants, m \in Months : spent[t][m] = Total(bill, Counted(t, m))

\* A step that neither counts a job nor changes what a counted one was charged.
LEMMA BilledQuiet ==
    ASSUME BilledInv, TypeOK', spent' = spent,
           \A j \in Jobs : job'[j] = "succeeded" <=> job[j] = "succeeded",
           \A j \in Jobs : job[j] = "succeeded" =>
               pc'[j] = pc[j] /\ month'[j] = month[j] /\ bill'[j] = bill[j]
    PROVE  BilledInv'
<1>1. ASSUME NEW t \in Tenants, NEW m \in Months
      PROVE  spent'[t][m] = Total(bill', Counted(t, m)')
  <2>1. Counted(t, m)' = Counted(t, m)
    BY DEF Counted
  <2>2. Counted(t, m) \in SUBSET Jobs /\ Alike(bill, bill', Counted(t, m))
    BY DEF Counted, Alike
  <2>3. Total(bill, Counted(t, m)) = Total(bill', Counted(t, m))
    BY <2>2, TotalAgrees
  <2>. QED BY <2>1, <2>3 DEF BilledInv
<1>. QED BY <1>1 DEF BilledInv

LEMMA BilledRecords ==
    ASSUME BilledInv, TypeOK', NEW j \in Jobs, Records(j)
    PROVE  BilledInv'
<1>1. /\ pc[j] = "answered" /\ job[j] # "succeeded"
      /\ job' = [job EXCEPT ![j] = "succeeded"] /\ pc' = [pc EXCEPT ![j] = "done"]
      /\ month' = month /\ bill' = bill
      /\ spent' = [spent EXCEPT ![TenantOf[j]][month[j]] = @ + bill[j]]
  BY DEF Records, JobStep, BilledInv
<1>2. /\ TenantOf[j] \in Tenants /\ month[j] \in Months
      /\ spent \in [Tenants -> [Months -> Nat]]
      /\ bill \in [Jobs -> Nat]
      /\ job \in [Jobs -> {"absent", "running", "succeeded", "failed"}]
      /\ DOMAIN pc = Jobs
  BY GuardAssumption DEF BilledInv, TypeOK
<1>3. ASSUME NEW t \in Tenants, NEW m \in Months
      PROVE  spent'[t][m] = Total(bill, Counted(t, m)')
  <2>1. CASE t = TenantOf[j] /\ m = month[j]
    <3>1. /\ j \in Counted(t, m)' /\ Counted(t, m)' \in SUBSET Jobs
          /\ Counted(t, m)' \ {j} = Counted(t, m)
      BY <1>1, <1>2, <2>1 DEF Counted
    <3>2. Total(bill, Counted(t, m)') = Total(bill, Counted(t, m)) + bill[j]
      BY <1>2, <3>1, TotalRemove
    <3>3. spent'[t][m] = spent[t][m] + bill[j]
      BY <1>1, <1>2, <2>1
    <3>. QED BY <3>2, <3>3 DEF BilledInv
  <2>2. CASE ~(t = TenantOf[j] /\ m = month[j])
    <3>1. Counted(t, m)' = Counted(t, m)
      BY <1>1, <1>2, <2>2 DEF Counted
    <3>2. spent'[t][m] = spent[t][m]
      BY <1>1, <1>2, <2>2
    <3>. QED BY <3>1, <3>2 DEF BilledInv
  <2>. QED BY <2>1, <2>2
<1>4. \A k \in Jobs : job'[k] = "succeeded" => pc'[k] = "done"
  BY <1>1, <1>2 DEF BilledInv
<1>. QED BY <1>1, <1>3, <1>4 DEF BilledInv

LEMMA BilledStep == BilledInv /\ [Next]_vars /\ TypeOK' => BilledInv'
<1> SUFFICES ASSUME BilledInv, [Next]_vars, TypeOK'
             PROVE  BilledInv'
  OBVIOUS
<1>1. /\ DOMAIN pc = Jobs /\ DOMAIN job = Jobs /\ DOMAIN month = Jobs /\ DOMAIN bill = Jobs
      /\ \A k \in Jobs : job[k] = "succeeded" => pc[k] = "done"
  BY DEF BilledInv, TypeOK
<1>2. ASSUME NEW j \in Jobs, Create(j) \/ LooksUp(j) \/ Inserts(j) \/ Dies(j)
      PROVE  BilledInv'
  BY <1>1, <1>2, BilledQuiet DEF Create, LooksUp, Inserts, Dies, JobStep, AtWork
<1>3. ASSUME NEW j \in Jobs, Checks(j) \/ Calls(j) \/ CallFails(j)
      PROVE  BilledInv'
  BY <1>1, <1>3, BilledQuiet DEF Checks, Clears, Refuses, Calls, CallFails, JobStep
<1>4. ASSUME NEW t \in Tenants, StatusRead(t)
      PROVE  BilledInv'
  BY <1>4, BilledQuiet DEF StatusRead
<1>5. CASE NextMonth \/ UNCHANGED vars
  BY <1>5, BilledQuiet DEF NextMonth, vars
<1>. QED BY <1>2, <1>3, <1>4, <1>5, BilledRecords DEF Next, Proceeds

\* record_ai_usage and the guard's query: the spend of a tenant's month is the sum of
\* what its successful jobs were charged, whatever overlaps and whenever the month turns.
THEOREM SpendBilled == Spec => []SpendIsBilled
<1>1. Init => BilledInv
  <2> SUFFICES ASSUME Init PROVE BilledInv
    OBVIOUS
  <2>1. TypeOK
    BY GuardInit DEF GuardInv
  <2>2. /\ \A t \in Tenants, m \in Months : spent[t][m] = 0 /\ Counted(t, m) = {}
        /\ \A j \in Jobs : job[j] = "absent"
    BY DEF Init, Counted
  <2>. QED BY <2>1, <2>2, TotalEmpty DEF BilledInv
<1>2. BilledInv => SpendIsBilled
  <2> SUFFICES ASSUME BilledInv, NEW t \in Tenants, NEW m \in Months
               PROVE  spent[t][m] = Charged(Counted(t, m))
    BY DEF SpendIsBilled
  <2>1. Counted(t, m) \in SUBSET Jobs
    BY DEF Counted
  <2>2. Charged(Counted(t, m)) = Total(bill, Counted(t, m))
    BY <2>1, ChargedIsTotal
  <2>. QED BY <2>2 DEF BilledInv
<1>3. GuardInv => TypeOK
  BY DEF GuardInv
<1>. QED BY <1>1, <1>2, <1>3, BilledStep, GuardInvariant, PTL DEF Spec
================================================================================
