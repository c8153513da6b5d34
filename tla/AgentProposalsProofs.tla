------------------------- MODULE AgentProposalsProofs -------------------------
(***************************************************************************)
(* Proofs about AgentProposals, for any costs, rates, market prices and    *)
(* answers of the model, and any number of tasks at work.  The arithmetic  *)
(* of the pricing engine comes first; the rest follows what a task and a   *)
(* recommendation still know to be true of a row that others go on         *)
(* writing.                                                                *)
(***************************************************************************)
EXTENDS AgentProposals, FiniteSetTheorems, WellFoundedInduction, TLAPS

\* What a copy of the row keeps in common with it, whatever is written meanwhile.
Current(copy) ==
    row # None /\ copy.cost = row.cost /\ copy.vat = row.vat /\ (copy.ean => row.ean)

CopiesCurrent ==
    \A i \in Workers : w[i] # Idle /\ w[i].copy # None => Current(w[i].copy)

\* A recommendation is executed by one worker at most.
ExecutesAlone ==
    \A i \in Workers : w[i].pc = "executes" =>
        /\ recs[w[i].rec].status = "executing"
        /\ \A j \in Workers : w[j].pc = "executes" /\ w[j].rec = w[i].rec => i = j

\* A proposed price keeps the margin up to rounding and covers the cost; a proposed content
\* claims no specification the row does not have.
PriceOk(p) ==
    row.cost # None /\ KeepsUpToRounding(p, row.cost, row.vat) /\ p >= row.cost

ContentOk(specs) == specs \cap SpecFields \subseteq KnownSpecs(row)

RecOk(rec) ==
    /\ row # None
    /\ rec.kind = "price" => PriceOk(rec.value)
    /\ rec.kind = "content" => ContentOk(rec.value)

\* And so does the content that was approved.
ExtraOk == row # None /\ row.extra # None => ContentOk(row.extra)

ProposalsInv ==
    /\ TypeOK
    /\ CopiesCurrent
    /\ ExecutesAlone
    /\ \A r \in DOMAIN recs : RecOk(recs[r])
    /\ ExtraOk

-------------------------------------------------------------------------------
(* Arithmetic.                                                              *)

LEMMA Divides ==
    ASSUME NEW a \in Nat, NEW b \in Nat \ {0}
    PROVE  /\ a \div b \in Nat
           /\ b * (a \div b) <= a /\ a < b * (a \div b) + b
  OBVIOUS

\* Rounding is off by half a cent at most.
LEMMA Rounds ==
    ASSUME NEW n \in Nat, NEW d \in Nat \ {0}
    PROVE  /\ RoundMoney(n, d) \in Money
           /\ (2 * RoundMoney(n, d) + Cent) * d >= 2 * n
<1> DEFINE b == 2 * Cent * d
           a == 2 * n + Cent * d
           q == a \div b
<1>1. a \in Nat /\ b \in Nat \ {0}
  BY DEF Cent
<1>2. q \in Nat /\ a < b * q + b
  BY <1>1, Divides
<1>3. RoundMoney(n, d) = Cent * q
  BY DEF RoundMoney
<1>4. Cent * q \in Money
  BY <1>2 DEF Cent, Money
<1>5. (2 * (Cent * q) + Cent) * d = b * q + Cent * d
  <2>1. \A x \in Nat : (2 * (Cent * x) + Cent) * d = (2 * Cent * d) * x + Cent * d
    BY DEF Cent
  <2>2. q \in Nat
    BY <1>2
  <2> HIDE DEF q
  <2>. QED BY <2>1, <2>2
<1>6. b = 2 * (Cent * d) /\ Cent * d \in Nat
  BY DEF Cent
<1> HIDE DEF q
<1>7. (2 * (Cent * q) + Cent) * d >= 2 * n
  <2>1. b * q \in Int
    BY <1>1, <1>2
  <2> DEFINE bq == b * q
             cd == Cent * d
  <2>2. 2 * n + cd < bq + 2 * cd /\ bq \in Int /\ cd \in Int
    BY <1>2, <1>6, <2>1
  <2> HIDE DEF bq, cd
  <2>3. bq + cd >= 2 * n
    BY <2>2
  <2>. QED BY <1>5, <2>3 DEF bq, cd
<1>. QED BY <1>3, <1>4, <1>7

\* A stored amount is left as it is.
LEMMA RoundsMoney == \A p \in Money : RoundMoney(p, 1) = p
  BY DEF Money, RoundMoney, Cent

\* A price that keeps a margin keeps every smaller one; a dearer one does, too.
LEMMA Dearer ==
    ASSUME NEW p \in Nat, NEW q \in Nat, p <= q, NEW h \in Nat, NEW c \in Nat,
           (2 * p + Cent) * h >= c
    PROVE  (2 * q + Cent) * h >= c
<1>1. \A x, y \in Nat : x <= y => x * h <= y * h
  OBVIOUS
<1>2. (2 * p + Cent) * h <= (2 * q + Cent) * h
  BY <1>1 DEF Cent
<1>. QED BY <1>2 DEF Cent

\* What is left of a price after the margin, by which the cost is divided.
LEMMA Heads ==
    ASSUME NEW vat \in Nat, Feasible(vat)
    PROVE  /\ Headroom(vat, Minimum) \in Nat \ {0} /\ Headroom(vat, Target) \in Nat \ {0}
           /\ Headroom(vat, Target) <= Headroom(vat, Minimum)
           /\ Headroom(vat, Minimum) <= 100 * (100 + vat)
  BY DEF Feasible, Headroom, Minimum, Target

Gross(cost, vat) == cost * 100 * (100 + vat)

LEMMA Grosses ==
    ASSUME NEW cost \in Nat, NEW vat \in Nat
    PROVE  /\ Gross(cost, vat) \in Nat
           /\ 2 * cost * 100 * (100 + vat) = 2 * Gross(cost, vat)
           /\ Gross(cost, vat) = cost * (100 * (100 + vat))
  BY DEF Gross

\* The floor and the target price keep the minimum margin up to the half cent of rounding.
LEMMA PricesKeepMargin ==
    ASSUME NEW cost \in Nat, NEW vat \in Nat, Feasible(vat),
           NEW margin \in {Minimum, Target}
    PROVE  /\ PriceForMargin(cost, vat, margin) \in Money
           /\ KeepsUpToRounding(PriceForMargin(cost, vat, margin), cost, vat)
<1> DEFINE p == PriceForMargin(cost, vat, margin)
           h == Headroom(vat, margin)
           H == Headroom(vat, Minimum)
<1>1. h \in Nat \ {0} /\ H \in Nat /\ h <= H /\ Gross(cost, vat) \in Nat
  <2>1. margin = Minimum \/ margin = Target
    OBVIOUS
  <2>2. H \in Nat /\ Headroom(vat, Target) \in Nat /\ Headroom(vat, Target) <= H
    BY Heads
  <2>3. h \in Nat \ {0} /\ h <= H
    BY <2>1, <2>2, Heads
  <2>. QED BY <2>2, <2>3, Grosses
<1>2. p = RoundMoney(Gross(cost, vat), h)
  BY DEF PriceForMargin, Gross
<1>3. p \in Money /\ (2 * p + Cent) * h >= 2 * Gross(cost, vat)
  BY <1>1, <1>2, Rounds
<1>4. p \in Nat
  BY <1>3 DEF Money
<1> HIDE DEF p, h, H
<1>5. (2 * p + Cent) * H >= 2 * Gross(cost, vat)
  <2>1. \A x, y, z \in Nat : y <= z => x * y <= x * z
    OBVIOUS
  <2>2. 2 * p + Cent \in Nat
    BY <1>4 DEF Cent
  <2>3. (2 * p + Cent) * h <= (2 * p + Cent) * H
    BY <1>1, <2>1, <2>2
  <2>4. (2 * p + Cent) * h \in Nat /\ (2 * p + Cent) * H \in Nat
    BY <1>1, <2>2
  <2>. QED BY <1>1, <1>3, <2>3, <2>4
<1>. QED BY <1>3, <1>5, Grosses DEF KeepsUpToRounding, p, H, Headroom

\* A price that keeps the margin up to rounding covers the cost, both being stored amounts.
LEMMA CoversCost ==
    ASSUME NEW price \in Money, NEW cost \in Money, NEW vat \in Nat, Feasible(vat),
           KeepsUpToRounding(price, cost, vat)
    PROVE  price >= cost
<1> DEFINE H == Headroom(vat, Minimum)
           g == 100 * (100 + vat)
<1>1. H \in Nat \ {0} /\ g \in Nat /\ H <= g
  BY Heads
<1>2. price \in Nat /\ cost \in Nat
  BY DEF Money
<1>3. (2 * price + Cent) * H >= 2 * (cost * g)
  BY <1>2, Grosses DEF KeepsUpToRounding, Headroom
<1> HIDE DEF H, g
<1>4. SUFFICES ASSUME price < cost
               PROVE  FALSE
  BY <1>2
<1>5. price + Cent <= cost
  BY <1>2, <1>4 DEF Money, Cent
<1>6. (2 * price + Cent) * H < (2 * cost) * H
  <2>1. 2 * price + Cent < 2 * cost /\ 2 * price + Cent \in Nat
    BY <1>2, <1>5 DEF Cent
  <2>2. \A x, y \in Nat : x < y => x * H < y * H
    BY <1>1
  <2>. QED BY <1>2, <2>1, <2>2
<1>7. cost * H <= cost * g /\ cost * H \in Nat /\ cost * g \in Nat
  BY <1>1, <1>2
<1>8. (2 * cost) * H = 2 * (cost * H)
  BY <1>1, <1>2
<1>9. (2 * price + Cent) * H \in Nat
  BY <1>1, <1>2 DEF Cent
<1>. QED BY <1>3, <1>6, <1>7, <1>8, <1>9

-------------------------------------------------------------------------------
(* The dearest competitor.                                                  *)

LEMMA MaxExists ==
    ASSUME NEW S \in SUBSET Nat, IsFiniteSet(S), S # {}
    PROVE  Max(S) \in S /\ \A y \in S : Max(S) >= y
<1> DEFINE Above(x) == {y \in S : y > x}
           T == {Above(x) : x \in S}
<1>1. T \subseteq FiniteSubsetsOf(S) /\ T # {}
  <2>1. \A x \in S : Above(x) \in SUBSET S
    OBVIOUS
  <2>2. FiniteSubsetsOf(S) = SUBSET S
    BY FS_FiniteSubsetsOfFinite
  <2>3. T \subseteq SUBSET S /\ T # {}
    BY <2>1
  <2>. QED BY <2>2, <2>3
<1>2. PICK U \in T : \A V \in T : ~(<<V, U>> \in StrictSubsetOrdering(S))
  BY <1>1, FS_StrictSubsetOrderingWellFounded, WFMin
<1>3. PICK x \in S : U = Above(x)
  BY <1>2
<1>4. ASSUME NEW y \in S, y > x
      PROVE  FALSE
  <2>1. Above(y) \subseteq U /\ y \in U /\ y \notin Above(y) /\ U \subseteq S
    <3>1. y \in Nat /\ x \in Nat /\ y \in S
      BY <1>3, <1>4
    <3>2. \A z \in S : z > y => z > x
      BY <1>4, <3>1
    <3>3. ~(y > y)
      BY <3>1
    <3>4. Above(y) \subseteq Above(x) /\ Above(x) \subseteq S
      BY <3>2
    <3>5. y \in Above(x) /\ y \notin Above(y)
      BY <1>4, <3>1, <3>3
    <3>. QED BY <1>3, <3>4, <3>5
  <2>2. <<Above(y), U>> \in StrictSubsetOrdering(S)
    BY <2>1 DEF StrictSubsetOrdering
  <2>. QED BY <1>2, <2>2
<1>5. \A y \in S : x >= y
  BY <1>3, <1>4
<1>. QED BY <1>5 DEF Max

\* Whatever the competitors ask, the price that is proposed keeps the margin.
LEMMA NewPricesKeepMargin ==
    ASSUME NEW r \in Row, NEW market \in SUBSET Money, IsFiniteSet(market),
           NEW p \in NewPrices(r, market)
    PROVE  /\ p \in Money /\ p # r.price
           /\ r.cost # None /\ KeepsUpToRounding(p, r.cost, r.vat) /\ p >= r.cost
<1> DEFINE floor == PriceForMargin(r.cost, r.vat, Minimum)
           target == PriceForMargin(r.cost, r.vat, Target)
           top == Max(market)
           dearer == Max({floor, top})
<1>1. /\ r.cost # None /\ Feasible(r.vat) /\ r.cost \in Money /\ r.vat \in Nat
      /\ p # r.price /\ p = Recommended(r.cost, r.vat, market)
  BY DEF NewPrices, Row
<1>2. r.cost \in Nat
  BY <1>1 DEF Money
<1>3. /\ floor \in Money /\ KeepsUpToRounding(floor, r.cost, r.vat)
      /\ target \in Money /\ KeepsUpToRounding(target, r.cost, r.vat)
  BY <1>1, <1>2, PricesKeepMargin
<1>4. p = target \/ (market # {} /\ p = dearer)
  BY <1>1 DEF Recommended
<1> HIDE DEF floor, target, top, dearer
<1>5. p \in Money /\ KeepsUpToRounding(p, r.cost, r.vat)
  <2>1. CASE p = target
    BY <1>3, <2>1
  <2>2. CASE market # {} /\ p = dearer
    <3>1. market \in SUBSET Nat
      BY DEF Money
    <3>2. top \in market
      BY <2>2, <3>1, MaxExists DEF top
    <3>3. {floor, top} \in SUBSET Money /\ {floor, top} \in SUBSET Nat /\ {floor, top} # {}
      BY <1>3, <3>2 DEF Money
    <3>4. IsFiniteSet({floor, top})
      <4>1. IsFiniteSet({floor})
        BY FS_Singleton
      <4>2. {floor, top} = {floor} \cup {top}
        OBVIOUS
      <4>. QED BY <4>1, <4>2, FS_AddElement
    <3>5. dearer \in {floor, top} /\ dearer >= floor
      BY <3>3, <3>4, MaxExists DEF dearer
    <3>6. dearer \in Nat /\ floor \in Nat /\ dearer \in Money
      BY <3>3, <3>5
    <3>7. KeepsUpToRounding(dearer, r.cost, r.vat)
      <4> DEFINE H == Headroom(r.vat, Minimum)
                 c == 2 * r.cost * 100 * (100 + r.vat)
      <4>1. H \in Nat /\ c \in Nat
        BY <1>1, <1>2, Heads
      <4>2. (2 * floor + Cent) * H >= c
        BY <1>3 DEF KeepsUpToRounding, Headroom
      <4> HIDE DEF H, c
      <4>3. (2 * dearer + Cent) * H >= c
        BY <3>5, <3>6, <4>1, <4>2, Dearer
      <4>. QED BY <4>3 DEF KeepsUpToRounding, Headroom, H, c
    <3>. QED BY <2>2, <3>6, <3>7
  <2>. QED BY <1>4, <2>1, <2>2
<1>. QED BY <1>1, <1>5, CoversCost

LEMMA MarketFits == ASSUME TypeOK PROVE Market \in SUBSET Money /\ IsFiniteSet(Market)
<1>1. Market \in SUBSET Observable
  BY DEF Market, TypeOK
<1>. QED BY <1>1, ProposalsAssumption, FS_Subset

-------------------------------------------------------------------------------
(* The steps.                                                               *)

\* An UPDATE leaves the columns alone that its handler did not change.
LEMMA Writes ==
    ASSUME row \in Row, NEW copy \in Row, NEW new \in Row
    PROVE  LET r == Written(copy, new)
           IN /\ r \in Row
              /\ r.cost = IF new.cost # copy.cost THEN new.cost ELSE row.cost
              /\ r.vat = IF new.vat # copy.vat THEN new.vat ELSE row.vat
              /\ r.price = IF new.price # copy.price THEN new.price ELSE row.price
              /\ r.ean = IF new.ean # copy.ean THEN new.ean ELSE row.ean
              /\ r.extra = IF new.extra # copy.extra THEN new.extra ELSE row.extra
<1>1. DOMAIN row = {"cost", "vat", "price", "ean", "extra"}
  BY DEF Row
<1>2. Written(copy, new) =
        [cost |-> IF new.cost # copy.cost THEN new.cost ELSE row.cost,
         vat |-> IF new.vat # copy.vat THEN new.vat ELSE row.vat,
         price |-> IF new.price # copy.price THEN new.price ELSE row.price,
         ean |-> IF new.ean # copy.ean THEN new.ean ELSE row.ean,
         extra |-> IF new.extra # copy.extra THEN new.extra ELSE row.extra]
  BY <1>1 DEF Written
<1>. QED BY <1>2 DEF Row

LEMMA TaskShape ==
    ASSUME TypeOK, NEW i \in Workers
    PROVE  /\ w[i] = Idle \/ w[i] \in Tasks
           /\ w[i] \in Tasks => w[i] # Idle /\ w[i].pc # "idle"
           /\ w[i].pc \in {"prices", "writes", "executes"} =>
                 w[i] # Idle /\ w[i].copy \in Row /\ w[i].copy # None
           /\ w[i].pc = "executes" => w[i].rec \in DOMAIN recs
           /\ w[i].pc = "syncs" =>
                 w[i] # Idle /\ w[i].copy \in Row \cup {None} /\ w[i].listing \in Listings
  BY ProposalsAssumption DEF TypeOK, Tasks, Idle

\* No transaction changes a product's cost or rate, forgets its ean, or removes it.
Steady ==
    row # None => /\ row' # None
                  /\ row'.cost = row.cost /\ row'.vat = row.vat
                  /\ row.ean => row'.ean

LEMMA SteadyKeeps ==
    ASSUME Steady
    PROVE  /\ \A copy : Current(copy) => Current(copy)'
           /\ \A rec : RecOk(rec) => RecOk(rec)'
           /\ \A specs : row # None /\ ContentOk(specs) => ContentOk(specs)'
  BY DEF Steady, Current, RecOk, PriceOk, ContentOk, KnownSpecs

\* What a step has to show of the tasks and the recommendations it touches.
TasksKept ==
    \A i \in Workers :
        \/ w'[i] = w[i] \/ w'[i] = Idle \/ w'[i].copy = None
        \/ \E copy : w'[i].copy = copy /\ Current(copy)'

RecsKept ==
    \A r \in DOMAIN recs' :
        \/ /\ r \in DOMAIN recs
           /\ recs'[r].kind = recs[r].kind /\ recs'[r].value = recs[r].value
        \/ \E rec : recs'[r] = rec /\ RecOk(rec)'

LEMMA Carries ==
    ASSUME ProposalsInv, TypeOK', Steady, TasksKept, RecsKept, ExecutesAlone', ExtraOk'
    PROVE  ProposalsInv'
<1>1. CopiesCurrent'
  <2>1. ASSUME NEW i \in Workers, w'[i] # Idle, w'[i].copy # None
        PROVE  \E copy : w'[i].copy = copy /\ Current(copy)'
    BY <2>1, SteadyKeeps DEF TasksKept, ProposalsInv, CopiesCurrent
  <2>. QED BY <2>1 DEF CopiesCurrent, Current
<1>2. \A r \in DOMAIN recs' : RecOk(recs[r])'
  <2>1. ASSUME NEW r \in DOMAIN recs'
        PROVE  \E rec : rec.kind = recs'[r].kind /\ rec.value = recs'[r].value /\ RecOk(rec)'
    BY <2>1, SteadyKeeps DEF RecsKept, ProposalsInv
  <2>. QED BY <2>1 DEF RecOk
<1>. QED BY <1>1, <1>2 DEF ProposalsInv

\* An approval that is executing stays so, and nobody else takes it up.
LEMMA AloneKept ==
    ASSUME ProposalsInv, TypeOK',
           \A r \in DOMAIN recs : recs[r].status = "executing" =>
               r \in DOMAIN recs' /\ recs'[r].status = "executing",
           \A i \in Workers : w'[i].pc = "executes" => w'[i] = w[i]
    PROVE  ExecutesAlone'
  BY TaskShape DEF ProposalsInv, ExecutesAlone

LEMMA TasksGrow ==
    ASSUME DOMAIN recs \subseteq DOMAIN recs'
    PROVE  Tasks \subseteq Tasks'
  BY DEF Tasks

LEMMA StartsStep ==
    ASSUME ProposalsInv, NEW i \in Workers, NEW pc \in {"prices", "writes"},
           NEW kind, Starts(i, kind, pc)
    PROVE  ProposalsInv'
<1> USE DEF Starts
<1> DEFINE t == [pc |-> pc, copy |-> row]
<1>1. row \in Row /\ row # None
  BY DEF ProposalsInv, TypeOK
<1>2. t \in Tasks /\ t.copy = row /\ t.pc = pc
  BY <1>1 DEF Tasks
<1> HIDE DEF t
<1>3. w' = [w EXCEPT ![i] = t]
  BY DEF t
<1>4. TypeOK'
  BY <1>2, <1>3, TasksGrow DEF ProposalsInv, TypeOK
<1>5. Steady /\ RecsKept
  BY DEF Steady, RecsKept
<1>6. TasksKept
  BY <1>1, <1>2, <1>3 DEF TasksKept, Current, ProposalsInv, TypeOK
<1>7. ExecutesAlone'
  BY <1>2, <1>3, <1>4, AloneKept DEF ProposalsInv, TypeOK
<1>8. ExtraOk'
  BY DEF ProposalsInv, ExtraOk, ContentOk, KnownSpecs
<1>. QED BY <1>4, <1>5, <1>6, <1>7, <1>8, Carries

LEMMA OthersSteps ==
    ASSUME ProposalsInv,
           \/ \E p \in Observable, day \in 0 .. today : Observes(p, day)
           \/ \E s \in Listings : Edits(s)
           \/ Tomorrow
           \/ UNCHANGED vars
    PROVE  ProposalsInv'
<1>1. UNCHANGED <<row, recs, w>>
  BY DEF Observes, Edits, Tomorrow, vars
<1>2. TypeOK'
  <2>1. Tasks' = Tasks
    BY <1>1 DEF Tasks
  <2>2. \A x \in 0 .. today : x \in 0 .. LastDay
    BY ProposalsAssumption DEF ProposalsInv, TypeOK
  <2>3. writes' \in 0 .. MaxWrites /\ today' \in 0 .. LastDay
    BY ProposalsAssumption
    DEF ProposalsInv, TypeOK, Observes, Edits, Tomorrow, Spends, vars
  <2>4. seen' \subseteq [price : Observable, day : 0 .. LastDay] /\ shop' \in Listings
    BY <2>2 DEF ProposalsInv, TypeOK, Observes, Edits, Tomorrow, vars
  <2>. QED BY <1>1, <2>1, <2>3, <2>4 DEF ProposalsInv, TypeOK
<1>3. Steady /\ RecsKept /\ TasksKept
  BY <1>1 DEF Steady, RecsKept, TasksKept
<1>4. ExecutesAlone' /\ ExtraOk'
  BY <1>1 DEF ProposalsInv, ExecutesAlone, ExtraOk, ContentOk, KnownSpecs
<1>. QED BY <1>2, <1>3, <1>4, Carries

LEMMA CreatesStep ==
    ASSUME ProposalsInv, NEW e \in Entries, Creates(e)
    PROVE  ProposalsInv'
<1> USE DEF Creates
<1>1. row' \in Row /\ row'.extra = None
  BY ProposalsAssumption DEF Row
<1>2. TypeOK'
  <2>1. Tasks' = Tasks
    BY DEF Tasks
  <2>2. writes' \in 0 .. MaxWrites
    BY ProposalsAssumption DEF ProposalsInv, TypeOK, Spends
  <2>. QED BY <1>1, <2>1, <2>2 DEF ProposalsInv, TypeOK
<1>3. Steady /\ RecsKept /\ TasksKept /\ ExtraOk'
  BY <1>1 DEF Steady, RecsKept, TasksKept, ExtraOk
<1>4. ExecutesAlone'
  BY DEF ProposalsInv, ExecutesAlone
<1>. QED BY <1>2, <1>3, <1>4, Carries

LEMMA RejectsStep ==
    ASSUME ProposalsInv, NEW r \in DOMAIN recs, Rejects(r)
    PROVE  ProposalsInv'
<1> USE DEF Rejects
<1>1. recs \in Seq(Recs) /\ recs[r] \in Recs
  BY DEF ProposalsInv, TypeOK
<1> DEFINE rec == [recs[r] EXCEPT !.status = "rejected"]
<1>2. rec \in Recs /\ rec.kind = recs[r].kind /\ rec.value = recs[r].value
  BY <1>1 DEF Recs, Statuses
<1> HIDE DEF rec
<1>3. recs' = [recs EXCEPT ![r] = rec]
  BY DEF rec
<1>4. recs' \in Seq(Recs) /\ DOMAIN recs' = DOMAIN recs
  BY <1>1, <1>2, <1>3
<1>5. TypeOK'
  BY <1>4, TasksGrow DEF ProposalsInv, TypeOK
<1>6. Steady /\ RecsKept /\ TasksKept
  BY <1>2, <1>3, <1>4 DEF Steady, RecsKept, TasksKept
<1>7. ExecutesAlone'
  BY <1>3, <1>4, <1>5, AloneKept
<1>8. ExtraOk'
  BY DEF ProposalsInv, ExtraOk, ContentOk, KnownSpecs
<1>. QED BY <1>5, <1>6, <1>7, <1>8, Carries

LEMMA ApprovesStep ==
    ASSUME ProposalsInv, NEW i \in Workers, NEW r \in DOMAIN recs, Approves(i, r)
    PROVE  ProposalsInv'
<1> USE DEF Approves
<1>1. recs \in Seq(Recs) /\ recs[r] \in Recs /\ row \in Row /\ row # None
  BY DEF ProposalsInv, TypeOK, RecOk
<1> DEFINE rec == [recs[r] EXCEPT !.status = "executing"]
           t == [pc |-> "executes", rec |-> r, copy |-> row]
<1>2. /\ rec \in Recs /\ rec.kind = recs[r].kind /\ rec.value = recs[r].value
      /\ rec.status = "executing"
  BY <1>1 DEF Recs, Statuses
<1>3. t \in Tasks /\ t.copy = row /\ t.pc = "executes" /\ t.rec = r
  BY <1>1 DEF Tasks
<1> HIDE DEF rec, t
<1>4. recs' = [recs EXCEPT ![r] = rec] /\ w' = [w EXCEPT ![i] = t]
  BY DEF rec, t
<1>5. recs' \in Seq(Recs) /\ DOMAIN recs' = DOMAIN recs
  BY <1>1, <1>2, <1>4
<1>6. TypeOK'
  BY <1>3, <1>4, <1>5, TasksGrow DEF ProposalsInv, TypeOK
<1>7. Steady /\ RecsKept
  BY <1>2, <1>4, <1>5 DEF Steady, RecsKept
<1>8. TasksKept
  BY <1>1, <1>3, <1>4 DEF TasksKept, Current, ProposalsInv, TypeOK
<1>9. ExecutesAlone'
  <2>1. \A j \in Workers : w[j].pc = "executes" => w[j].rec # r /\ w[j].rec \in DOMAIN recs
    BY TaskShape DEF ProposalsInv, ExecutesAlone
  <2>2. \A j \in Workers : j # i => w'[j] = w[j]
    BY <1>4 DEF ProposalsInv, TypeOK
  <2>3. w'[i] = t
    BY <1>4 DEF ProposalsInv, TypeOK
  <2>4. \A q \in DOMAIN recs : q # r => recs'[q] = recs[q]
    BY <1>1, <1>4
  <2>5. recs'[r] = rec
    BY <1>1, <1>4
  <2>. QED BY <1>2, <1>3, <2>1, <2>2, <2>3, <2>4, <2>5 DEF ProposalsInv, ExecutesAlone
<1>10. ExtraOk'
  BY DEF ProposalsInv, ExtraOk, ContentOk, KnownSpecs
<1>. QED BY <1>6, <1>7, <1>8, <1>9, <1>10, Carries

LEMMA EndsTask ==
    ASSUME ProposalsInv, NEW i \in Workers, w' = [w EXCEPT ![i] = Idle],
           DOMAIN recs \subseteq DOMAIN recs'
    PROVE  /\ w' \in [Workers -> Tasks' \cup {Idle}] /\ TasksKept
           /\ \A j \in Workers : w'[j].pc = "executes" => w'[j] = w[j] /\ j # i
  BY TasksGrow DEF ProposalsInv, TypeOK, TasksKept, Idle

LEMMA DiesStep ==
    ASSUME ProposalsInv, NEW i \in Workers, Dies(i)
    PROVE  ProposalsInv'
<1> USE DEF Dies
<1>1. TypeOK' /\ TasksKept
  BY EndsTask DEF ProposalsInv, TypeOK
<1>2. Steady /\ RecsKept /\ ExtraOk'
  BY DEF Steady, RecsKept, ProposalsInv, ExtraOk, ContentOk, KnownSpecs
<1>3. ExecutesAlone'
  BY <1>1, EndsTask, AloneKept
<1>. QED BY <1>1, <1>2, <1>3, Carries

\* A recommendation that a task appends.
LEMMA ProposesRec ==
    ASSUME ProposalsInv, NEW i \in Workers, w' = [w EXCEPT ![i] = Idle],
           UNCHANGED <<row, shop, seen, today, writes>>,
           NEW rec \in Recs, RecOk(rec), recs' = Append(recs, rec)
    PROVE  ProposalsInv'
<1>1. recs \in Seq(Recs) /\ DOMAIN recs = 1 .. Len(recs) /\ Len(recs) \in Nat
  BY DEF ProposalsInv, TypeOK
<1>2. /\ recs' \in Seq(Recs) /\ DOMAIN recs' = 1 .. Len(recs) + 1
      /\ recs'[Len(recs) + 1] = rec
      /\ \A r \in 1 .. Len(recs) : recs'[r] = recs[r]
  BY <1>1
<1>3. TypeOK' /\ TasksKept
  <2>1. DOMAIN recs \subseteq DOMAIN recs'
    BY <1>1, <1>2
  <2>2. w' \in [Workers -> Tasks' \cup {Idle}] /\ TasksKept
    BY <2>1, EndsTask
  <2>. QED BY <1>2, <2>2 DEF ProposalsInv, TypeOK
<1>4. RecOk(rec)' /\ Steady /\ ExtraOk'
  BY DEF ProposalsInv, RecOk, PriceOk, ContentOk, KnownSpecs, Steady, ExtraOk
<1>5. RecsKept
  <2>1. ASSUME NEW r \in DOMAIN recs'
        PROVE  r \in DOMAIN recs \/ r = Len(recs) + 1
    BY <1>1, <1>2, <2>1
  <2>. QED BY <1>1, <1>2, <1>4, <2>1 DEF RecsKept
<1>6. ExecutesAlone'
  <2>1. DOMAIN recs \subseteq DOMAIN recs' /\ \A r \in DOMAIN recs : recs'[r] = recs[r]
    BY <1>1, <1>2
  <2>2. \A j \in Workers : w'[j].pc = "executes" => w'[j] = w[j]
    BY <2>1, EndsTask
  <2>. QED BY <1>3, <2>1, <2>2, AloneKept
<1>. QED BY <1>3, <1>4, <1>5, <1>6, Carries

LEMMA ProposesStep ==
    ASSUME ProposalsInv, NEW i \in Workers, ProposesPrice(i) \/ ProposesContent(i)
    PROVE  ProposalsInv'
<1> DEFINE copy == w[i].copy
<1>1. /\ w' = [w EXCEPT ![i] = Idle] /\ UNCHANGED <<row, shop, seen, today, writes>>
      /\ w[i].pc \in {"prices", "writes"}
  BY DEF ProposesPrice, ProposesContent
<1>2. copy \in Row /\ Current(copy)
  BY <1>1, TaskShape DEF ProposalsInv, CopiesCurrent
<1>3. CASE UNCHANGED recs
  <2>1. TypeOK' /\ TasksKept
    BY <1>1, <1>3, EndsTask DEF ProposalsInv, TypeOK
  <2>2. Steady /\ RecsKept /\ ExtraOk'
    BY <1>1, <1>3 DEF Steady, RecsKept, ProposalsInv, ExtraOk, ContentOk, KnownSpecs
  <2>3. ExecutesAlone'
    BY <1>1, <1>3, <2>1, EndsTask, AloneKept
  <2>. QED BY <2>1, <2>2, <2>3, Carries
<1>4. ASSUME NEW p \in NewPrices(copy, Market), Proposes("price", p)
      PROVE  ProposalsInv'
  <2> DEFINE rec == [kind |-> "price", value |-> p, status |-> "pending"]
  <2>1. /\ p \in Money /\ copy.cost # None
        /\ KeepsUpToRounding(p, copy.cost, copy.vat) /\ p >= copy.cost
    BY <1>2, MarketFits, NewPricesKeepMargin DEF ProposalsInv
  <2>2. rec \in Recs
    BY <2>1 DEF Recs, Statuses
  <2>3. RecOk(rec)
    BY <1>2, <2>1 DEF RecOk, PriceOk, Current
  <2>4. recs' = Append(recs, rec)
    BY <1>4 DEF Proposes
  <2> HIDE DEF rec
  <2>. QED BY <1>1, <2>2, <2>3, <2>4, ProposesRec
<1>5. ASSUME NEW said \in Answers, Proposes("content", Stated(copy, said))
      PROVE  ProposalsInv'
  <2> DEFINE rec == [kind |-> "content", value |-> Stated(copy, said), status |-> "pending"]
  <2>1. Stated(copy, said) \in SUBSET AnyField
    BY ProposalsAssumption DEF Stated
  <2>2. rec \in Recs
    BY <2>1 DEF Recs, Statuses
  <2>3. RecOk(rec)
    BY <1>2 DEF RecOk, ContentOk, Current, Stated, KnownSpecs
  <2>4. recs' = Append(recs, rec)
    BY <1>5 DEF Proposes
  <2> HIDE DEF rec
  <2>. QED BY <1>1, <2>2, <2>3, <2>4, ProposesRec
<1>. QED BY <1>3, <1>4, <1>5 DEF ProposesPrice, ProposesContent

LEMMA ExecutesStep ==
    ASSUME ProposalsInv, NEW i \in Workers, Executes(i)
    PROVE  ProposalsInv'
<1> DEFINE copy == w[i].copy
           r == w[i].rec
           rec == [recs[r] EXCEPT !.status = "success"]
           new == Result(copy, recs[r])
<1> USE DEF Executes
<1>1. /\ copy \in Row /\ Current(copy) /\ r \in DOMAIN recs
      /\ w' = [w EXCEPT ![i] = Idle] /\ row' = Written(copy, new)
      /\ row \in Row /\ row # None
  BY TaskShape DEF ProposalsInv, CopiesCurrent, Current, TypeOK
<1>2. recs \in Seq(Recs) /\ recs[r] \in Recs /\ RecOk(recs[r])
  BY <1>1 DEF ProposalsInv, TypeOK
<1>3. rec \in Recs /\ rec.kind = recs[r].kind /\ rec.value = recs[r].value
  BY <1>2 DEF Recs, Statuses
<1>4. recs' = [recs EXCEPT ![r] = rec]
  OBVIOUS
<1>5. recs' \in Seq(Recs) /\ DOMAIN recs' = DOMAIN recs
  <2> HIDE DEF rec, r, Executes
  <2>. QED BY <1>1, <1>2, <1>3, <1>4
<1> HIDE DEF rec
<1>6. /\ new \in Row /\ new.cost = copy.cost /\ new.vat = copy.vat /\ new.ean = copy.ean
      /\ new.extra = IF recs[r].kind = "content" THEN recs[r].value ELSE copy.extra
  <2>1. CASE recs[r].kind = "price"
    <3>1. recs[r].value \in Money
      BY <1>2, <2>1 DEF Recs
    <3>. QED BY <1>1, <2>1, <3>1, RoundsMoney DEF Result, Row
  <2>2. CASE recs[r].kind = "content"
    <3>1. recs[r].value \in SUBSET AnyField
      BY <1>2, <2>2 DEF Recs
    <3>. QED BY <1>1, <2>2, <3>1 DEF Result, Row
  <2>. QED BY <1>2, <2>1, <2>2 DEF Recs
<1> HIDE DEF new, copy
<1>7. /\ row' \in Row
      /\ row'.cost = row.cost /\ row'.vat = row.vat /\ row'.ean = row.ean
      /\ \/ row'.extra = row.extra
         \/ recs[r].kind = "content" /\ row'.extra = recs[r].value
  <2> HIDE DEF Executes, r
  <2>1. /\ row' \in Row
        /\ row'.cost = IF new.cost # copy.cost THEN new.cost ELSE row.cost
        /\ row'.vat = IF new.vat # copy.vat THEN new.vat ELSE row.vat
        /\ row'.ean = IF new.ean # copy.ean THEN new.ean ELSE row.ean
        /\ row'.extra = IF new.extra # copy.extra THEN new.extra ELSE row.extra
    BY <1>1, <1>6, Writes
  <2>. QED BY <1>6, <2>1
<1>8. TypeOK' /\ TasksKept
  BY <1>1, <1>5, <1>7, EndsTask DEF ProposalsInv, TypeOK
<1>9. Steady
  BY <1>7, ProposalsAssumption DEF Steady
<1>10. RecsKept
  BY <1>3, <1>4, <1>5 DEF RecsKept
<1>11. ExtraOk'
  BY <1>1, <1>2, <1>7 DEF ProposalsInv, ExtraOk, ContentOk, RecOk, KnownSpecs
<1>12. ExecutesAlone'
  <2>1. \A j \in Workers : w'[j].pc = "executes" => w'[j] = w[j] /\ j # i
    BY <1>1, <1>5, EndsTask
  <2>2. \A j \in Workers : w[j].pc = "executes" /\ j # i => w[j].rec # r
    BY DEF ProposalsInv, ExecutesAlone
  <2>3. \A q \in DOMAIN recs : q # r => recs'[q] = recs[q]
    BY <1>2, <1>4
  <2>. QED BY <2>1, <2>2, <2>3, TaskShape DEF ProposalsInv, ExecutesAlone
<1>. QED BY <1>8, <1>9, <1>10, <1>11, <1>12, Carries

LEMMA SyncLoadsStep ==
    ASSUME ProposalsInv, NEW i \in Workers, SyncLoads(i)
    PROVE  ProposalsInv'
<1> USE DEF SyncLoads
<1> DEFINE t == [pc |-> "syncs", copy |-> row, listing |-> shop]
<1>1. t \in Tasks /\ t.copy = row /\ t.pc = "syncs"
  BY DEF ProposalsInv, TypeOK, Tasks
<1> HIDE DEF t
<1>2. w' = [w EXCEPT ![i] = t]
  BY DEF t
<1>3. TypeOK'
  BY <1>1, <1>2, TasksGrow DEF ProposalsInv, TypeOK
<1>4. Steady /\ RecsKept /\ ExtraOk'
  BY DEF Steady, RecsKept, ProposalsInv, ExtraOk, ContentOk, KnownSpecs
<1>5. TasksKept
  <2>1. CASE row = None
    BY <1>1, <1>2, <2>1 DEF TasksKept, ProposalsInv, TypeOK
  <2>2. CASE row # None
    BY <1>1, <1>2, <2>2 DEF TasksKept, Current, ProposalsInv, TypeOK
  <2>. QED BY <2>1, <2>2
<1>6. ExecutesAlone'
  BY <1>1, <1>2, <1>3, AloneKept DEF ProposalsInv, TypeOK
<1>. QED BY <1>3, <1>4, <1>5, <1>6, Carries

\* A sync leaves cost, rate and content as they are, and an ean that is known.
LEMMA SyncWritesStep ==
    ASSUME ProposalsInv, NEW i \in Workers, SyncWrites(i)
    PROVE  ProposalsInv'
<1> DEFINE copy == w[i].copy
           l == w[i].listing
           new == [copy EXCEPT !.price = l.price, !.ean = @ \/ l.ean]
<1>1. /\ copy \in Row \cup {None} /\ l \in Listings
      /\ copy # None => Current(copy)
      /\ w' = [w EXCEPT ![i] = Idle] /\ UNCHANGED <<shop, seen, today, recs, writes>>
  BY TaskShape DEF SyncWrites, ProposalsInv, CopiesCurrent
<1>2. l.price \in Money /\ l.ean \in BOOLEAN
  BY <1>1, ProposalsAssumption DEF Listings
<1>3. /\ row' \in Row \cup {None} /\ Steady
      /\ (row' # None /\ row'.extra # None) => (row # None /\ row'.extra = row.extra)
  <2>1. CASE copy = None /\ row = None /\ row' = [cost |-> None, vat |-> 0,
                price |-> l.price, ean |-> FALSE, extra |-> None]
    BY <1>2, <2>1 DEF Row, Steady
  <2>2. CASE UNCHANGED row
    BY <2>2 DEF ProposalsInv, TypeOK, Steady
  <2>3. CASE copy # None /\ row' = Written(copy, new)
    <3>1. copy \in Row /\ Current(copy) /\ row \in Row /\ row # None
      BY <1>1, <2>3 DEF Current, ProposalsInv, TypeOK
    <3>2. /\ new \in Row /\ new.cost = copy.cost /\ new.vat = copy.vat
          /\ new.extra = copy.extra /\ (copy.ean => new.ean)
      BY <1>2, <3>1 DEF Row
    <3>3. copy.ean \in BOOLEAN /\ new.ean \in BOOLEAN /\ row.ean \in BOOLEAN
      BY <3>1, <3>2 DEF Row
    <3> HIDE DEF new, copy
    <3>4. /\ row' \in Row /\ row'.cost = row.cost /\ row'.vat = row.vat
          /\ row'.extra = row.extra
          /\ row'.ean = IF new.ean # copy.ean THEN new.ean ELSE row.ean
      BY <2>3, <3>1, <3>2, Writes
    <3>5. row' # None
      BY <3>4, ProposalsAssumption
    <3>6. row.ean => row'.ean
      BY <3>2, <3>3, <3>4
    <3>. QED BY <3>1, <3>4, <3>5, <3>6 DEF Steady
  <2>. QED BY <2>1, <2>2, <2>3 DEF SyncWrites
<1>4. TypeOK' /\ TasksKept
  <2>1. DOMAIN recs \subseteq DOMAIN recs'
    BY <1>1
  <2>. QED BY <1>1, <1>3, <2>1, EndsTask DEF ProposalsInv, TypeOK
<1>5. RecsKept
  BY <1>1 DEF RecsKept
<1>6. ExtraOk'
  BY <1>3 DEF Steady, ProposalsInv, ExtraOk, ContentOk, KnownSpecs
<1>7. ExecutesAlone'
  <2>1. DOMAIN recs \subseteq DOMAIN recs'
    BY <1>1
  <2>2. \A j \in Workers : w'[j].pc = "executes" => w'[j] = w[j]
    BY <1>1, <2>1, EndsTask
  <2>. QED BY <1>1, <1>4, <2>2, AloneKept
<1>. QED BY <1>3, <1>4, <1>5, <1>6, <1>7, Carries

LEMMA ProposalsInit == Init => ProposalsInv
  BY ProposalsAssumption
  DEF Init, ProposalsInv, TypeOK, CopiesCurrent, ExecutesAlone, ExtraOk, Idle

LEMMA ProposalsStep == ProposalsInv /\ [Next]_vars => ProposalsInv'
<1> SUFFICES ASSUME ProposalsInv, [Next]_vars
             PROVE  ProposalsInv'
  OBVIOUS
<1>1. ASSUME NEW i \in Workers, LoadsOffer(i) \/ LoadsProduct(i)
      PROVE  ProposalsInv'
  BY <1>1, StartsStep DEF LoadsOffer, LoadsProduct
<1>. QED BY <1>1, OthersSteps, CreatesStep, RejectsStep, ApprovesStep, DiesStep,
            ProposesStep, ExecutesStep, SyncLoadsStep, SyncWritesStep DEF Next

\* What the agents' recommendations and their tasks may rely on, whatever merchant,
\* marketplace and competitors do in between.
THEOREM ProposalsInvariant == Spec => []ProposalsInv
  BY ProposalsInit, ProposalsStep, PTL DEF Spec

\* compute_price_bounds: no approval, however late, brings a price more than half a cent
\* below the one with the minimum margin, or below the cost.
THEOREM FloorProtected == Spec => []FloorUpToRounding
<1>1. ProposalsInv => FloorUpToRounding
  <2> SUFFICES ASSUME ProposalsInv, NEW r \in DOMAIN recs, recs[r].kind = "price"
               PROVE  /\ row.cost # None
                      /\ KeepsUpToRounding(recs[r].value, row.cost, row.vat)
                      /\ ~BelowCost(recs[r].value, row.cost)
    BY DEF FloorUpToRounding
  <2>1. row # None /\ PriceOk(recs[r].value)
    BY DEF ProposalsInv, RecOk
  <2>2. recs[r].value \in Nat /\ row.cost \in Nat
    BY <2>1 DEF ProposalsInv, TypeOK, Recs, Row, Money, PriceOk
  <2>. QED BY <2>1, <2>2 DEF PriceOk, BelowCost
<1>. QED BY <1>1, ProposalsInvariant, PTL

\* apply_anti_hallucination: no round of proposals and approvals makes a product claim
\* a specification the catalog has no data for.
THEOREM SpecsNotInvented == Spec => []NothingInvented
<1>1. ProposalsInv => NothingInvented
  BY DEF ProposalsInv, ExtraOk, ContentOk, KnownSpecs, NothingInvented
<1>. QED BY <1>1, ProposalsInvariant, PTL

\* A task goes on by a step of its own.
LEMMA OwnStep ==
    ASSUME ProposalsInv, [Next]_vars, NEW i \in Workers, w'[i] # w[i]
    PROVE  \/ LoadsOffer(i) \/ LoadsProduct(i) \/ ProposesPrice(i) \/ ProposesContent(i)
           \/ Executes(i) \/ SyncLoads(i) \/ SyncWrites(i) \/ Dies(i)
           \/ \E r \in DOMAIN recs : Approves(i, r)
<1>1. ASSUME NEW j \in Workers, j # i,
             \/ LoadsOffer(j) \/ LoadsProduct(j) \/ ProposesPrice(j) \/ ProposesContent(j)
             \/ Executes(j) \/ SyncLoads(j) \/ SyncWrites(j) \/ Dies(j)
             \/ \E r \in DOMAIN recs : Approves(j, r)
      PROVE  FALSE
  <2>1. \E t : w' = [w EXCEPT ![j] = t]
    BY <1>1 DEF LoadsOffer, LoadsProduct, Starts, ProposesPrice, ProposesContent, Executes,
                SyncLoads, SyncWrites, Dies, Approves
  <2>. QED BY <1>1, <2>1 DEF ProposalsInv, TypeOK
<1>2. w' # w
  OBVIOUS
<1>. QED BY <1>1, <1>2 DEF Next, vars, Rejects, Creates, Observes, Edits, Tomorrow

\* build_pricing_proposal: what is proposed is not what the offer already costs.
THEOREM ProposalsMove == Spec => ProposalsChange
<1>1. ASSUME ProposalsInv, [Next]_vars, NEW i \in Workers,
             w[i].pc = "prices", Len(recs') > Len(recs), w'[i] # w[i]
      PROVE  RoundMoney(recs'[Len(recs')].value, 1) # w[i].copy.price
  <2>1. recs \in Seq(Recs) /\ Len(recs) \in Nat
    BY <1>1 DEF ProposalsInv, TypeOK
  <2>2. ProposesPrice(i)
    <3>1. ~Dies(i)
      BY <1>1, <2>1 DEF Dies
    <3>2. w[i] # Idle
      BY <1>1 DEF Idle
    <3>. QED BY <1>1, <3>1, <3>2, OwnStep
         DEF LoadsOffer, LoadsProduct, Starts, ProposesContent, Executes,
             SyncLoads, SyncWrites, Approves
  <2>3. PICK p \in NewPrices(w[i].copy, Market) : Proposes("price", p)
    BY <1>1, <2>1, <2>2 DEF ProposesPrice
  <2>4. p \in Money /\ p # w[i].copy.price
    BY <1>1, MarketFits, TaskShape, NewPricesKeepMargin DEF ProposalsInv
  <2>5. recs'[Len(recs')].value = p
    BY <2>1, <2>3 DEF Proposes
  <2>. QED BY <2>4, <2>5, RoundsMoney
<1>2. ProposalsInv /\ [Next]_vars =>
        [\A i \in Workers :
          w[i].pc = "prices" /\ Len(recs') > Len(recs) /\ w'[i] # w[i] =>
              RoundMoney(recs'[Len(recs')].value, 1) # w[i].copy.price]_vars
  BY <1>1
<1>. QED BY <1>2, ProposalsInvariant, PTL DEF Spec, ProposalsChange

\* update_price_handler: an approval that succeeds has written its price, or found it.
THEOREM SuccessWritten == Spec => SuccessIsWritten
<1>1. ASSUME ProposalsInv, [Next]_vars, NEW i \in Workers,
             w[i].pc = "executes", recs[w[i].rec].kind = "price",
             recs'[w[i].rec].status = "success"
      PROVE  row'.price = recs[w[i].rec].value \/ w[i].copy.price = recs[w[i].rec].value
  <2> DEFINE r == w[i].rec
             copy == w[i].copy
             new == Result(copy, recs[r])
  <2>1. /\ r \in DOMAIN recs /\ recs[r].status = "executing" /\ copy \in Row
        /\ recs \in Seq(Recs) /\ recs[r] \in Recs /\ row \in Row
    BY <1>1, TaskShape DEF ProposalsInv, ExecutesAlone, TypeOK, CopiesCurrent, Current
  <2>2. Executes(i)
    <3>1. ASSUME NEW j \in Workers, Executes(j), j # i
          PROVE  FALSE
      <4>1. w[j].rec # r
        BY <1>1, <3>1 DEF ProposalsInv, ExecutesAlone, Executes
      <4>. QED BY <1>1, <2>1, <3>1, <4>1 DEF Executes
    <3>2. ASSUME NEW q \in DOMAIN recs, NEW rec, recs' = [recs EXCEPT ![q].status = rec],
                 rec # "success"
          PROVE  FALSE
      BY <1>1, <2>1, <3>2
    <3>3. recs' # recs
      BY <1>1, <2>1
    <3>4. ASSUME NEW kind, NEW value, Proposes(kind, value)
          PROVE  FALSE
      <4>1. PICK rec : recs' = Append(recs, rec)
        BY <3>4 DEF Proposes
      <4>2. recs'[r] = recs[r]
        <5> HIDE DEF r
        <5>. QED BY <2>1, <4>1
      <4>. QED BY <1>1, <2>1, <4>2
    <3>. QED BY <1>1, <3>1, <3>2, <3>3, <3>4
         DEF Next, vars, LoadsOffer, LoadsProduct, Starts, ProposesPrice, ProposesContent,
             SyncLoads, SyncWrites, Dies, Approves, Rejects, Creates, Observes, Edits, Tomorrow
  <2>3. recs[r].value \in Money
    BY <1>1, <2>1 DEF Recs
  <2>4. new \in Row /\ new.price = recs[r].value
    BY <1>1, <2>1, <2>3, RoundsMoney DEF Result, Row
  <2>5. row' = Written(copy, new)
    BY <2>2 DEF Executes
  <2> HIDE DEF new, copy, r
  <2>6. row'.price = IF new.price # copy.price THEN new.price ELSE row.price
    BY <2>1, <2>4, <2>5, Writes
  <2>. QED BY <2>4, <2>6 DEF copy, r
<1>2. ProposalsInv /\ [Next]_vars =>
        [\A i \in Workers :
          w[i].pc = "executes" /\ recs[w[i].rec].kind = "price"
            /\ recs'[w[i].rec].status = "success" =>
              \/ row'.price = recs[w[i].rec].value
              \/ w[i].copy.price = recs[w[i].rec].value]_vars
  BY <1>1
<1>. QED BY <1>2, ProposalsInvariant, PTL DEF Spec, SuccessIsWritten
===============================================================================
