-------------------------- MODULE StripeBillingProofs --------------------------
(***************************************************************************)
(* Proofs about StripeBilling, for any tenants, handlers and number of     *)
(* customers, subscriptions and events: no tenant is billed for another, a *)
(* row whose events nothing upset ends up as Stripe has it, and the whole  *)
(* implements Subscription.                                                *)
(***************************************************************************)
EXTENDS StripeBilling, TLAPS

\* A customer and a subscription that tenant t's checkouts led to.
CustomerOf(t, c) == c \in DOMAIN owner /\ owner[c] = t
SubscriptionOf(t, s) == s \in DOMAIN subs /\ CustomerOf(t, subs[s].customer)

\* What a row, or a handler's copy of it, names is its tenant's.
Owned(t, r) ==
    /\ r.customer # None => CustomerOf(t, r.customer)
    /\ r.sub # None => SubscriptionOf(t, r.sub)

RowsOwned == \A t \in Tenants : row[t] # None => Owned(t, row[t])

\* A row that a handler has found stays, and keeps a subscription it has got.
CopyOk(i) == h[i].pc # "idle" =>
    /\ Owned(h[i].tenant, h[i].copy)
    /\ h[i].pc # "missing" =>
          /\ row[h[i].tenant] # None
          /\ h[i].copy.sub # None => row[h[i].tenant].sub # None

\* A request inserts the default row, or checks out a plan for a customer.
RequestOk(i) ==
    /\ h[i].pc = "missing" => h[i].copy = Default
    /\ h[i].pc \in {"missing", "found"} /\ h[i].op = "checkout" => h[i].plan \in Plans
    /\ h[i].pc \in {"created", "linked"} =>
          h[i].plan \in Plans /\ h[i].copy.customer # None

\* The event that a handler applies is its row's own.
EventOk(i) == h[i].pc = "applies" =>
    /\ h[i].event \in DOMAIN sent
    /\ SubscriptionOf(h[i].tenant, sent[h[i].event].sub)
    /\ sent[h[i].event].kind = "deleted" => h[i].copy.sub # None

HandlersOk == \A i \in Handlers : CopyOk(i) /\ RequestOk(i) /\ EventOk(i)

BillingInv == Typed /\ RowsOwned /\ HandlersOk

-------------------------------------------------------------------------------
\* What a handler carries, by where it stands.
LEMMA TaskShape ==
    ASSUME Typed, NEW i \in Handlers
    PROVE  /\ h[i].pc # "idle" => h[i].tenant \in Tenants /\ h[i].copy \in Row
           /\ h[i].pc \in {"missing", "found", "created", "linked"} =>
                 h[i] \in [pc : {"missing", "found", "created", "linked"},
                           op : {"report", "checkout"}, tenant : Tenants,
                           plan : Plans \cup {None}, copy : Row]
           /\ h[i].pc = "applies" =>
                 h[i] \in [pc : {"applies"}, event : Nat, tenant : Tenants, copy : Row]
<1>1. h[i] \in Tasks
  BY DEF Typed
<1>. QED BY <1>1 DEF Tasks, Idle

LEMMA DefaultRow == Default \in Row /\ Default # None
BY BillingAssumption DEF Row, Default

\* Stripe forgets no customer, subscription or event, nor whose they are, and no row
\* is lost.
Grows ==
    /\ \A c \in DOMAIN owner : c \in DOMAIN owner' /\ owner'[c] = owner[c]
    /\ \A s \in DOMAIN subs : s \in DOMAIN subs' /\ subs'[s].customer = subs[s].customer
    /\ \A k \in DOMAIN sent : k \in DOMAIN sent' /\ sent'[k] = sent[k]
    /\ \A t \in Tenants : row[t] # None =>
          row'[t] # None /\ (row[t].sub # None => row'[t].sub # None)

LEMMA OwnedKept ==
    ASSUME Typed, Grows, NEW t \in Tenants, NEW r \in Row, Owned(t, r)
    PROVE  Owned(t, r)'
BY DEF Typed, Grows, Owned, CustomerOf, SubscriptionOf

LEMMA HandlerKept ==
    ASSUME BillingInv, Grows, NEW i \in Handlers, h'[i] = h[i] \/ h'[i] = Idle
    PROVE  CopyOk(i)' /\ RequestOk(i)' /\ EventOk(i)'
<1> USE DEF CopyOk, RequestOk, EventOk
<1>1. CASE h'[i] = Idle
  BY <1>1 DEF Idle
<1>2. CASE h'[i] = h[i]
  <2>1. h[i].pc # "idle" => h[i].tenant \in Tenants /\ h[i].copy \in Row
    BY TaskShape DEF BillingInv
  <2>2. CopyOk(i)'
    BY <1>2, <2>1, OwnedKept DEF BillingInv, HandlersOk, Grows
  <2>3. RequestOk(i)'
    BY <1>2 DEF BillingInv, HandlersOk
  <2>4. EventOk(i)'
    <3> SUFFICES ASSUME h[i].pc = "applies" PROVE EventOk(i)'
      BY <1>2
    <3>1. /\ h[i].event \in DOMAIN sent
          /\ SubscriptionOf(h[i].tenant, sent[h[i].event].sub)
          /\ sent[h[i].event].kind = "deleted" => h[i].copy.sub # None
      BY DEF BillingInv, HandlersOk
    <3>2. h[i].event \in DOMAIN sent' /\ sent'[h[i].event] = sent[h[i].event]
      BY <3>1 DEF Grows
    <3>3. SubscriptionOf(h[i].tenant, sent[h[i].event].sub)'
      BY <1>2, <3>1, <3>2 DEF Grows, SubscriptionOf, CustomerOf
    <3>. QED BY <1>2, <3>1, <3>2, <3>3
  <2>. QED BY <2>2, <2>3, <2>4
<1>. QED BY <1>1, <1>2

LEMMA RowsKept ==
    ASSUME BillingInv, Grows, row' = row
    PROVE  RowsOwned'
BY OwnedKept DEF BillingInv, Typed, RowsOwned

LEMMA BillingInit == Init => BillingInv
<1> SUFFICES ASSUME Init PROVE BillingInv
  OBVIOUS
<1> USE DefaultRow DEF Init
<1>1. Typed
  BY DEF Typed, Tasks
<1>2. RowsOwned
  BY DEF RowsOwned, Owned, Default
<1>3. HandlersOk
  BY DEF HandlersOk, CopyOk, RequestOk, EventOk, Idle
<1>. QED BY <1>1, <1>2, <1>3 DEF BillingInv

-------------------------------------------------------------------------------
(* The tenant's routes.                                                     *)

LEMMA LooksUpStep ==
    ASSUME BillingInv, NEW i \in Handlers, NEW t \in Tenants, NEW op \in {"report", "checkout"},
           NEW plan \in Plans \cup {None},
           op = "checkout" => plan \in Plans,
           LooksUp(i, t, op, plan)
    PROVE  BillingInv'
<1> USE DEF LooksUp, stripe
<1> DEFINE copy == IF row[t] = None THEN Default ELSE row[t]
<1>1. copy \in Row /\ Owned(t, copy)
  BY DefaultRow DEF BillingInv, Typed, RowsOwned, Owned, Default
<1>2. Typed'
  BY <1>1 DEF BillingInv, Typed, Tasks
<1>3. Grows
  BY DEF Grows
<1>4. RowsOwned'
  BY <1>3, RowsKept
<1>5. h'[i] = [pc |-> IF row[t] = None THEN "missing" ELSE "found",
               op |-> op, tenant |-> t, plan |-> plan, copy |-> copy]
  BY DEF BillingInv, Typed
<1>6. CopyOk(i)' /\ RequestOk(i)' /\ EventOk(i)'
  <2>1. Owned(t, copy)'
    BY <1>1, <1>3, OwnedKept DEF BillingInv
  <2>. QED BY <1>5, <2>1 DEF CopyOk, RequestOk, EventOk
<1>7. ASSUME NEW j \in Handlers, j # i
      PROVE  CopyOk(j)' /\ RequestOk(j)' /\ EventOk(j)'
  BY <1>3, <1>7, HandlerKept DEF BillingInv, Typed
<1>8. HandlersOk'
  BY <1>6, <1>7 DEF HandlersOk
<1>. QED BY <1>2, <1>4, <1>8 DEF BillingInv

\* A handler that goes on with what it carries, or ends.
LEMMA HandlersStep ==
    ASSUME BillingInv, Grows, NEW i \in Handlers,
           \A j \in Handlers \ {i} : h'[j] = h[j],
           CopyOk(i)' /\ RequestOk(i)' /\ EventOk(i)'
    PROVE  HandlersOk'
BY HandlerKept DEF HandlersOk

LEMMA EndsStep ==
    ASSUME BillingInv, Grows, NEW i \in Handlers, h' = [h EXCEPT ![i] = Idle]
    PROVE  HandlersOk' /\ h' \in [Handlers -> Tasks]
<1>1. h' \in [Handlers -> Tasks]
  BY DEF BillingInv, Typed, Tasks
<1>2. \A j \in Handlers : h'[j] = h[j] \/ h'[j] = Idle
  BY DEF BillingInv, Typed
<1>. QED BY <1>1, <1>2, HandlerKept DEF HandlersOk

LEMMA InsertsStep ==
    ASSUME BillingInv, NEW i \in Handlers, Inserts(i)
    PROVE  BillingInv'
<1> USE DEF Inserts, stripe
<1> DEFINE t == h[i].tenant
<1>1. t \in Tenants /\ h[i].copy \in Row
  BY TaskShape DEF BillingInv
<1>2. Grows
  BY <1>1, DefaultRow DEF BillingInv, Typed, Grows
<1>3. CASE row[t] = None
  <2>1. row' = [row EXCEPT ![t] = Default] /\ h' = [h EXCEPT ![i].pc = "found"]
    BY <1>3
  <2>2. h'[i] = [h[i] EXCEPT !.pc = "found"] /\ \A j \in Handlers \ {i} : h'[j] = h[j]
    BY <2>1 DEF BillingInv, Typed
  <2>3. h[i] \in [pc : {"missing", "found", "created", "linked"},
                  op : {"report", "checkout"}, tenant : Tenants,
                  plan : Plans \cup {None}, copy : Row]
    BY TaskShape DEF BillingInv
  <2>4. Typed'
    BY <2>1, <2>2, <2>3, <1>1, DefaultRow DEF BillingInv, Typed, Tasks
  <2>5. RowsOwned'
    <3> SUFFICES ASSUME NEW u \in Tenants, row'[u] # None PROVE Owned(u, row[u])'
      BY DEF RowsOwned
    <3>1. CASE u = t
      BY <3>1, <2>1, <1>1 DEF Owned, Default, BillingInv, Typed
    <3>2. CASE u # t
      BY <3>2, <2>1, <1>2, OwnedKept DEF BillingInv, Typed, RowsOwned
    <3>. QED BY <3>1, <3>2
  <2>6. CopyOk(i)' /\ RequestOk(i)' /\ EventOk(i)'
    <3>1. row'[t] = Default /\ h[i].copy = Default /\ h'[i].copy = Default
      BY <2>1, <2>2, <2>3, <1>1 DEF BillingInv, Typed, HandlersOk, RequestOk
    <3>2. /\ h'[i].pc = "found" /\ h'[i].tenant = t
          /\ h'[i].op = h[i].op /\ h'[i].plan = h[i].plan
      BY <2>2, <2>3
    <3>. QED BY <3>1, <3>2, DefaultRow DEF BillingInv, HandlersOk, CopyOk, RequestOk,
                                           EventOk, Owned, Default
  <2>. QED BY <1>2, <2>2, <2>4, <2>5, <2>6, HandlersStep DEF BillingInv
<1>4. CASE row[t] # None
  <2>1. row' = row /\ h' = [h EXCEPT ![i] = Idle]
    BY <1>4
  <2>. QED BY <2>1, <1>2, EndsStep, RowsKept DEF BillingInv, Typed
<1>. QED BY <1>3, <1>4

LEMMA ReportsStep ==
    ASSUME BillingInv, NEW i \in Handlers, Reports(i)
    PROVE  BillingInv'
<1>1. Grows
  BY DEF Reports, stripe, Grows
<1>. QED BY <1>1, EndsStep, RowsKept DEF Reports, stripe, BillingInv, Typed

LEMMA DiesStep ==
    ASSUME BillingInv, NEW i \in Handlers, Dies(i)
    PROVE  BillingInv'
<1>1. Grows
  BY DEF Dies, stripe, Grows
<1>. QED BY <1>1, EndsStep, RowsKept DEF Dies, stripe, BillingInv, Typed

LEMMA CreatesCustomerStep ==
    ASSUME BillingInv, NEW i \in Handlers, CreatesCustomer(i)
    PROVE  BillingInv'
<1> USE DEF CreatesCustomer
<1> DEFINE t == h[i].tenant
           Requests == [pc : {"missing", "found", "created", "linked"},
                        op : {"report", "checkout"}, tenant : Tenants,
                        plan : Plans \cup {None}, copy : Row]
<1>1. t \in Tenants /\ h[i] \in Requests /\ h[i].copy \in Row
  BY TaskShape DEF BillingInv
<1>2. CopyOk(i) /\ RequestOk(i)
  BY DEF BillingInv, HandlersOk
<1>3. CASE h[i].copy.customer = None
  <2>1. /\ owner' = Append(owner, t) /\ Len(owner') \in Nat
        /\ h' = [h EXCEPT ![i].copy.customer = Len(owner'), ![i].pc = "created"]
    BY <1>3, <1>1 DEF BillingInv, Typed
  <2>2. /\ owner' \in Seq(Tenants)
        /\ DOMAIN owner \subseteq DOMAIN owner'
        /\ Len(owner') \in DOMAIN owner' /\ owner'[Len(owner')] = t
    BY <2>1, <1>1 DEF BillingInv, Typed
  <2>3. Grows
    BY <2>1, <1>1 DEF BillingInv, Typed, Grows
  <2>4. /\ h'[i] = [h[i] EXCEPT !.copy = [h[i].copy EXCEPT !.customer = Len(owner')],
                                !.pc = "created"]
        /\ \A j \in Handlers \ {i} : h'[j] = h[j]
    BY <2>1 DEF BillingInv, Typed
  <2>5. /\ h'[i] \in Requests
        /\ h'[i].pc = "created" /\ h'[i].tenant = t /\ h'[i].plan = h[i].plan
        /\ h'[i].copy.customer = Len(owner') /\ h'[i].copy.sub = h[i].copy.sub
    <3>1. /\ [h[i].copy EXCEPT !.customer = Len(owner')] \in Row
          /\ [h[i].copy EXCEPT !.customer = Len(owner')].customer = Len(owner')
          /\ [h[i].copy EXCEPT !.customer = Len(owner')].sub = h[i].copy.sub
      BY <1>1, <2>1 DEF Row
    <3>. QED BY <3>1, <2>4, <1>1
  <2>6. Typed'
    <3>1. h' \in [Handlers -> Tasks]
      BY <2>1, <2>4, <2>5 DEF BillingInv, Typed, Tasks
    <3>2. checkouts' \subseteq [customer : DOMAIN owner', price : Prices]
      BY <2>2 DEF BillingInv, Typed
    <3>. QED BY <2>2, <3>1, <3>2 DEF BillingInv, Typed
  <2>7. CopyOk(i)' /\ RequestOk(i)' /\ EventOk(i)'
    <3>1. \A u \in Tenants, r \in Row : Owned(u, r) => Owned(u, r)'
      BY <2>3, OwnedKept DEF BillingInv
    <3>2. Owned(h[i].tenant, h[i].copy)'
      BY <3>1, <1>1, <1>2, <2>2, <2>5 DEF Owned, CustomerOf, CopyOk
    <3>. QED BY <3>2, <1>2, <2>1, <2>5, BillingAssumption
             DEF CopyOk, RequestOk, EventOk
  <2>. QED BY <2>3, <2>4, <2>6, <2>7, HandlersStep, RowsKept DEF BillingInv
<1>4. CASE h[i].copy.customer # None
  <2>1. owner' = owner /\ h' = [h EXCEPT ![i].pc = "linked"]
    BY <1>4
  <2>2. Grows
    BY <2>1 DEF Grows
  <2>3. h'[i] = [h[i] EXCEPT !.pc = "linked"] /\ \A j \in Handlers \ {i} : h'[j] = h[j]
    BY <2>1 DEF BillingInv, Typed
  <2>4. /\ h'[i] \in Requests
        /\ h'[i].pc = "linked" /\ h'[i].tenant = t /\ h'[i].plan = h[i].plan
        /\ h'[i].copy = h[i].copy
    BY <2>3, <1>1
  <2>5. Typed'
    BY <2>1, <2>3, <2>4 DEF BillingInv, Typed, Tasks
  <2>6. CopyOk(i)' /\ RequestOk(i)' /\ EventOk(i)'
    BY <1>1, <1>2, <1>4, <2>1, <2>2, <2>4, OwnedKept DEF BillingInv, CopyOk, RequestOk, EventOk
  <2>. QED BY <2>2, <2>3, <2>5, <2>6, HandlersStep, RowsKept DEF BillingInv
<1>. QED BY <1>3, <1>4

LEMMA LinksCustomerStep ==
    ASSUME BillingInv, NEW i \in Handlers, LinksCustomer(i)
    PROVE  BillingInv'
<1> USE DEF LinksCustomer, stripe
<1> DEFINE t == h[i].tenant
           new == [row[t] EXCEPT !.customer = h[i].copy.customer]
           Requests == [pc : {"missing", "found", "created", "linked"},
                        op : {"report", "checkout"}, tenant : Tenants,
                        plan : Plans \cup {None}, copy : Row]
<1>1. t \in Tenants /\ h[i] \in Requests /\ h[i].copy \in Row
  BY TaskShape DEF BillingInv
<1>2. CopyOk(i) /\ RequestOk(i) /\ row[t] \in Row /\ Owned(t, row[t])
  BY <1>1 DEF BillingInv, HandlersOk, CopyOk, Typed, RowsOwned
<1>3. new \in Row /\ new.customer = h[i].copy.customer /\ new.sub = row[t].sub
  BY <1>1, <1>2 DEF Row
<1>4. Owned(t, new)
  BY <1>2, <1>3 DEF CopyOk, Owned
<1>5. row'[t] = new /\ \A u \in Tenants \ {t} : row'[u] = row[u]
  BY <1>1 DEF BillingInv, Typed
<1>6. Grows
  BY <1>1, <1>3, <1>5, BillingAssumption DEF Grows
<1>7. h'[i] = [h[i] EXCEPT !.pc = "linked"] /\ \A j \in Handlers \ {i} : h'[j] = h[j]
  BY DEF BillingInv, Typed
<1>8. /\ h'[i] \in Requests
      /\ h'[i].pc = "linked" /\ h'[i].tenant = t /\ h'[i].plan = h[i].plan
      /\ h'[i].copy = h[i].copy
  BY <1>7, <1>1
<1>9. Typed'
  <2>1. h' \in [Handlers -> Tasks]
    BY <1>7, <1>8 DEF BillingInv, Typed, Tasks
  <2>2. row' \in [Tenants -> Row \cup {None}]
    BY <1>3, <1>5 DEF BillingInv, Typed
  <2>. QED BY <2>1, <2>2 DEF BillingInv, Typed
<1>10. \A u \in Tenants, r \in Row : Owned(u, r) => Owned(u, r)'
  BY <1>6, OwnedKept DEF BillingInv
<1>11. RowsOwned'
  <2> SUFFICES ASSUME NEW u \in Tenants, row'[u] # None PROVE Owned(u, row[u])'
    BY DEF RowsOwned
  <2>1. CASE u = t
    BY <2>1, <1>3, <1>4, <1>5 DEF Owned, CustomerOf, SubscriptionOf
  <2>2. CASE u # t
    BY <2>2, <1>5, <1>10 DEF BillingInv, Typed, RowsOwned
  <2>. QED BY <2>1, <2>2
<1>12. CopyOk(i)' /\ RequestOk(i)' /\ EventOk(i)'
  <2>1. Owned(h[i].tenant, h[i].copy)'
    BY <1>1, <1>2, <1>8 DEF CopyOk, Owned, CustomerOf, SubscriptionOf
  <2>. QED BY <2>1, <1>1, <1>2, <1>6, <1>8 DEF CopyOk, RequestOk, EventOk, Grows
<1>. QED BY <1>6, <1>7, <1>9, <1>11, <1>12, HandlersStep DEF BillingInv

LEMMA OpensCheckoutStep ==
    ASSUME BillingInv, NEW i \in Handlers, OpensCheckout(i)
    PROVE  BillingInv'
<1> USE DEF OpensCheckout
<1>1. Grows
  BY DEF Grows
<1>2. h[i].copy.customer \in DOMAIN owner /\ h[i].plan \in Prices
  BY BillingAssumption
  DEF BillingInv, HandlersOk, CopyOk, RequestOk, Owned, CustomerOf, Prices
<1>3. checkouts' \subseteq [customer : DOMAIN owner', price : Prices]
  BY <1>2 DEF BillingInv, Typed
<1>. QED BY <1>1, <1>3, EndsStep, RowsKept DEF BillingInv, Typed

-------------------------------------------------------------------------------
(* Stripe.                                                                  *)

\* What Stripe does to its subscriptions, and the event it sends of it.
LEMMA SendsStep ==
    ASSUME BillingInv, NEW kind \in {"synced", "deleted"}, NEW s \in DOMAIN subs',
           subs' \in Seq(Subscriptions),
           \A r \in DOMAIN subs' : subs'[r].customer \in DOMAIN owner,
           \A r \in DOMAIN subs : r \in DOMAIN subs' /\ subs'[r].customer = subs[r].customer,
           checkouts' \subseteq checkouts, Sends(kind, s), UNCHANGED <<row, h, owner>>
    PROVE  BillingInv'
<1> USE DEF Sends
<1> DEFINE e == [kind |-> kind, sub |-> s, status |-> subs'[s].status, price |-> subs'[s].price]
<1>1. e \in Events /\ e.sub = s /\ sent' = Append(sent, e)
  <2>1. subs'[s] \in Subscriptions /\ s \in Nat
    OBVIOUS
  <2>. QED BY <2>1 DEF Events, Subscriptions
<1>2. /\ sent' \in Seq(Events)
      /\ \A k \in DOMAIN sent : k \in DOMAIN sent' /\ sent'[k] = sent[k]
      /\ \A k \in DOMAIN sent' : k \in DOMAIN sent \/ sent'[k] = e
  BY <1>1 DEF BillingInv, Typed
<1>3. Grows
  BY <1>2 DEF Grows
<1>4. Typed'
  BY <1>1, <1>2 DEF BillingInv, Typed
<1>5. HandlersOk'
  BY <1>3, HandlerKept DEF HandlersOk
<1>. QED BY <1>3, <1>4, <1>5, RowsKept DEF BillingInv

LEMMA PaysStep ==
    ASSUME BillingInv, NEW c \in checkouts, Pays(c)
    PROVE  BillingInv'
<1> USE DEF Pays
<1>1. c.customer \in DOMAIN owner /\ c.price \in Prices /\ DOMAIN owner \subseteq Nat
  BY DEF BillingInv, Typed
<1> DEFINE new == [customer |-> c.customer, price |-> c.price, status |-> "active"]
<1>2. new \in Subscriptions /\ new.customer = c.customer
  BY <1>1 DEF Subscriptions, StripeStatuses, StatusOf
<1>3. /\ subs' \in Seq(Subscriptions) /\ Len(subs') \in DOMAIN subs'
      /\ \A r \in DOMAIN subs : r \in DOMAIN subs' /\ subs'[r] = subs[r]
      /\ \A r \in DOMAIN subs' : r \in DOMAIN subs \/ subs'[r] = new
  BY <1>2 DEF BillingInv, Typed
<1>. QED BY <1>1, <1>2, <1>3, SendsStep DEF BillingInv, Typed

LEMMA SubscriptionReplaced ==
    ASSUME Typed, NEW s \in DOMAIN subs, NEW new \in Subscriptions,
           new.customer = subs[s].customer, subs' = [subs EXCEPT ![s] = new]
    PROVE  /\ subs' \in Seq(Subscriptions) /\ DOMAIN subs' = DOMAIN subs
           /\ \A r \in DOMAIN subs : subs'[r].customer = subs[r].customer
<1>1. subs \in Seq(Subscriptions)
  BY DEF Typed
<1>2. subs' \in Seq(Subscriptions) /\ Len(subs') = Len(subs)
  BY <1>1
<1>. QED BY <1>1, <1>2

LEMMA ChangesStep ==
    ASSUME BillingInv, NEW s \in DOMAIN subs, NEW m \in Moves, Changes(s, m)
    PROVE  BillingInv'
<1> USE DEF Changes
<1> DEFINE new == [subs[s] EXCEPT !.status = m.status, !.price = m.price]
<1>1. new \in Subscriptions /\ new.customer = subs[s].customer
  <2>1. subs[s] \in Subscriptions /\ m \in [status : StripeStatuses, price : Prices]
    BY BillingAssumption DEF BillingInv, Typed
  <2>. QED BY <2>1 DEF Subscriptions
<1>2. subs' = [subs EXCEPT ![s] = new]
  OBVIOUS
<1>3. /\ subs' \in Seq(Subscriptions) /\ DOMAIN subs' = DOMAIN subs
      /\ \A r \in DOMAIN subs : subs'[r].customer = subs[r].customer
  BY <1>1, <1>2, SubscriptionReplaced DEF BillingInv
<1>. QED BY <1>3, SendsStep DEF BillingInv, Typed

LEMMA CancelsStep ==
    ASSUME BillingInv, NEW s \in DOMAIN subs, Cancels(s)
    PROVE  BillingInv'
<1> USE DEF Cancels
<1> DEFINE new == [subs[s] EXCEPT !.status = "canceled"]
<1>1. new \in Subscriptions /\ new.customer = subs[s].customer
  <2>1. subs[s] \in Subscriptions /\ "canceled" \in StripeStatuses
    BY DEF BillingInv, Typed, StripeStatuses, StatusOf
  <2>. QED BY <2>1 DEF Subscriptions
<1>2. subs' = [subs EXCEPT ![s] = new]
  OBVIOUS
<1>3. /\ subs' \in Seq(Subscriptions) /\ DOMAIN subs' = DOMAIN subs
      /\ \A r \in DOMAIN subs : subs'[r].customer = subs[r].customer
  BY <1>1, <1>2, SubscriptionReplaced DEF BillingInv
<1>. QED BY <1>3, SendsStep DEF BillingInv, Typed

-------------------------------------------------------------------------------
(* The webhook.                                                             *)

\* The row that an event matches is that of the tenant it is about.
LEMMA MatchesOwn ==
    ASSUME BillingInv, NEW k \in DOMAIN sent, NEW t \in Matches(sent[k])
    PROVE  /\ t \in Tenants /\ row[t] \in Row /\ Owned(t, row[t])
           /\ SubscriptionOf(t, sent[k].sub)
           /\ sent[k].kind = "deleted" => row[t].sub # None
<1>1. t \in Tenants /\ row[t] # None
  BY DEF Matches
<1>2. row[t] \in Row /\ Owned(t, row[t])
  BY <1>1 DEF BillingInv, Typed, RowsOwned
<1>3. /\ sent[k].sub \in DOMAIN subs /\ subs[sent[k].sub].customer \in DOMAIN owner
      /\ sent[k].sub \in Nat /\ subs[sent[k].sub].customer \in Nat
      /\ sent[k].kind \in {"synced", "deleted"}
  <2>1. sent[k] \in Events /\ sent[k].sub \in DOMAIN subs
    BY DEF BillingInv, Typed
  <2>2. subs[sent[k].sub] \in Subscriptions /\ subs[sent[k].sub].customer \in DOMAIN owner
    BY <2>1 DEF BillingInv, Typed
  <2>. QED BY <2>1, <2>2 DEF Events, Subscriptions
<1>4. CASE sent[k].kind = "synced"
  BY <1>1, <1>2, <1>3, <1>4, BillingAssumption
  DEF Matches, Owned, SubscriptionOf
<1>5. CASE sent[k].kind = "deleted"
  BY <1>1, <1>2, <1>3, <1>5, BillingAssumption
  DEF Matches, Owned, SubscriptionOf
<1>. QED BY <1>1, <1>2, <1>3, <1>4, <1>5

LEMMA ReceivesStep ==
    ASSUME BillingInv, NEW i \in Handlers, NEW k \in DOMAIN sent, Receives(i, k)
    PROVE  BillingInv'
<1> USE DEF Receives, stripe
<1>1. Grows
  BY DEF Grows
<1>2. RowsOwned'
  BY <1>1, RowsKept
<1>3. CASE UNCHANGED h
  BY <1>1, <1>2, <1>3, HandlerKept DEF BillingInv, Typed, HandlersOk
<1>4. ASSUME NEW t \in Matches(sent[k]),
             h' = [h EXCEPT ![i] = [pc |-> "applies", event |-> k, tenant |-> t, copy |-> row[t]]]
      PROVE  BillingInv'
  <2>1. /\ t \in Tenants /\ row[t] \in Row /\ Owned(t, row[t]) /\ k \in Nat
        /\ SubscriptionOf(t, sent[k].sub)
        /\ sent[k].kind = "deleted" => row[t].sub # None
    BY MatchesOwn DEF BillingInv, Typed
  <2>2. /\ h'[i] = [pc |-> "applies", event |-> k, tenant |-> t, copy |-> row[t]]
        /\ \A j \in Handlers \ {i} : h'[j] = h[j]
    BY <1>4 DEF BillingInv, Typed
  <2>3. Typed'
    BY <1>4, <2>1 DEF BillingInv, Typed, Tasks
  <2>4. CopyOk(i)' /\ RequestOk(i)' /\ EventOk(i)'
    BY <2>1, <2>2, BillingAssumption
    DEF CopyOk, RequestOk, EventOk, Owned, SubscriptionOf, CustomerOf
  <2>. QED BY <1>1, <1>2, <2>2, <2>3, <2>4, HandlersStep DEF BillingInv
<1>. QED BY <1>3, <1>4

LEMMA StatusWords == \A word \in DOMAIN StatusOf :
                        StatusOf[word] \in {"active", "past_due", "canceled", "incomplete"}
BY DEF StatusOf

\* What the event makes of the copy ...
LEMMA ResultShape ==
    ASSUME NEW e \in Events, NEW r \in Row
    PROVE  /\ Result(e, r) \in Row /\ Result(e, r).customer = r.customer
           /\ e.kind = "deleted" => Result(e, r).sub = r.sub
           /\ e.kind # "deleted" => Result(e, r).sub = e.sub
BY StatusWords DEF Result, Events, Row, PlansFor

\* ... and of the row that was written meanwhile.
LEMMA WrittenShape ==
    ASSUME NEW r \in Row, NEW copy \in Row, NEW new \in Row
    PROVE  /\ Written(r, copy, new) \in Row
           /\ Written(r, copy, new).customer =
                 IF new.customer # copy.customer THEN new.customer ELSE r.customer
           /\ Written(r, copy, new).sub = IF new.sub # copy.sub THEN new.sub ELSE r.sub
BY DEF Written, Row

\* The row after it names a subscription of its tenant, and its customer is kept.
LEMMA AppliesShape ==
    ASSUME BillingInv, NEW i \in Handlers, h[i].pc = "applies",
           NEW t, t = h[i].tenant, NEW e, e = sent[h[i].event],
           NEW new, new = Written(row[t], h[i].copy, Result(e, h[i].copy))
    PROVE  /\ t \in Tenants /\ row[t] \in Row /\ new \in Row
           /\ new.customer = row[t].customer
           /\ new.sub # None /\ SubscriptionOf(t, new.sub)
<1>1. t \in Tenants /\ h[i].copy \in Row
  BY TaskShape DEF BillingInv
<1>2. CopyOk(i) /\ EventOk(i)
  BY DEF BillingInv, HandlersOk
<1>3. row[t] \in Row /\ Owned(t, row[t])
  BY <1>1, <1>2 DEF BillingInv, Typed, RowsOwned, CopyOk
<1>4. e \in Events
  BY <1>2 DEF EventOk, BillingInv, Typed
<1>5. /\ Result(e, h[i].copy) \in Row /\ Result(e, h[i].copy).customer = h[i].copy.customer
      /\ e.kind = "deleted" => Result(e, h[i].copy).sub = h[i].copy.sub
      /\ e.kind # "deleted" => Result(e, h[i].copy).sub = e.sub
  BY <1>1, <1>4, ResultShape
<1>6. /\ new \in Row /\ new.customer = row[t].customer
      /\ new.sub = IF Result(e, h[i].copy).sub # h[i].copy.sub
                   THEN Result(e, h[i].copy).sub ELSE row[t].sub
  BY <1>1, <1>3, <1>5, WrittenShape
<1>7. e.sub # None
  BY <1>4, BillingAssumption DEF Events
<1>. QED BY <1>1, <1>2, <1>3, <1>5, <1>6, <1>7 DEF CopyOk, EventOk, Owned

LEMMA AppliesStep ==
    ASSUME BillingInv, NEW i \in Handlers, Applies(i)
    PROVE  BillingInv'
<1> USE DEF Applies, stripe
<1>1. CASE UNCHANGED row
  <2>1. Grows
    BY <1>1 DEF Grows
  <2>. QED BY <1>1, <2>1, EndsStep, RowsKept DEF BillingInv, Typed
<1>2. CASE ~UNCHANGED row
  <2> DEFINE t == h[i].tenant
             new == Written(row[t], h[i].copy, Result(sent[h[i].event], h[i].copy))
  <2>1. /\ t \in Tenants /\ row[t] \in Row /\ new \in Row
        /\ new.customer = row[t].customer
        /\ new.sub # None /\ SubscriptionOf(t, new.sub)
    BY AppliesShape
  <2>2. row' = [row EXCEPT ![t] = new]
    BY <1>2
  <2> HIDE DEF new
  <2>3. row'[t] = new /\ \A u \in Tenants \ {t} : row'[u] = row[u]
    BY <2>1, <2>2 DEF BillingInv, Typed
  <2>4. Grows
    BY <2>1, <2>3, BillingAssumption DEF Grows
  <2>5. row' \in [Tenants -> Row \cup {None}]
    BY <2>1, <2>3, <2>2 DEF BillingInv, Typed
  <2>6. RowsOwned'
    <3> SUFFICES ASSUME NEW u \in Tenants, row'[u] # None PROVE Owned(u, row[u])'
      BY DEF RowsOwned
    <3>1. CASE u = t
      <4>1. Owned(t, row[t])
        BY <2>1, BillingAssumption DEF BillingInv, RowsOwned
      <4>. QED BY <3>1, <4>1, <2>1, <2>3 DEF Owned, CustomerOf, SubscriptionOf
    <3>2. CASE u # t
      BY <3>2, <2>3, <2>4, OwnedKept DEF BillingInv, Typed, RowsOwned
    <3>. QED BY <3>1, <3>2
  <2>. QED BY <2>4, <2>5, <2>6, EndsStep DEF BillingInv, Typed
<1>. QED BY <1>1, <1>2

LEMMA BillingSteps == BillingInv /\ [Next]_vars => BillingInv'
<1> SUFFICES ASSUME BillingInv, [Next]_vars PROVE BillingInv'
  OBVIOUS
<1>1. CASE UNCHANGED vars
  <2>1. Grows
    BY <1>1 DEF vars, Grows
  <2>. QED BY <1>1, <2>1, HandlerKept, RowsKept DEF vars, BillingInv, Typed, HandlersOk
<1>2. ASSUME NEW i \in Handlers, NEW t \in Tenants,
             LooksUp(i, t, "report", None) \/ \E plan \in Plans : LooksUp(i, t, "checkout", plan)
      PROVE  BillingInv'
  <2>1. CASE LooksUp(i, t, "report", None)
    BY <2>1, LooksUpStep
  <2>2. ASSUME NEW plan \in Plans, LooksUp(i, t, "checkout", plan) PROVE BillingInv'
    BY <2>2, LooksUpStep
  <2>. QED BY <1>2, <2>1, <2>2
<1>3. ASSUME NEW i \in Handlers,
             Inserts(i) \/ Reports(i) \/ CreatesCustomer(i) \/ LinksCustomer(i)
             \/ OpensCheckout(i) \/ Dies(i) \/ Applies(i)
      PROVE  BillingInv'
  BY <1>3, InsertsStep, ReportsStep, CreatesCustomerStep, LinksCustomerStep,
     OpensCheckoutStep, DiesStep, AppliesStep
<1>4. ASSUME NEW i \in Handlers, NEW k \in DOMAIN sent, Receives(i, k) PROVE BillingInv'
  BY <1>4, ReceivesStep
<1>5. ASSUME NEW c \in checkouts, Pays(c) PROVE BillingInv'
  BY <1>5, PaysStep
<1>6. ASSUME NEW s \in DOMAIN subs, Cancels(s) \/ \E m \in Moves : Changes(s, m)
      PROVE  BillingInv'
  BY <1>6, CancelsStep, ChangesStep
<1>. QED BY <1>1, <1>2, <1>3, <1>4, <1>5, <1>6 DEF Next

-------------------------------------------------------------------------------
\* However requests, events and deaths interleave, whatever a row or a handler's copy of
\* it names is a customer or a subscription of its tenant.
THEOREM BillingInvariant == Spec => []BillingInv
BY BillingInit, BillingSteps, PTL DEF Spec

\* No tenant is billed for another: a row's plan, status and subscription change only to
\* follow an event about a subscription that its own tenant's checkout led to
\* (stripe_webhook, create_checkout_session).
THEOREM OwnEventsFollowed == Spec => FollowsOwnEvents
<1> DEFINE Follows(t) ==
             LET was == IF row[t] = None THEN Default ELSE row[t]
                 now == IF row'[t] = None THEN Default ELSE row'[t]
             IN <<now.plan, now.status, now.sub>> # <<was.plan, was.status, was.sub>> =>
                   now.sub # None /\ owner[subs[now.sub].customer] = t
<1>1. ASSUME BillingInv, [Next]_vars, NEW t \in Tenants PROVE Follows(t)
  <2>1. CASE row' = row
    BY <2>1
  <2>2. ASSUME NEW i \in Handlers, Inserts(i) PROVE Follows(t)
    BY <2>2, <1>1, DefaultRow DEF Inserts, BillingInv, Typed
  <2>3. ASSUME NEW i \in Handlers, LinksCustomer(i) PROVE Follows(t)
    <3>1. h[i].tenant \in Tenants /\ row[h[i].tenant] \in Row
      <4>1. h[i].tenant \in Tenants /\ CopyOk(i)
        BY <1>1, <2>3, TaskShape DEF BillingInv, HandlersOk, LinksCustomer
      <4>. QED BY <1>1, <2>3, <4>1 DEF BillingInv, Typed, CopyOk, LinksCustomer
    <3> DEFINE u == h[i].tenant
               new == [row[u] EXCEPT !.customer = h[i].copy.customer]
    <3>2. /\ new.plan = row[u].plan /\ new.status = row[u].status /\ new.sub = row[u].sub
          /\ new \in Row
      BY <3>1, <2>3, <1>1, TaskShape DEF Row, BillingInv, LinksCustomer
    <3>3. row' = [row EXCEPT ![u] = new]
      BY <2>3 DEF LinksCustomer
    <3> HIDE DEF new
    <3>. QED BY <1>1, <3>1, <3>2, <3>3, BillingAssumption DEF BillingInv, Typed
  <2>4. ASSUME NEW i \in Handlers, Applies(i), row' # row PROVE Follows(t)
    <3> DEFINE u == h[i].tenant
               new == Written(row[u], h[i].copy, Result(sent[h[i].event], h[i].copy))
    <3>1. u \in Tenants /\ new \in Row /\ new.sub # None /\ SubscriptionOf(u, new.sub)
      BY <1>1, <2>4, AppliesShape DEF Applies
    <3>2. row' = [row EXCEPT ![u] = new]
      BY <2>4 DEF Applies
    <3> HIDE DEF new
    <3>. QED BY <1>1, <3>1, <3>2, BillingAssumption
             DEF BillingInv, Typed, SubscriptionOf, CustomerOf
  <2>. QED
    BY <1>1, <2>1, <2>2, <2>3, <2>4
    DEF Next, vars, stripe, LooksUp, Reports, CreatesCustomer, OpensCheckout, Dies, Receives,
        Pays, Cancels, Changes
<1>2. BillingInv /\ [Next]_vars => [\A t \in Tenants : Follows(t)]_vars
  BY <1>1
<1>. QED BY <1>2, BillingInvariant, PTL DEF Spec, FollowsOwnEvents

-------------------------------------------------------------------------------
(* What the row says once the events are acknowledged.  Only the tenants    *)
(* that nothing has disturbed are followed: one customer, events in order.  *)

\* The columns an event may change.
Same(a, b) == a.plan = b.plan /\ a.status = b.status /\ a.sub = b.sub

About(t, k) == k \in DOMAIN sent /\ owner[subs[sent[k].sub].customer] = t

Newest(t, k) == \A j \in received : About(t, j) => j <= k

Begun(s) == \E k \in DOMAIN sent : sent[k].kind = "synced" /\ sent[k].sub = s

\* The last event about a subscription says what it is.
Told(s) ==
    \E k \in DOMAIN sent :
        /\ sent[k].sub = s /\ \A j \in DOMAIN sent : sent[j].sub = s => j <= k
        /\ sent[k].status = subs[s].status /\ sent[k].price = subs[s].price
        /\ (sent[k].kind = "deleted") <=> (subs[s].status = "canceled")

SentOk ==
    /\ acked \subseteq received /\ received \subseteq DOMAIN sent
    /\ \A s \in DOMAIN subs : Begun(s) /\ Told(s)

Linked(t, c) == row[t] # None /\ row[t].customer = c

\* Whatever was bought for the tenant was bought for the customer in its row.
BoughtOk(t) ==
    /\ \A c \in checkouts : owner[c.customer] = t => Linked(t, c.customer)
    /\ \A s \in DOMAIN subs : owner[subs[s].customer] = t => Linked(t, subs[s].customer)

BuysOk(t) ==
    \A i \in Handlers :
        h[i].pc \in {"found", "linked"} /\ h[i].tenant = t /\ h[i].copy.customer # None =>
            Linked(t, h[i].copy.customer)

\* A copy is as the row is, or another handler has applied the same event.
Agrees(i) ==
    \/ Same(h[i].copy, row[h[i].tenant])
    \/ Same(Result(sent[h[i].event], h[i].copy), row[h[i].tenant])

WorkOk(t) ==
    \A i \in Handlers : h[i].pc = "applies" /\ h[i].tenant = t =>
        h[i].event \in received /\ Newest(t, h[i].event) /\ Agrees(i)

\* The newest event that was taken is acknowledged only when the row shows it.
ShownOk(t) ==
    \A k \in acked : About(t, k) =>
        /\ row[t] # None
        /\ sent[k].kind = "synced" => row[t].sub # None
        /\ Newest(t, k) /\ (sent[k].kind = "synced" \/ row[t].sub = sent[k].sub) =>
              Same(Result(sent[k], row[t]), row[t])

Followed(t) == BoughtOk(t) /\ BuysOk(t) /\ WorkOk(t) /\ ShownOk(t)

\* What is in work was taken.
TakenOk == \A i \in Handlers : h[i].pc = "applies" => h[i].event \in received

SettledInv == BillingInv /\ SentOk /\ TakenOk /\ \A t \in Tenants \ disturbed : Followed(t)

LEMMA SameResult ==
    ASSUME NEW e \in Events, NEW a \in Row, NEW b \in Row
    PROVE  /\ Same(a, b) => Same(Result(e, a), Result(e, b))
           /\ Same(Result(e, a), b) => Same(Result(e, b), b)
BY DEF Same, Result, Events, Row, PlansFor

LEMMA WrittenSame ==
    ASSUME NEW e \in Events, NEW r \in Row, NEW copy \in Row,
           Same(copy, r) \/ Same(Result(e, copy), r)
    PROVE  Same(Written(r, copy, Result(e, copy)), Result(e, copy))
<1>1. Result(e, copy) \in Row
  BY ResultShape
<1> DEFINE new == Result(e, copy)
<1> HIDE DEF new
<1>2. \A f \in {"plan", "status", "sub"} :
        Written(r, copy, new)[f] = IF new[f] # copy[f] THEN new[f] ELSE r[f]
  BY DEF Written, Row
<1>. QED BY <1>1, <1>2 DEF Same, new

\* Which events are about whom does not change.
LEMMA AboutKept ==
    ASSUME BillingInv, Grows, NEW t, NEW k \in DOMAIN sent
    PROVE  /\ About(t, k)' <=> About(t, k)
           /\ sent[k] \in Events /\ sent[k].kind \in {"synced", "deleted"}
<1>1. sent[k] \in Events /\ sent[k].sub \in DOMAIN subs /\ subs[sent[k].sub].customer \in DOMAIN owner
  BY DEF BillingInv, Typed
<1>. QED BY <1>1 DEF Grows, About, Events

LEMMA SentKept ==
    ASSUME SentOk, UNCHANGED <<subs, sent>>, acked' \subseteq received', received' \subseteq DOMAIN sent
    PROVE  SentOk'
<1>1. \A s \in DOMAIN subs : (Begun(s) => Begun(s)') /\ (Told(s) => Told(s)')
  BY DEF Begun, Told
<1>. QED BY <1>1 DEF SentOk

LEMMA TakenKept ==
    ASSUME TakenOk, received \subseteq received',
           \A i \in Handlers :
              h'[i] = h[i] \/ h'[i].pc # "applies" \/ h'[i].event \in received'
    PROVE  TakenOk'
BY DEF TakenOk

\* A step that leaves the tenant's row and what was taken, and starts no work on it.
LEMMA FollowedKept ==
    ASSUME BillingInv, SentOk, Grows, NEW t \in Tenants, Followed(t),
           row'[t] = row[t], received' = received, acked' = acked,
           \A i \in Handlers : h'[i] = h[i] \/ h'[i].pc # "applies"
    PROVE  WorkOk(t)' /\ ShownOk(t)'
<1>1. \A k \in received : k \in DOMAIN sent /\ sent'[k] = sent[k] /\ (About(t, k)' <=> About(t, k))
  BY AboutKept DEF SentOk, Grows
<1>2. \A k : Newest(t, k) => Newest(t, k)'
  BY <1>1 DEF Newest
<1>3. \A k : Newest(t, k)' => Newest(t, k)
  BY <1>1 DEF Newest
<1>4. ShownOk(t)'
  <2> SUFFICES ASSUME NEW k \in acked', About(t, k)'
               PROVE  /\ row'[t] # None
                      /\ sent'[k].kind = "synced" => row'[t].sub # None
                      /\ Newest(t, k)' /\ (sent'[k].kind = "synced" \/ row'[t].sub = sent'[k].sub) =>
                            Same(Result(sent'[k], row'[t]), row'[t])
    BY DEF ShownOk, Same, Result
  <2>1. k \in acked /\ k \in received
    BY DEF SentOk
  <2>. QED BY <1>1, <1>3, <2>1 DEF Followed, ShownOk
<1>5. WorkOk(t)'
  <2>1. ASSUME NEW i \in Handlers, h'[i].pc = "applies", h'[i].tenant = t
        PROVE  h'[i] = h[i] /\ h[i].event \in received /\ Agrees(i)'
               /\ \A j \in received : About(t, j)' => j <= h[i].event
    <3>1. h'[i] = h[i]
      BY <2>1
    <3>2. h[i].event \in received /\ Newest(t, h[i].event) /\ Agrees(i)
      BY <2>1, <3>1 DEF Followed, WorkOk
    <3>3. Agrees(i)'
      BY <1>1, <2>1, <3>1, <3>2 DEF Agrees, Same, Result
    <3>. QED BY <1>1, <3>1, <3>2, <3>3 DEF Newest
  <2>. QED BY <2>1 DEF WorkOk, Newest
<1>. QED BY <1>4, <1>5

LEMMA BoughtKept ==
    ASSUME BillingInv, Grows, NEW t \in Tenants, BoughtOk(t),
           row[t] # None => row'[t] # None /\ row'[t].customer = row[t].customer,
           \A c \in checkouts' : c \in checkouts \/ (owner'[c.customer] = t => Linked(t, c.customer)),
           \A s \in DOMAIN subs' : \/ s \in DOMAIN subs
                                   \/ owner'[subs'[s].customer] = t => Linked(t, subs'[s].customer)
    PROVE  BoughtOk(t)'
<1>1. \A c : Linked(t, c) => Linked(t, c)'
  BY DEF Linked
<1>2. \A c \in checkouts : c.customer \in DOMAIN owner
  BY DEF BillingInv, Typed
<1>3. \A s \in DOMAIN subs : subs[s].customer \in DOMAIN owner
  BY DEF BillingInv, Typed
<1>4. ASSUME NEW c \in checkouts', owner'[c.customer] = t
      PROVE  Linked(t, c.customer)'
  <2>1. Linked(t, c.customer)
    BY <1>2, <1>4 DEF BoughtOk, Grows
  <2>. QED BY <2>1 DEF Linked
<1>5. ASSUME NEW s \in DOMAIN subs', owner'[subs'[s].customer] = t
      PROVE  row'[t] # None /\ row'[t].customer = subs'[s].customer
  BY <1>3, <1>5 DEF BoughtOk, Grows, Linked
<1>. QED BY <1>4, <1>5 DEF BoughtOk, Linked

\* A step of a tenant's request that changes no row.
LEMMA QuietStep ==
    ASSUME SettledInv, BillingInv', Grows,
           UNCHANGED <<row, subs, sent, received, acked, disturbed>>,
           \A i \in Handlers : h'[i] = h[i] \/ h'[i].pc # "applies",
           \A t \in Tenants \ disturbed :
              /\ \A c \in checkouts' :
                    c \in checkouts \/ (owner'[c.customer] = t => Linked(t, c.customer))
              /\ \A i \in Handlers :
                    \/ h'[i] = h[i]
                    \/ h'[i].pc \in {"found", "linked"} /\ h'[i].tenant = t
                       /\ h'[i].copy.customer # None => Linked(t, h'[i].copy.customer)
    PROVE  SettledInv'
<1>1. SentOk' /\ TakenOk'
  BY SentKept, TakenKept DEF SettledInv, SentOk
<1>2. ASSUME NEW t \in Tenants \ disturbed
      PROVE  Followed(t)'
  <2>1. Followed(t)
    BY DEF SettledInv
  <2>2. BoughtOk(t)'
    BY <2>1, BoughtKept DEF SettledInv, Followed
  <2>3. WorkOk(t)' /\ ShownOk(t)'
    BY <2>1, FollowedKept DEF SettledInv
  <2>4. BuysOk(t)'
    BY <2>1 DEF Followed, BuysOk, Linked
  <2>. QED BY <2>2, <2>3, <2>4 DEF Followed
<1>. QED BY <1>1, <1>2 DEF SettledInv

LEMMA RequestsSettled ==
    ASSUME SettledInv, BillingInv', NEW i \in Handlers,
           \/ \E t \in Tenants, op \in {"report", "checkout"}, plan \in Plans \cup {None} :
                 LooksUp(i, t, op, plan)
           \/ Reports(i) \/ CreatesCustomer(i) \/ OpensCheckout(i) \/ Dies(i)
    PROVE  SettledInv'
<1>1. h \in [Handlers -> Tasks] /\ row \in [Tenants -> Row \cup {None}] /\ owner \in Seq(Tenants)
  BY DEF SettledInv, BillingInv, Typed
<1>2. ASSUME NEW t \in Tenants, NEW op \in {"report", "checkout"}, NEW plan \in Plans \cup {None},
             LooksUp(i, t, op, plan)
      PROVE  SettledInv'
  <2>1. /\ h'[i] = [pc |-> IF row[t] = None THEN "missing" ELSE "found",
                    op |-> op, tenant |-> t, plan |-> plan,
                    copy |-> IF row[t] = None THEN Default ELSE row[t]]
        /\ \A j \in Handlers \ {i} : h'[j] = h[j]
    BY <1>1, <1>2 DEF LooksUp
  <2>2. Grows
    BY <1>2 DEF Grows, LooksUp, stripe
  <2>3. h'[i].pc \in {"found", "linked"} => Linked(t, h'[i].copy.customer) /\ h'[i].tenant = t
    BY <2>1 DEF Linked
  <2>4. h'[i].pc # "applies"
    BY <2>1
  <2>. QED BY <1>2, <2>1, <2>2, <2>3, <2>4, QuietStep DEF LooksUp, stripe
<1>3. CASE Reports(i) \/ Dies(i)
  <2>1. h'[i].pc = "idle" /\ \A j \in Handlers \ {i} : h'[j] = h[j]
    BY <1>1, <1>3 DEF Reports, Dies, Idle
  <2>2. Grows
    BY <1>3 DEF Grows, Reports, Dies, stripe
  <2>. QED BY <1>3, <2>1, <2>2, QuietStep DEF Reports, Dies, stripe
<1>4. CASE CreatesCustomer(i)
  <2>1. h[i] \in Tasks /\ h[i].pc = "found" /\ \A j \in Handlers \ {i} : h'[j] = h[j]
    BY <1>1, <1>4 DEF CreatesCustomer
  <2>2. \/ h'[i].pc = "created"
        \/ h'[i].pc = "linked" /\ h'[i].tenant = h[i].tenant /\ h'[i].copy = h[i].copy
    BY <1>1, <1>4, <2>1 DEF CreatesCustomer, Tasks, Idle
  <2>3. Grows
    <3>1. UNCHANGED <<row, subs, sent>>
      BY <1>4 DEF CreatesCustomer
    <3>2. \A c \in DOMAIN owner : c \in DOMAIN owner' /\ owner'[c] = owner[c]
      <4>1. owner \in Seq(Tenants) /\ h[i].tenant \in Tenants
        BY <1>4, TaskShape DEF CreatesCustomer, SettledInv, BillingInv, Typed
      <4>2. owner' = owner \/ owner' = Append(owner, h[i].tenant)
        BY <1>4 DEF CreatesCustomer
      <4>. QED BY <4>1, <4>2
    <3>. QED BY <3>1, <3>2 DEF Grows
  <2>4. \A t \in Tenants \ disturbed :
          h'[i].pc \in {"found", "linked"} /\ h'[i].tenant = t /\ h'[i].copy.customer # None
          => Linked(t, h'[i].copy.customer)
    BY <2>1, <2>2 DEF SettledInv, Followed, BuysOk
  <2>. QED BY <1>4, <2>1, <2>2, <2>3, <2>4, QuietStep DEF CreatesCustomer
<1>5. CASE OpensCheckout(i)
  <2>1. h'[i].pc = "idle" /\ \A j \in Handlers \ {i} : h'[j] = h[j]
    BY <1>1, <1>5 DEF OpensCheckout, Idle
  <2>2. Grows
    BY <1>5 DEF Grows, OpensCheckout
  <2>3. h[i].pc = "linked" /\ CopyOk(i) /\ RequestOk(i)
    BY <1>5 DEF OpensCheckout, SettledInv, BillingInv, HandlersOk
  <2>4. h[i].copy.customer # None /\ owner[h[i].copy.customer] = h[i].tenant
    BY <2>3 DEF CopyOk, RequestOk, Owned, CustomerOf
  <2>5. ASSUME NEW t \in Tenants \ disturbed, NEW c \in checkouts', owner'[c.customer] = t
        PROVE  c \in checkouts \/ Linked(t, c.customer)
    <3>1. c \in checkouts \/ c.customer = h[i].copy.customer
      BY <1>5 DEF OpensCheckout
    <3>2. c.customer = h[i].copy.customer => Linked(t, c.customer)
      BY <1>5, <2>3, <2>4, <2>5 DEF SettledInv, Followed, BuysOk, OpensCheckout
    <3>. QED BY <3>1, <3>2
  <2>. QED BY <1>5, <2>1, <2>2, <2>5, QuietStep DEF OpensCheckout
<1>. QED BY <1>2, <1>3, <1>4, <1>5

\* Before a tenant's row has a customer nothing was bought, and no event is about it.
LEMMA FirstCustomer ==
    ASSUME SettledInv, NEW t \in Tenants \ disturbed, row[t] = None \/ row[t].customer = None,
           UNCHANGED <<owner, checkouts, subs, sent, received, acked>>,
           NEW i \in Handlers, \A j \in Handlers \ {i} : h'[j] = h[j], h'[i].pc # "applies",
           h'[i].pc \in {"found", "linked"} /\ h'[i].tenant = t /\ h'[i].copy.customer # None =>
              row'[t] # None /\ row'[t].customer = h'[i].copy.customer
    PROVE  Followed(t)'
<1>1. Followed(t) /\ BillingInv
  BY DEF SettledInv
<1>2. \A c \in Nat : ~Linked(t, c)
  BY BillingAssumption DEF Linked
<1>3. /\ DOMAIN owner \subseteq Nat
      /\ \A s \in DOMAIN subs : subs[s].customer \in DOMAIN owner
      /\ \A c \in checkouts : c.customer \in DOMAIN owner
  BY <1>1 DEF BillingInv, Typed
<1>4. /\ \A c \in checkouts : owner[c.customer] # t
      /\ \A s \in DOMAIN subs : owner[subs[s].customer] # t
  <2>1. ASSUME NEW c \in checkouts PROVE owner[c.customer] # t
    <3>1. ~Linked(t, c.customer)
      <4>1. c.customer \in Nat
        BY <1>3
      <4>. QED BY <1>2, <4>1
    <3>. QED BY <1>1, <3>1 DEF Followed, BoughtOk
  <2>2. ASSUME NEW s \in DOMAIN subs PROVE owner[subs[s].customer] # t
    <3>1. ~Linked(t, subs[s].customer)
      BY <1>2, <1>3
    <3>. QED BY <1>1, <3>1 DEF Followed, BoughtOk
  <2>. QED BY <2>1, <2>2
<1>5. BoughtOk(t)'
  BY <1>4 DEF BoughtOk
<1>6. BuysOk(t)'
  <2>1. ASSUME NEW j \in Handlers \ {i}, h[j].pc \in {"found", "linked"}, h[j].tenant = t
        PROVE  h[j].copy.customer = None
    <3>1. h[j].copy \in Row
      BY <1>1, <2>1, TaskShape DEF BillingInv
    <3>2. h[j].copy.customer \in Nat \cup {None}
      BY <3>1 DEF Row
    <3>. QED BY <1>1, <1>2, <2>1, <3>2 DEF Followed, BuysOk
  <2>. QED BY <2>1 DEF BuysOk, Linked
<1>7. \A k : ~About(t, k)'
  <2>1. \A k \in DOMAIN sent : sent[k].sub \in DOMAIN subs
    BY <1>1 DEF BillingInv, Typed
  <2>. QED BY <1>4, <2>1 DEF About
<1>8. WorkOk(t)'
  <2>1. ASSUME NEW j \in Handlers \ {i}, h[j].pc = "applies"
        PROVE  h[j].tenant # t
    BY <1>1, <1>4, <2>1 DEF BillingInv, HandlersOk, EventOk, SubscriptionOf, CustomerOf
  <2>. QED BY <2>1 DEF WorkOk
<1>9. ShownOk(t)'
  BY <1>7 DEF ShownOk
<1>. QED BY <1>5, <1>6, <1>8, <1>9 DEF Followed

\* The row of another tenant is what it was.
LEMMA OtherRow ==
    ASSUME SettledInv, Grows, NEW t \in Tenants \ disturbed, row'[t] = row[t],
           UNCHANGED <<owner, checkouts, subs, sent, received, acked>>,
           \A j \in Handlers : h'[j] = h[j] \/ h'[j].pc = "idle"
                              \/ (h'[j].pc # "applies" /\ h'[j].tenant # t)
    PROVE  Followed(t)'
<1>1. Followed(t) /\ BillingInv /\ SentOk
  BY DEF SettledInv
<1>2. BoughtOk(t)'
  BY <1>1, BoughtKept DEF Followed
<1>3. BuysOk(t)'
  BY <1>1 DEF Followed, BuysOk, Linked
<1>4. WorkOk(t)' /\ ShownOk(t)'
  BY <1>1, FollowedKept
<1>. QED BY <1>2, <1>3, <1>4 DEF Followed

LEMMA InsertsSettled ==
    ASSUME SettledInv, BillingInv', NEW i \in Handlers, Inserts(i)
    PROVE  SettledInv'
<1> DEFINE t == h[i].tenant
<1>1. /\ h \in [Handlers -> Tasks] /\ row \in [Tenants -> Row \cup {None}]
      /\ h[i].pc = "missing" /\ h[i].copy = Default /\ t \in Tenants
  <2>1. RequestOk(i) /\ Typed
    BY DEF SettledInv, BillingInv, HandlersOk
  <2>. QED BY <2>1, TaskShape DEF RequestOk, Typed, Inserts
<1>2. UNCHANGED <<owner, checkouts, subs, sent, received, acked, disturbed>>
  BY DEF Inserts, stripe
<1>3. SentOk'
  BY <1>2, SentKept DEF SettledInv, SentOk
<1>4. Grows
  BY <1>1, <1>2, DefaultRow DEF Grows, Inserts
<1>5. \A j \in Handlers \ {i} : h'[j] = h[j]
  BY <1>1 DEF Inserts
<1>6. \/ h'[i].pc = "idle" /\ row' = row
      \/ /\ h'[i].pc = "found" /\ h'[i].tenant = t /\ h'[i].copy = Default
         /\ row[t] = None /\ row' = [row EXCEPT ![t] = Default]
  BY <1>1 DEF Inserts, Tasks, Idle
<1>7. ASSUME NEW u \in Tenants \ disturbed
      PROVE  Followed(u)'
  <2>1. CASE row'[u] = row[u]
    <3>1. CASE row' = row
      <4>1. h'[i].pc = "idle"
        BY <1>1, <1>6, <3>1, DefaultRow
      <4>. QED BY <1>2, <1>4, <1>5, <2>1, <4>1, OtherRow
    <3>2. CASE row' # row
      <4>1. h'[i].tenant # u /\ h'[i].pc # "applies"
        BY <1>1, <1>6, <2>1, <3>2, DefaultRow
      <4>. QED BY <1>2, <1>4, <1>5, <2>1, <4>1, OtherRow
    <3>. QED BY <3>1, <3>2
  <2>2. CASE row'[u] # row[u]
    <3>1. row[u] = None /\ h'[i].pc # "applies" /\ h'[i].copy = Default
      BY <1>1, <1>6, <2>2
    <3>2. Default.customer = None
      BY DEF Default
    <3>. QED BY <1>2, <1>5, <3>1, <3>2, FirstCustomer
  <2>. QED BY <2>1, <2>2
<1>8. TakenOk'
  BY <1>2, <1>5, <1>6, TakenKept DEF SettledInv
<1>. QED BY <1>2, <1>3, <1>7, <1>8 DEF SettledInv

LEMMA LinksCustomerSettled ==
    ASSUME SettledInv, BillingInv', NEW i \in Handlers, LinksCustomer(i)
    PROVE  SettledInv'
<1> DEFINE t == h[i].tenant
<1>1. /\ h \in [Handlers -> Tasks] /\ row \in [Tenants -> Row \cup {None}]
      /\ h[i].pc = "created" /\ t \in Tenants /\ row[t] \in Row /\ h[i].copy \in Row
  <2>1. CopyOk(i) /\ Typed
    BY DEF SettledInv, BillingInv, HandlersOk
  <2>. QED BY <2>1, TaskShape DEF CopyOk, Typed, LinksCustomer
<1>2. UNCHANGED <<owner, checkouts, subs, sent, received, acked>>
  BY DEF LinksCustomer, stripe
<1>3. SentOk'
  BY <1>2, SentKept DEF SettledInv, SentOk
<1>4. /\ row' = [row EXCEPT ![t].customer = h[i].copy.customer]
      /\ disturbed' = IF row[t].customer = None THEN disturbed ELSE disturbed \cup {t}
      /\ \A j \in Handlers \ {i} : h'[j] = h[j]
      /\ h'[i].pc = "linked" /\ h'[i].tenant = t /\ h'[i].copy = h[i].copy
  BY <1>1 DEF LinksCustomer, Tasks, Idle
<1>5. /\ row'[t] \in Row /\ row'[t].customer = h[i].copy.customer /\ row'[t].sub = row[t].sub
      /\ \A u \in Tenants \ {t} : row'[u] = row[u]
  BY <1>1, <1>4 DEF Row
<1>6. Grows
  BY <1>1, <1>2, <1>5, BillingAssumption DEF Grows
<1>7. ASSUME NEW u \in Tenants \ disturbed'
      PROVE  Followed(u)'
  <2>1. u \in Tenants \ disturbed
    BY <1>4
  <2>2. CASE u = t
    <3>1. row[u].customer = None /\ row'[u] # None
      BY <1>4, <1>5, <2>2, BillingAssumption
    <3>. QED BY <1>2, <1>4, <1>5, <2>1, <2>2, <3>1, FirstCustomer
  <2>3. CASE u # t
    BY <1>2, <1>4, <1>5, <1>6, <2>1, <2>3, OtherRow
  <2>. QED BY <2>2, <2>3
<1>8. TakenOk'
  BY <1>2, <1>4, TakenKept DEF SettledInv
<1>. QED BY <1>3, <1>7, <1>8 DEF SettledInv

\* Stripe changes one subscription and sends its event.
Notifies(kind, s) ==
    /\ s \in DOMAIN subs' /\ Sends(kind, s)
    /\ UNCHANGED <<row, h, owner, received, acked, disturbed>>
    /\ checkouts' \subseteq checkouts
    /\ kind \in {"synced", "deleted"} /\ (kind = "deleted" <=> subs'[s].status = "canceled")
    /\ \A r \in DOMAIN subs : /\ r \in DOMAIN subs' /\ subs'[r].customer = subs[r].customer
                              /\ r # s => subs'[r] = subs[r]
    /\ \A r \in DOMAIN subs' : r \in DOMAIN subs \/ r = s
    /\ s \notin DOMAIN subs =>
          kind = "synced" /\ \E c \in checkouts : subs'[s].customer = c.customer

LEMMA NotifiesSettled ==
    ASSUME SettledInv, BillingInv', NEW kind, NEW s, Notifies(kind, s)
    PROVE  SettledInv'
<1> USE DEF Notifies
<1> DEFINE e == [kind |-> kind, sub |-> s, status |-> subs'[s].status, price |-> subs'[s].price]
           n == Len(sent) + 1
<1>1. sent \in Seq(Events) /\ sent' = Append(sent, e) /\ sent' \in Seq(Events)
  BY DEF Sends, SettledInv, BillingInv, Typed
<1>2. /\ n \in DOMAIN sent' /\ n \in Nat /\ sent'[n] = e
      /\ \A k \in DOMAIN sent : k \in DOMAIN sent' /\ sent'[k] = sent[k] /\ k \in Nat /\ k < n
      /\ \A k \in DOMAIN sent' : k \in DOMAIN sent \/ k = n
  BY <1>1
<1>3. e.kind = kind /\ e.sub = s /\ e.status = subs'[s].status /\ e.price = subs'[s].price
  OBVIOUS
<1> HIDE DEF e, n
<1>4. \A r \in DOMAIN subs' : Begun(r)'
  <2>1. ASSUME NEW r \in DOMAIN subs PROVE Begun(r)'
    <3>1. PICK k \in DOMAIN sent : sent[k].kind = "synced" /\ sent[k].sub = r
      BY DEF SettledInv, SentOk, Begun
    <3>. QED BY <1>2, <3>1 DEF Begun
  <2>2. CASE s \notin DOMAIN subs
    BY <1>2, <1>3, <2>1, <2>2 DEF Begun
  <2>. QED BY <2>1, <2>2
<1>5. \A r \in DOMAIN subs' : Told(r)'
  <2>1. ASSUME NEW r \in DOMAIN subs, r # s PROVE Told(r)'
    <3>1. PICK k \in DOMAIN sent :
            /\ sent[k].sub = r /\ \A j \in DOMAIN sent : sent[j].sub = r => j <= k
            /\ sent[k].status = subs[r].status /\ sent[k].price = subs[r].price
            /\ (sent[k].kind = "deleted") <=> (subs[r].status = "canceled")
      BY DEF SettledInv, SentOk, Told
    <3>2. \A j \in DOMAIN sent' : sent'[j].sub = r => j <= k
      BY <1>2, <1>3, <2>1, <3>1
    <3>. QED BY <1>2, <2>1, <3>1, <3>2 DEF Told
  <2>2. \A j \in DOMAIN sent' : j <= n
    BY <1>2
  <2>3. Told(s)'
    BY <1>2, <1>3, <2>2 DEF Told
  <2>. QED BY <2>1, <2>3
<1>6. SentOk'
  BY <1>2, <1>4, <1>5 DEF SettledInv, SentOk
<1>7. Grows
  BY <1>2 DEF Grows
<1>8. ASSUME NEW t \in Tenants \ disturbed
      PROVE  Followed(t)'
  <2>1. Followed(t) /\ BillingInv /\ SentOk
    BY DEF SettledInv
  <2>2. \A r \in DOMAIN subs' : \/ r \in DOMAIN subs
                                \/ owner'[subs'[r].customer] = t => Linked(t, subs'[r].customer)
    BY <2>1 DEF Followed, BoughtOk
  <2>3. BoughtOk(t)'
    BY <1>7, <2>1, <2>2, BoughtKept DEF Followed
  <2>4. BuysOk(t)'
    BY <2>1 DEF Followed, BuysOk, Linked
  <2>5. WorkOk(t)' /\ ShownOk(t)'
    BY <1>7, <2>1, FollowedKept
  <2>. QED BY <2>3, <2>4, <2>5 DEF Followed
<1>9. TakenOk'
  BY TakenKept DEF SettledInv
<1>. QED BY <1>6, <1>8, <1>9 DEF SettledInv

LEMMA StripeNotifies ==
    ASSUME BillingInv,
           \/ \E c \in checkouts : Pays(c)
           \/ \E s \in DOMAIN subs : Cancels(s) \/ \E m \in Moves : Changes(s, m)
    PROVE  \E kind, s : Notifies(kind, s)
<1>1. Typed
  BY DEF BillingInv
<1>2. ASSUME NEW c \in checkouts, Pays(c)
      PROVE  \E kind, r : Notifies(kind, r)
  <2> DEFINE new == [customer |-> c.customer, price |-> c.price, status |-> "active"]
  <2>1. new \in Subscriptions /\ new.customer = c.customer /\ new.status = "active"
    <3>1. c.customer \in DOMAIN owner /\ c.price \in Prices /\ DOMAIN owner \subseteq Nat
      BY <1>1 DEF Typed
    <3>. QED BY <3>1 DEF Subscriptions, StripeStatuses, StatusOf
  <2>2. /\ Len(subs') \in DOMAIN subs' /\ subs'[Len(subs')] = new
        /\ \A r \in DOMAIN subs : r \in DOMAIN subs' /\ subs'[r] = subs[r]
        /\ \A r \in DOMAIN subs' : r \in DOMAIN subs \/ r = Len(subs')
    BY <1>1, <1>2, <2>1 DEF Pays, Typed
  <2> HIDE DEF new
  <2>3. Notifies("synced", Len(subs'))
    BY <1>2, <2>1, <2>2 DEF Pays, Notifies
  <2>. QED BY <2>3
<1>3. ASSUME NEW s \in DOMAIN subs, Cancels(s)
      PROVE  \E kind, r : Notifies(kind, r)
  <2> DEFINE new == [subs[s] EXCEPT !.status = "canceled"]
  <2>1. new \in Subscriptions /\ new.customer = subs[s].customer /\ new.status = "canceled"
    <3>1. subs[s] \in Subscriptions /\ "canceled" \in StripeStatuses
      BY <1>1 DEF Typed, StripeStatuses, StatusOf
    <3>. QED BY <3>1 DEF Subscriptions
  <2>2. subs' = [subs EXCEPT ![s] = new]
    BY <1>3 DEF Cancels
  <2> HIDE DEF new
  <2>3. DOMAIN subs' = DOMAIN subs /\ subs'[s] = new
        /\ \A r \in DOMAIN subs \ {s} : subs'[r] = subs[r]
    BY <1>1, <2>1, <2>2 DEF Typed
  <2>4. Notifies("deleted", s)
    BY <1>3, <2>1, <2>3 DEF Cancels, Notifies
  <2>. QED BY <2>4
<1>4. ASSUME NEW s \in DOMAIN subs, NEW m \in Moves, Changes(s, m)
      PROVE  \E kind, r : Notifies(kind, r)
  <2> DEFINE new == [subs[s] EXCEPT !.status = m.status, !.price = m.price]
  <2>1. new \in Subscriptions /\ new.customer = subs[s].customer /\ new.status # "canceled"
    <3>1. /\ subs[s] \in Subscriptions
          /\ m \in [status : StripeStatuses \ {"canceled"}, price : Prices]
      BY <1>1, BillingAssumption DEF Typed
    <3>. QED BY <3>1 DEF Subscriptions
  <2>2. subs' = [subs EXCEPT ![s] = new]
    BY <1>4 DEF Changes
  <2> HIDE DEF new
  <2>3. DOMAIN subs' = DOMAIN subs /\ subs'[s] = new
        /\ \A r \in DOMAIN subs \ {s} : subs'[r] = subs[r]
    BY <1>1, <2>1, <2>2 DEF Typed
  <2>4. Notifies("synced", s)
    BY <1>4, <2>1, <2>3 DEF Changes, Notifies
  <2>. QED BY <2>4
<1>. QED BY <1>2, <1>3, <1>4

\* Taking an event: it is the newest that was taken, and no other is in work, or
\* the tenant counts as disturbed.
LEMMA ReceivesSettled ==
    ASSUME SettledInv, BillingInv', NEW i \in Handlers, NEW k \in DOMAIN sent, Receives(i, k)
    PROVE  SettledInv'
<1> DEFINE e == sent[k]
<1>1. /\ UNCHANGED <<row, owner, checkouts, subs, sent>> /\ received' = received \cup {k}
      /\ disturbed' = IF Overtaken(k) THEN disturbed \cup {OwnerOf(e)} ELSE disturbed
      /\ h \in [Handlers -> Tasks]
  BY DEF Receives, stripe, SettledInv, BillingInv, Typed
<1>2. /\ BillingInv /\ SentOk /\ k \in Nat /\ sent \in Seq(Events)
      /\ acked \subseteq received /\ received \subseteq DOMAIN sent /\ DOMAIN sent \subseteq Nat
  BY DEF SettledInv, BillingInv, Typed, SentOk
<1>3. \/ Matches(e) = {} /\ acked' = acked \cup {k} /\ h' = h
      \/ /\ acked' = acked
         /\ \E t \in Matches(e) :
               h' = [h EXCEPT ![i] = [pc |-> "applies", event |-> k, tenant |-> t, copy |-> row[t]]]
  BY DEF Receives
<1>4. acked' \in {acked, acked \cup {k}} /\ \A j \in Handlers \ {i} : h'[j] = h[j]
  BY <1>1, <1>3
<1>5. SentOk'
  BY <1>1, <1>2, <1>4, SentKept
<1>6. ASSUME NEW t \in Matches(e)
      PROVE  /\ t \in Tenants /\ t = OwnerOf(e)
             /\ row[t] \in Row
  BY <1>2, MatchesOwn DEF SubscriptionOf, CustomerOf, OwnerOf
<1>7. \A t, j : About(t, j)' <=> About(t, j)
  BY <1>1 DEF About
<1>8. ASSUME NEW t \in Tenants \ disturbed'
      PROVE  Followed(t)'
  <2>1. Followed(t) /\ t \notin disturbed
    BY <1>1, <1>8 DEF SettledInv
  <2>2. BoughtOk(t)'
    BY <1>1, <2>1 DEF Followed, BoughtOk, Linked
  <2>3. BuysOk(t)'
    BY <1>1, <1>3, <2>1 DEF Followed, BuysOk, Linked
  <2>4. CASE t # OwnerOf(e)
    <3>1. ~About(t, k)
      BY <2>4 DEF About, OwnerOf
    <3>2. \A j : Newest(t, j)' <=> Newest(t, j)
      BY <1>1, <1>7, <3>1 DEF Newest
    <3>3. \A j \in Handlers : h'[j] = h[j] \/ h'[j].tenant # t
      BY <1>1, <1>3, <1>6, <2>4
    <3>4. WorkOk(t)'
      BY <1>1, <2>1, <3>2, <3>3 DEF Followed, WorkOk, Agrees
    <3>5. ShownOk(t)'
      BY <1>1, <1>4, <1>7, <2>1, <3>1, <3>2 DEF Followed, ShownOk
    <3>. QED BY <2>2, <2>3, <3>4, <3>5 DEF Followed
  <2>5. CASE t = OwnerOf(e)
    <3>1. ~Overtaken(k)
      BY <1>1, <1>8, <2>5
    <3>2. About(t, k)
      BY <2>5 DEF About, OwnerOf
    <3>3. \A j \in received : About(t, j) => j <= k
      <4>1. ASSUME NEW j \in received, About(t, j)
            PROVE  subs[sent[j].sub].customer = subs[sent[k].sub].customer
        <5>1. \A l \in {j, k} : sent[l].sub \in DOMAIN subs
          BY <1>2, <4>1 DEF About, BillingInv, Typed
        <5>. QED BY <2>1, <3>2, <4>1, <5>1 DEF Followed, BoughtOk, Linked, About
      <4>. QED BY <1>2, <3>1, <4>1 DEF Overtaken
    <3>4. \A j \in Handlers : h[j].pc = "applies" /\ h[j].tenant = t => h[j].event = k
      BY <1>2, <2>5, <3>1 DEF Overtaken, BillingInv, HandlersOk, EventOk, SubscriptionOf, CustomerOf,
                              OwnerOf
    <3>5. Newest(t, k)' /\ Newest(t, k)
      BY <1>1, <1>2, <1>7, <3>3 DEF Newest
    <3>6. WorkOk(t)'
      <4>1. \A j \in Handlers : h'[j].pc = "applies" /\ h'[j].tenant = t =>
               h'[j].event = k /\ Agrees(j)'
        <5>1. ASSUME NEW j \in Handlers, h'[j] = h[j], h[j].pc = "applies", h[j].tenant = t
              PROVE  h'[j].event = k /\ Agrees(j)'
          <6>1. h[j].event = k /\ Agrees(j)
            BY <2>1, <3>4, <5>1 DEF Followed, WorkOk
          <6>2. Agrees(j)'
            BY <1>1, <5>1, <6>1 DEF Agrees, Same, Result
          <6>. QED BY <5>1, <6>1, <6>2
        <5>2. ASSUME h'[i] # h[i], h'[i].tenant = t
              PROVE  h'[i].event = k /\ Agrees(i)'
          <6>1. h'[i].event = k /\ h'[i].tenant = t /\ h'[i].copy = row[t]
            BY <1>1, <1>3, <5>2
          <6>. QED BY <1>1, <6>1 DEF Agrees, Same
        <5>. QED BY <1>4, <5>1, <5>2
      <4>. QED BY <1>1, <3>5, <4>1 DEF WorkOk, Newest
    <3>7. e.kind = "synced" => Matches(e) # {}
      <4>1. Linked(t, subs[e.sub].customer)
        <5>1. e.sub \in DOMAIN subs
          BY <1>2 DEF BillingInv, Typed
        <5>. QED BY <2>1, <2>5, <5>1 DEF Followed, BoughtOk, OwnerOf
      <4>. QED BY <1>8, <4>1 DEF Matches, Linked
    <3>8. e.kind \in {"synced", "deleted"} /\ row[t] # None
      <4>1. e \in Events /\ e.sub \in DOMAIN subs
        BY <1>2 DEF BillingInv, Typed
      <4>2. Linked(t, subs[e.sub].customer)
        BY <2>1, <2>5, <4>1 DEF Followed, BoughtOk, OwnerOf
      <4>. QED BY <4>1, <4>2 DEF Events, Linked
    <3>9. e.kind = "deleted" /\ row[t].sub = e.sub => Matches(e) # {}
      BY <1>8, <3>8 DEF Matches
    <3>10. ShownOk(t)'
      <4>1. ASSUME NEW l \in acked, About(t, l)
            PROVE  /\ row[t] # None
                   /\ sent[l].kind = "synced" => row[t].sub # None
                   /\ Newest(t, l)' /\ (sent[l].kind = "synced" \/ row[t].sub = sent[l].sub) =>
                         Same(Result(sent[l], row[t]), row[t])
        <5>1. Newest(t, l)' => Newest(t, l)
          BY <1>1, <1>7 DEF Newest
        <5>. QED BY <2>1, <4>1, <5>1 DEF Followed, ShownOk
      <4>2. acked' # acked =>
              Matches(e) = {} /\ e.kind # "synced" /\ row[t].sub # e.sub
        BY <1>3, <3>7, <3>8, <3>9
      <4>. QED BY <1>1, <1>4, <1>7, <3>8, <4>1, <4>2 DEF ShownOk, Same, Result
    <3>. QED BY <2>2, <2>3, <3>6, <3>10 DEF Followed
  <2>. QED BY <2>4, <2>5
<1>9. TakenOk'
  <2>1. h' = h \/ h'[i].event \in received'
    BY <1>1, <1>3
  <2>. QED BY <1>1, <1>4, <2>1, TakenKept DEF SettledInv
<1>. QED BY <1>5, <1>8, <1>9 DEF SettledInv

\* What a commit of the webhook writes.
LEMMA AppliesWrites ==
    ASSUME BillingInv, NEW i \in Handlers, Applies(i),
           NEW t, NEW k, NEW e, NEW copy, NEW res, NEW new,
           t = h[i].tenant, k = h[i].event, e = sent[k], copy = h[i].copy,
           res = Result(e, copy), new = Written(row[t], copy, res)
    PROVE  /\ t \in Tenants /\ row[t] \in Row /\ new \in Row
           /\ new.customer = row[t].customer /\ new.sub # None /\ SubscriptionOf(t, new.sub)
           /\ k \in DOMAIN sent /\ e \in Events /\ About(t, k) /\ copy \in Row /\ res \in Row
           /\ row' = [row EXCEPT ![t] = new] /\ acked' = acked \cup {k}
           /\ h'[i].pc = "idle" /\ \A j \in Handlers \ {i} : h'[j] = h[j]
           /\ UNCHANGED <<owner, checkouts, subs, sent, received, disturbed>>
           /\ row'[t] = new /\ \A u \in Tenants \ {t} : row'[u] = row[u]
           /\ Grows
<1>1. h \in [Handlers -> Tasks] /\ h[i].pc = "applies" /\ row \in [Tenants -> Row \cup {None}]
  BY DEF BillingInv, Typed, Applies
<1>2. /\ t \in Tenants /\ row[t] \in Row /\ new \in Row /\ new.customer = row[t].customer
      /\ new.sub # None /\ SubscriptionOf(t, new.sub)
  BY <1>1, AppliesShape
<1>3. k \in DOMAIN sent /\ e \in Events /\ About(t, k) /\ copy \in Row /\ res \in Row
  <2>1. EventOk(i) /\ copy \in Row
    BY <1>1, TaskShape DEF BillingInv, HandlersOk
  <2>2. k \in DOMAIN sent /\ e \in Events /\ About(t, k)
    BY <1>1, <2>1 DEF EventOk, SubscriptionOf, CustomerOf, About, BillingInv, Typed
  <2>. QED BY <2>1, <2>2, ResultShape
<1>4. ~\E u \in Tenants \ {t} : row[u] # None /\ new.sub # None /\ row[u].sub = new.sub
  BY <1>2 DEF BillingInv, RowsOwned, Owned, SubscriptionOf, CustomerOf
<1>5. /\ row' = [row EXCEPT ![t] = new] /\ acked' = acked \cup {k}
      /\ h'[i].pc = "idle" /\ \A j \in Handlers \ {i} : h'[j] = h[j]
      /\ UNCHANGED <<owner, checkouts, subs, sent, received, disturbed>>
  BY <1>1, <1>4 DEF Applies, stripe, Idle
<1>6. row'[t] = new /\ \A u \in Tenants \ {t} : row'[u] = row[u]
  BY <1>1, <1>2, <1>5
<1>7. Grows
  BY <1>2, <1>5, <1>6, BillingAssumption DEF Grows
<1>. QED BY <1>2, <1>3, <1>5, <1>6, <1>7

\* Applying an event: the row shows it, and handlers that apply it too agree.
LEMMA AppliesSettled ==
    ASSUME SettledInv, BillingInv', NEW i \in Handlers, Applies(i)
    PROVE  SettledInv'
<1>1. PICK t, k, e, copy, res, new :
        /\ t = h[i].tenant /\ k = h[i].event /\ e = sent[k] /\ copy = h[i].copy
        /\ res = Result(e, copy) /\ new = Written(row[t], copy, res)
  OBVIOUS
<1>2. /\ BillingInv /\ SentOk /\ h \in [Handlers -> Tasks] /\ h[i].pc = "applies"
      /\ row \in [Tenants -> Row \cup {None}] /\ acked \subseteq received
      /\ received \subseteq DOMAIN sent /\ DOMAIN sent \subseteq Nat
      /\ sent \in Seq(Events)
  BY DEF SettledInv, BillingInv, Typed, SentOk, Applies
<1>3. /\ t \in Tenants /\ row[t] \in Row /\ new \in Row /\ new.customer = row[t].customer
      /\ new.sub # None /\ SubscriptionOf(t, new.sub)
  BY <1>1, <1>2, AppliesWrites
<1>4. k \in DOMAIN sent /\ e \in Events /\ About(t, k) /\ copy \in Row /\ res \in Row
  BY <1>1, <1>2, AppliesWrites
<1>5. Grows
  BY <1>1, <1>2, AppliesWrites
<1>6. /\ row' = [row EXCEPT ![t] = new] /\ acked' = acked \cup {k}
      /\ h'[i].pc = "idle" /\ \A j \in Handlers \ {i} : h'[j] = h[j]
      /\ UNCHANGED <<owner, checkouts, subs, sent, received, disturbed>>
  BY <1>1, <1>2, AppliesWrites
<1>7. row'[t] = new /\ \A u \in Tenants \ {t} : row'[u] = row[u]
  BY <1>1, <1>2, AppliesWrites
<1>9. \A u, j : About(u, j)' <=> About(u, j)
  BY <1>6 DEF About
<1>10. \A u, j : Newest(u, j)' <=> Newest(u, j)
  BY <1>6, <1>9 DEF Newest
<1>11. ASSUME NEW u \in Tenants \ disturbed
       PROVE  BoughtOk(u)' /\ BuysOk(u)'
  <2>1. Followed(u)
    BY <1>11 DEF SettledInv
  <2>2. row[u] # None => row'[u] # None /\ row'[u].customer = row[u].customer
    BY <1>3, <1>7, BillingAssumption
  <2>3. BoughtOk(u)'
    BY <1>2, <1>5, <1>6, <2>1, <2>2, BoughtKept DEF Followed
  <2>4. BuysOk(u)'
    BY <1>6, <2>1, <2>2 DEF Followed, BuysOk, Linked
  <2>. QED BY <2>3, <2>4
<1>12. ASSUME NEW u \in Tenants \ disturbed, u # t
       PROVE  WorkOk(u)' /\ ShownOk(u)'
  <2>1. Followed(u) /\ row'[u] = row[u] /\ ~About(u, k)
    BY <1>4, <1>7, <1>12 DEF SettledInv, About
  <2>2. WorkOk(u)'
    BY <1>6, <1>10, <2>1 DEF Followed, WorkOk, Agrees
  <2>3. ShownOk(u)'
    BY <1>6, <1>9, <1>10, <2>1 DEF Followed, ShownOk
  <2>. QED BY <2>2, <2>3
<1>13. ASSUME t \notin disturbed
       PROVE  WorkOk(t)' /\ ShownOk(t)'
  <2>1. Followed(t)
    BY <1>3, <1>13 DEF SettledInv
  <2>2. /\ k \in received /\ Newest(t, k)
        /\ Same(copy, row[t]) \/ Same(res, row[t])
    BY <1>1, <1>2, <2>1 DEF Followed, WorkOk, Agrees
  <2>3. Same(new, res)
    BY <1>1, <1>3, <1>4, <2>2, WrittenSame
  <2>4. Same(Result(e, new), new)
    BY <1>1, <1>3, <1>4, <2>3, SameResult DEF Same
  <2>5. ShownOk(t)'
    <3>1. ASSUME NEW l \in acked', About(t, l), Newest(t, l)
          PROVE  l = k
      BY <1>2, <1>4, <1>6, <2>2, <3>1 DEF Newest
    <3>2. new # None /\ e = sent[k]
      BY <1>1, <1>3, BillingAssumption
    <3>. QED BY <1>3, <1>6, <1>7, <1>9, <1>10, <2>4, <3>1, <3>2 DEF ShownOk, Same, Result
  <2>6. WorkOk(t)'
    <3>1. ASSUME NEW j \in Handlers \ {i}, h[j].pc = "applies", h[j].tenant = t
          PROVE  h[j].event = k /\ (Same(h[j].copy, new) \/ Same(Result(e, h[j].copy), new))
      <4>1. h[j].event \in received /\ Newest(t, h[j].event) /\ Agrees(j)
        BY <2>1, <3>1 DEF Followed, WorkOk
      <4>2. EventOk(j) /\ h[j].copy \in Row
        BY <1>2, <3>1, TaskShape DEF BillingInv, HandlersOk
      <4>3. About(t, h[j].event)
        BY <3>1, <4>2 DEF EventOk, SubscriptionOf, CustomerOf, About
      <4>4. h[j].event = k
        BY <1>2, <1>4, <2>2, <4>1, <4>3 DEF Newest
      <4>5. Result(e, h[j].copy) \in Row
        BY <1>4, <4>2, ResultShape
      <4>6. Same(h[j].copy, row[t]) \/ Same(Result(e, h[j].copy), row[t])
        BY <1>1, <3>1, <4>1, <4>4 DEF Agrees
      <4>7. CASE Same(res, row[t])
        BY <2>3, <4>4, <4>6, <4>7 DEF Same
      <4>8. CASE Same(copy, row[t]) /\ Same(h[j].copy, row[t])
        <5>1. Same(copy, h[j].copy)
          BY <4>8 DEF Same
        <5>2. Same(res, Result(e, h[j].copy))
          BY <1>1, <1>4, <4>2, <5>1, SameResult
        <5>. QED BY <2>3, <4>4, <5>2 DEF Same
      <4>9. CASE Same(copy, row[t]) /\ Same(Result(e, h[j].copy), row[t])
        <5>1. Same(Result(e, row[t]), row[t])
          BY <1>3, <1>4, <4>2, <4>9, SameResult
        <5>2. Same(res, Result(e, row[t]))
          BY <1>1, <1>3, <1>4, <4>9, SameResult
        <5>. QED BY <2>3, <4>4, <4>9, <5>1, <5>2 DEF Same
      <4>10. Same(h[j].copy, new) \/ Same(Result(e, h[j].copy), new)
        BY <2>2, <4>6, <4>7, <4>8, <4>9
      <4>. QED BY <4>4, <4>10
    <3>2. ASSUME NEW j \in Handlers, h'[j].pc = "applies", h'[j].tenant = t
          PROVE  h'[j] = h[j] /\ h[j].event = k /\ Agrees(j)'
      <4>1. j \in Handlers \ {i} /\ h'[j] = h[j]
        BY <1>6, <3>2
      <4>2. h[j].event = k /\ (Same(h[j].copy, new) \/ Same(Result(e, h[j].copy), new))
        BY <3>1, <3>2, <4>1
      <4>3. sent'[h'[j].event] = e /\ row'[h'[j].tenant] = new /\ h'[j].copy = h[j].copy
        BY <1>1, <1>6, <1>7, <3>2, <4>1, <4>2
      <4>. QED BY <4>1, <4>2, <4>3 DEF Agrees, Same, Result
    <3>. QED BY <1>6, <1>10, <2>2, <3>2 DEF WorkOk, Newest
  <2>. QED BY <2>5, <2>6
<1>14. SentOk' /\ TakenOk'
  <2>1. k \in received
    BY <1>1, <1>2 DEF SettledInv, TakenOk
  <2>. QED BY <1>2, <1>4, <1>6, <2>1, SentKept, TakenKept DEF SettledInv
<1>. QED BY <1>6, <1>11, <1>12, <1>13, <1>14 DEF SettledInv, Followed

LEMMA SettledInit == Init => SettledInv
<1> SUFFICES ASSUME Init PROVE SettledInv
  OBVIOUS
<1>1. DOMAIN subs = {} /\ DOMAIN sent = {} /\ checkouts = {} /\ acked = {} /\ received = {}
  BY DEF Init
<1>2. \A i \in Handlers : h[i].pc = "idle"
  BY DEF Init, Idle
<1>3. SentOk /\ TakenOk
  BY <1>1, <1>2 DEF SentOk, TakenOk
<1>4. ASSUME NEW t \in Tenants PROVE Followed(t)
  BY <1>1, <1>2 DEF Followed, BoughtOk, BuysOk, WorkOk, ShownOk
<1>. QED BY <1>3, <1>4, BillingInit DEF SettledInv

LEMMA SettledSteps == SettledInv /\ [Next]_vars => SettledInv'
<1> SUFFICES ASSUME SettledInv, [Next]_vars PROVE SettledInv'
  OBVIOUS
<1>1. BillingInv'
  BY BillingSteps DEF SettledInv
<1>2. CASE UNCHANGED vars
  <2>1. Grows
    BY <1>2 DEF vars, Grows
  <2>2. UNCHANGED <<row, h, owner, checkouts, subs, sent, acked, received, disturbed>>
    BY <1>2 DEF vars
  <2>. QED BY <1>1, <2>1, <2>2, QuietStep
<1>3. ASSUME NEW i \in Handlers, NEW t \in Tenants,
             LooksUp(i, t, "report", None) \/ \E plan \in Plans : LooksUp(i, t, "checkout", plan)
      PROVE  SettledInv'
  BY <1>1, <1>3, RequestsSettled
<1>4. ASSUME NEW i \in Handlers, Reports(i) \/ CreatesCustomer(i) \/ OpensCheckout(i) \/ Dies(i)
      PROVE  SettledInv'
  BY <1>1, <1>4, RequestsSettled
<1>5. ASSUME NEW i \in Handlers, Inserts(i) \/ LinksCustomer(i) \/ Applies(i)
      PROVE  SettledInv'
  BY <1>1, <1>5, InsertsSettled, LinksCustomerSettled, AppliesSettled
<1>6. ASSUME NEW i \in Handlers, NEW k \in DOMAIN sent, Receives(i, k) PROVE SettledInv'
  BY <1>1, <1>6, ReceivesSettled
<1>7. ASSUME \/ \E c \in checkouts : Pays(c)
             \/ \E s \in DOMAIN subs : Cancels(s) \/ \E m \in Moves : Changes(s, m)
      PROVE  SettledInv'
  <2>1. PICK kind, s : Notifies(kind, s)
    BY <1>7, StripeNotifies DEF SettledInv
  <2>. QED BY <1>1, <2>1, NotifiesSettled
<1>. QED BY <1>2, <1>3, <1>4, <1>5, <1>6, <1>7 DEF Next

\* As long as nothing has disturbed a tenant: what was bought for it was bought for its
\* row's customer, what works on its row works with the newest event that was taken, and
\* the newest event is acknowledged only when the row shows it (stripe_webhook).
THEOREM SettledInvariant == Spec => []SettledInv
BY SettledInit, SettledSteps, PTL DEF Spec

\* Every variable stays in its type, the counters within their bounds.
THEOREM BillingTyped == Spec => []TypeOK
<1> USE BillingAssumption DEF stripe
<1>1. Init => TypeOK
  BY BillingInit DEF Init, BillingInv, TypeOK
<1>2. TypeOK /\ SettledInv /\ SettledInv' /\ [Next]_vars => TypeOK'
  <2> SUFFICES ASSUME TypeOK, BillingInv, BillingInv', SentOk', [Next]_vars PROVE TypeOK'
    BY DEF SettledInv
  <2>1. Typed' /\ acked' \subseteq received' /\ received' \subseteq DOMAIN sent'
    BY DEF BillingInv, SentOk
  <2> DEFINE Rest == /\ disturbed' \subseteq Tenants
                     /\ requests' \in 0 .. MaxRequests /\ faults' \in 0 .. MaxFaults
  <2>2. disturbed \subseteq Tenants /\ requests \in 0 .. MaxRequests /\ faults \in 0 .. MaxFaults
    BY DEF TypeOK
  <2>3. ASSUME UNCHANGED vars PROVE Rest
    <3>1. UNCHANGED <<requests, faults, disturbed>>
      BY <2>3 DEF vars
    <3>. QED BY <2>2, <3>1
  <2>4. ASSUME NEW i \in Handlers, NEW t, NEW op, NEW plan, LooksUp(i, t, op, plan) PROVE Rest
    <3>1. requests < MaxRequests /\ requests' = requests + 1
          /\ UNCHANGED <<faults, disturbed>>
      BY <2>4 DEF LooksUp
    <3>. QED BY <2>2, <3>1
  <2>5. ASSUME NEW i \in Handlers,
               Inserts(i) \/ Reports(i) \/ CreatesCustomer(i) \/ OpensCheckout(i) \/ Applies(i)
        PROVE  Rest
    <3>1. UNCHANGED <<requests, faults, disturbed>>
      BY <2>5 DEF Inserts, Reports, CreatesCustomer, OpensCheckout, Applies
    <3>. QED BY <2>2, <3>1
  <2>6. ASSUME NEW i \in Handlers, Dies(i) PROVE Rest
    <3>1. faults < MaxFaults /\ faults' = faults + 1 /\ UNCHANGED <<requests, disturbed>>
      BY <2>6 DEF Dies
    <3>. QED BY <2>2, <3>1
  <2>7. ASSUME NEW i \in Handlers, LinksCustomer(i) PROVE Rest
    <3>1. h[i].tenant \in Tenants
      BY <2>7, TaskShape DEF LinksCustomer, BillingInv
    <3>2. disturbed' \in {disturbed, disturbed \cup {h[i].tenant}}
          /\ UNCHANGED <<requests, faults>>
      BY <2>7 DEF LinksCustomer
    <3>. QED BY <2>2, <3>1, <3>2
  <2>8. ASSUME NEW i \in Handlers, NEW k \in DOMAIN sent, Receives(i, k) PROVE Rest
    <3>1. OwnerOf(sent[k]) \in Tenants
      <4>1. sent[k].sub \in DOMAIN subs /\ owner \in Seq(Tenants)
        BY DEF BillingInv, Typed
      <4>2. subs[sent[k].sub].customer \in DOMAIN owner
        BY <4>1 DEF BillingInv, Typed
      <4>. QED BY <4>1, <4>2 DEF OwnerOf
    <3>2. /\ disturbed' \in {disturbed, disturbed \cup {OwnerOf(sent[k])}}
          /\ requests' = requests
          /\ faults' = faults \/ (faults < MaxFaults /\ faults' = faults + 1)
      BY <2>8 DEF Receives
    <3>. QED BY <2>2, <3>1, <3>2
  <2>9. ASSUME \/ \E c \in checkouts : Pays(c)
               \/ \E s \in DOMAIN subs : Cancels(s) \/ \E m \in Moves : Changes(s, m)
        PROVE  Rest
    <3>1. UNCHANGED <<requests, faults, disturbed>>
      BY <2>9 DEF Pays, Cancels, Changes
    <3>. QED BY <2>2, <3>1
  <2>10. Rest
    <3> HIDE DEF Rest
    <3>1. ASSUME NEW i \in Handlers,
                 \/ \E t \in Tenants :
                       LooksUp(i, t, "report", None)
                       \/ \E plan \in Plans : LooksUp(i, t, "checkout", plan)
                 \/ Inserts(i) \/ Reports(i) \/ CreatesCustomer(i) \/ LinksCustomer(i)
                 \/ OpensCheckout(i) \/ Dies(i)
                 \/ \E k \in DOMAIN sent : Receives(i, k)
                 \/ Applies(i)
          PROVE  Rest
      BY <3>1, <2>4, <2>5, <2>6, <2>7, <2>8
    <3>. QED BY <2>3, <2>9, <3>1 DEF Next
  <2>. QED BY <2>1, <2>10 DEF TypeOK
<1>. QED BY <1>1, <1>2, SettledInvariant, PTL DEF Spec

\* Once Stripe's events are all acknowledged, an undisturbed tenant's row says what Stripe
\* says of its one subscription, after lost answers, deaths and repeated deliveries
\* (_sync_subscription_from_stripe_object, _mark_subscription_canceled).
THEOREM RowsSettle == Spec => []SettledIsStripes
<1>1. ASSUME SettledInv PROVE SettledIsStripes
  <2> SUFFICES ASSUME NEW t \in Tenants \ disturbed, NEW s \in DOMAIN subs,
                      owner[subs[s].customer] = t,
                      \A r \in DOMAIN subs \ {s} : owner[subs[r].customer] # t,
                      {k \in DOMAIN sent : sent[k].sub = s} \subseteq acked,
                      subs[s].status \in DOMAIN StatusOf,
                      PlansFor(subs[s].price) # {}
               PROVE  /\ row[t].sub = s
                      /\ row[t].status = StatusOf[subs[s].status]
                      /\ row[t].plan = IF subs[s].status = "canceled" THEN "free"
                                                                    ELSE subs[s].price
    BY DEF SettledIsStripes
  <2>1. BillingInv /\ SentOk /\ ShownOk(t)
    BY <1>1 DEF SettledInv, Followed
  <2>2. PICK k \in DOMAIN sent :
           /\ sent[k].sub = s /\ \A j \in DOMAIN sent : sent[j].sub = s => j <= k
           /\ sent[k].status = subs[s].status /\ sent[k].price = subs[s].price
           /\ (sent[k].kind = "deleted") <=> (subs[s].status = "canceled")
    BY <2>1 DEF SentOk, Told
  <2>3. PICK b \in DOMAIN sent : sent[b].kind = "synced" /\ sent[b].sub = s
    BY <2>1 DEF SentOk, Begun
  <2>4. About(t, k) /\ About(t, b) /\ k \in acked /\ b \in acked
    BY <2>2, <2>3 DEF About
  <2>5. row[t] # None /\ row[t].sub # None
    BY <2>1, <2>3, <2>4 DEF ShownOk
  <2>6. row[t].sub = s
    BY <2>1, <2>5 DEF BillingInv, RowsOwned, Owned, SubscriptionOf, CustomerOf
  <2>7. Newest(t, k)
    <3>1. \A j \in DOMAIN sent : sent[j].sub \in DOMAIN subs
      BY <2>1 DEF BillingInv, Typed
    <3>. QED BY <2>1, <2>2, <3>1 DEF Newest, About, SentOk
  <2>8. sent[k] \in Events /\ row[t] \in Row
    BY <2>1, <2>5 DEF BillingInv, Typed
  <2>9. Same(Result(sent[k], row[t]), row[t])
    BY <2>1, <2>2, <2>4, <2>6, <2>7 DEF ShownOk
  <2>10. CASE sent[k].kind = "deleted"
    <3>1. Result(sent[k], row[t]).plan = "free" /\ Result(sent[k], row[t]).status = "canceled"
      BY <2>8, <2>10 DEF Result, Row
    <3>2. StatusOf["canceled"] = "canceled"
      BY DEF StatusOf
    <3>. QED BY <2>2, <2>6, <2>9, <2>10, <3>1, <3>2 DEF Same
  <2>11. CASE sent[k].kind # "deleted"
    <3>1. /\ Result(sent[k], row[t]).plan = subs[s].price
          /\ Result(sent[k], row[t]).status = StatusOf[subs[s].status]
      BY <2>2, <2>8, <2>11 DEF Result, Row
    <3>. QED BY <2>2, <2>6, <2>9, <2>11, <3>1 DEF Same
  <2>. QED BY <2>10, <2>11
<1>. QED BY <1>1, SettledInvariant, PTL

-------------------------------------------------------------------------------
(* The webhook implements Subscription.                                     *)

Accounts == [t \in Tenants |-> AccountOf(IF row[t] = None THEN Default ELSE row[t])]
Spoken   == [k \in DOMAIN sent |-> WordOf(sent[k])]
Heard    == [t \in Tenants |-> NewestOf(t)]

\* Of the events about a tenant that were taken one is the newest.
TopOk == \A t \in Tenants : TakenOf(t) # {} =>
            \E k \in TakenOf(t) : \A j \in TakenOf(t) : j <= k

ImplInv == SettledInv /\ TopOk

LEMMA NewestIs ==
    ASSUME ImplInv, NEW t \in Tenants
    PROVE  /\ NewestOf(t) \in Nat
           /\ \A k \in TakenOf(t) : k <= NewestOf(t)
           /\ TakenOf(t) # {} => NewestOf(t) \in TakenOf(t)
<1>1. TakenOf(t) \subseteq Nat
  BY DEF ImplInv, SettledInv, SentOk, BillingInv, Typed, TakenOf
<1>2. CASE TakenOf(t) = {}
  BY <1>2 DEF NewestOf, Latest
<1>3. CASE TakenOf(t) # {}
  <2>1. \E k \in TakenOf(t) : \A j \in TakenOf(t) : j <= k
    BY <1>3 DEF ImplInv, TopOk
  <2>2. NewestOf(t) = CHOOSE k \in TakenOf(t) : \A j \in TakenOf(t) : j <= k
    BY <1>3 DEF NewestOf, Latest
  <2>3. NewestOf(t) \in TakenOf(t) /\ \A j \in TakenOf(t) : j <= NewestOf(t)
    BY <2>1, <2>2
  <2>. QED BY <1>1, <2>3
<1>. QED BY <1>2, <1>3

LEMMA WordKept ==
    ASSUME BillingInv, Grows
    PROVE  \A k \in DOMAIN sent : WordOf(sent[k])' = WordOf(sent[k]) /\ OwnerOf(sent[k])' = OwnerOf(sent[k])
<1>1. ASSUME NEW k \in DOMAIN sent
      PROVE  OwnerOf(sent[k])' = OwnerOf(sent[k]) /\ sent'[k] = sent[k]
  BY DEF BillingInv, Typed, Grows, OwnerOf
<1>. QED BY <1>1 DEF WordOf, OwnerOf, PlansFor

\* A step that takes no event hears none.
LEMMA HeardKept ==
    ASSUME BillingInv, SentOk, Grows, received' = received
    PROVE  Heard' = Heard /\ (TopOk => TopOk')
<1>1. ASSUME NEW t \in Tenants PROVE TakenOf(t)' = TakenOf(t)
  BY WordKept DEF SentOk, TakenOf
<1>2. ASSUME NEW t \in Tenants PROVE NewestOf(t)' = NewestOf(t)
  BY <1>1 DEF NewestOf
<1>. QED BY <1>1, <1>2 DEF Heard, TopOk

\* An event sets the columns that its word names.
LEMMA Tells ==
    ASSUME NEW e \in Events, NEW r \in Row, NEW f \in Promised!Columns
    PROVE  Result(e, r)[f] = IF WordOf(e)[f] # None THEN WordOf(e)[f] ELSE r[f]
<1> DEFINE new == Result(e, r)
           word == WordOf(e)
<1>1. e.sub # None /\ e.price # None /\ "free" # None /\ "canceled" # None
      /\ \A s \in DOMAIN StatusOf : StatusOf[s] # None
  <2>1. e.sub \in Nat /\ e.price \in Prices
    BY DEF Events
  <2>2. "canceled" \in {StatusOf[s] : s \in DOMAIN StatusOf}
    BY DEF StatusOf
  <2>. QED BY <2>1, <2>2, BillingAssumption
<1>2. CASE e.kind = "deleted"
  <2>1. word.plan = "free" /\ word.status = "canceled" /\ word.sub = None
    BY <1>2 DEF WordOf
  <2>2. new.plan = "free" /\ new.status = "canceled" /\ new.sub = r.sub
    BY <1>2 DEF Result, Row
  <2>. QED BY <1>1, <2>1, <2>2 DEF Promised!Columns
<1>3. CASE e.kind # "deleted"
  <2>1. /\ word.plan = IF PlansFor(e.price) = {} THEN None ELSE e.price
        /\ word.status = IF e.status \in DOMAIN StatusOf THEN StatusOf[e.status] ELSE None
        /\ word.sub = e.sub
    BY <1>3 DEF WordOf
  <2>2. /\ new.plan = IF PlansFor(e.price) = {} THEN r.plan ELSE e.price
        /\ new.status = IF e.status \in DOMAIN StatusOf THEN StatusOf[e.status] ELSE r.status
        /\ new.sub = e.sub
    BY <1>3 DEF Result, Row
  <2> HIDE DEF new, word
  <2>3. /\ new.plan = IF word.plan # None THEN word.plan ELSE r.plan
        /\ new.status = IF word.status # None THEN word.status ELSE r.status
        /\ new.sub = IF word.sub # None THEN word.sub ELSE r.sub
    BY <1>1, <2>1, <2>2
  <2>. QED BY <2>3 DEF Promised!Columns, new, word
<1>. QED BY <1>2, <1>3

\* Told of all its columns, an account is as the row with the event applied ...
LEMMA WholeWord ==
    ASSUME NEW e \in Events, NEW r \in Row
    PROVE  AccountOf(Result(e, r)) = Promised!Told(AccountOf(r), WordOf(e), Promised!Columns)
<1>1. \A f \in Promised!Columns :
        Result(e, r)[f] = IF WordOf(e)[f] # None THEN WordOf(e)[f] ELSE r[f]
  BY Tells
<1>. QED BY <1>1 DEF AccountOf, Promised!Told, Promised!Columns

\* ... and what is written from a copy is a part of it.
LEMMA PartOfWord ==
    ASSUME NEW e \in Events, NEW r \in Row, NEW copy \in Row
    PROVE  \E columns \in SUBSET Promised!Columns :
              AccountOf(Written(r, copy, Result(e, copy))) =
                 Promised!Told(AccountOf(r), WordOf(e), columns)
<1> DEFINE res == Result(e, copy)
           columns == {f \in Promised!Columns : res[f] # copy[f]}
<1>1. \A f \in Promised!Columns :
        res[f] = IF WordOf(e)[f] # None THEN WordOf(e)[f] ELSE copy[f]
  BY Tells
<1> HIDE DEF res
<1>2. \A f \in Promised!Columns :
        Written(r, copy, res)[f] = IF res[f] # copy[f] THEN res[f] ELSE r[f]
  BY DEF Written, Row, Promised!Columns
<1>3. \A f \in Promised!Columns :
        AccountOf(Written(r, copy, res))[f] = Written(r, copy, res)[f] /\ AccountOf(r)[f] = r[f]
  BY DEF AccountOf, Promised!Columns
<1>4. AccountOf(Written(r, copy, res)) = [f \in Promised!Columns |-> Written(r, copy, res)[f]]
  BY DEF AccountOf, Promised!Columns
<1>5. AccountOf(Written(r, copy, res)) = Promised!Told(AccountOf(r), WordOf(e), columns)
  BY <1>1, <1>2, <1>3, <1>4 DEF Promised!Told
<1>. QED BY <1>5 DEF res

LEMMA WordShape ==
    ASSUME BillingInv, NEW k \in DOMAIN sent
    PROVE  WordOf(sent[k]) \in Promised!Words
<1>1. sent[k] \in Events /\ sent[k].sub \in DOMAIN subs /\ owner \in Seq(Tenants)
  BY DEF BillingInv, Typed
<1>2. subs[sent[k].sub].customer \in DOMAIN owner
  BY <1>1 DEF BillingInv, Typed
<1>3. OwnerOf(sent[k]) \in Tenants
  BY <1>1, <1>2 DEF OwnerOf
<1>4. sent[k].price \in Prices /\ sent[k].sub \in Nat
  BY <1>1 DEF Events
<1>. QED BY <1>3, <1>4, StatusWords DEF WordOf, Promised!Words, PlansFor, Prices

\* Nothing of the accounts, the events taken or the tenants upset changes.
LEMMA Stutters ==
    ASSUME BillingInv, SentOk, Grows, UNCHANGED <<sent, received, disturbed>>,
           \A t \in Tenants : AccountOf(IF row'[t] = None THEN Default ELSE row'[t])
                             = AccountOf(IF row[t] = None THEN Default ELSE row[t])
    PROVE  UNCHANGED <<Accounts, Spoken, Heard, disturbed>>
<1>1. Accounts' = Accounts
  BY DEF Accounts, AccountOf
<1>2. Spoken' = Spoken
  BY WordKept DEF Spoken
<1>. QED BY <1>1, <1>2, HeardKept

AbsStep == Promised!Next \/ UNCHANGED <<Accounts, Spoken, Heard, disturbed>>

LEMMA RequestsImplement ==
    ASSUME ImplInv, NEW i \in Handlers,
           \/ \E t \in Tenants, op \in {"report", "checkout"}, plan \in Plans \cup {None} :
                 LooksUp(i, t, op, plan)
           \/ Inserts(i) \/ Reports(i) \/ CreatesCustomer(i) \/ OpensCheckout(i) \/ Dies(i)
    PROVE  AbsStep /\ TopOk'
<1>1. UNCHANGED <<subs, sent, received, disturbed>>
  BY DEF LooksUp, Inserts, Reports, CreatesCustomer, OpensCheckout, Dies, stripe
<1>2. \/ row' = row
      \/ row[h[i].tenant] = None /\ row' = [row EXCEPT ![h[i].tenant] = Default]
  BY DEF LooksUp, Inserts, Reports, CreatesCustomer, OpensCheckout, Dies
<1>3. owner' = owner \/ owner' = Append(owner, h[i].tenant)
  BY DEF LooksUp, Inserts, Reports, CreatesCustomer, OpensCheckout, Dies, stripe
<1>4. owner \in Seq(Tenants) /\ row \in [Tenants -> Row \cup {None}] /\ BillingInv /\ SentOk
  BY DEF ImplInv, SettledInv, BillingInv, Typed
<1>5. \A c \in DOMAIN owner : c \in DOMAIN owner' /\ owner'[c] = owner[c]
  BY <1>3, <1>4
<1>6. Grows
  BY <1>1, <1>2, <1>4, <1>5, DefaultRow DEF Grows
<1>7. \A t \in Tenants : AccountOf(IF row'[t] = None THEN Default ELSE row'[t])
                        = AccountOf(IF row[t] = None THEN Default ELSE row[t])
  BY <1>2, <1>4, DefaultRow
<1>8. TopOk'
  BY <1>1, <1>4, <1>6, HeardKept DEF ImplInv
<1>. QED BY <1>1, <1>4, <1>6, <1>7, <1>8, Stutters DEF AbsStep

LEMMA LinkImplements ==
    ASSUME ImplInv, NEW i \in Handlers, LinksCustomer(i)
    PROVE  AbsStep /\ TopOk'
<1> DEFINE t == h[i].tenant
<1>1. BillingInv /\ SentOk /\ t \in Tenants /\ row[t] \in Row /\ h[i].copy \in Row
  <2>1. BillingInv /\ SentOk /\ CopyOk(i) /\ h[i].pc = "created"
    BY DEF ImplInv, SettledInv, BillingInv, HandlersOk, LinksCustomer
  <2>. QED BY <2>1, TaskShape DEF CopyOk, BillingInv, Typed
<1>2. UNCHANGED <<owner, subs, sent, received>>
  BY DEF LinksCustomer, stripe
<1>3. /\ row'[t] \in Row /\ AccountOf(row'[t]) = AccountOf(row[t]) /\ row'[t].sub = row[t].sub
      /\ \A u \in Tenants \ {t} : row'[u] = row[u]
  BY <1>1 DEF LinksCustomer, Row, AccountOf, BillingInv, Typed
<1>4. Grows
  BY <1>1, <1>2, <1>3, BillingAssumption DEF Grows
<1>5. \A u \in Tenants : AccountOf(IF row'[u] = None THEN Default ELSE row'[u])
                        = AccountOf(IF row[u] = None THEN Default ELSE row[u])
  BY <1>1, <1>3, BillingAssumption
<1>6. Accounts' = Accounts /\ Spoken' = Spoken /\ Heard' = Heard
  <2>1. Accounts' = Accounts
    BY <1>5 DEF Accounts, AccountOf
  <2>2. Spoken' = Spoken
    BY <1>1, <1>2, <1>4, WordKept DEF Spoken
  <2>. QED BY <1>1, <1>2, <1>4, <2>1, <2>2, HeardKept
<1>7. disturbed' = disturbed \/ disturbed' = disturbed \cup {t}
  BY DEF LinksCustomer
<1>8. TopOk'
  BY <1>1, <1>2, <1>4, HeardKept DEF ImplInv
<1>. QED BY <1>1, <1>6, <1>7, <1>8
     DEF AbsStep, Promised!Next, Promised!Upsets, Accounts, Spoken, Heard

SpokenOk ==
    /\ DOMAIN Spoken = DOMAIN sent /\ Len(Spoken) = Len(sent) /\ Len(sent) \in Nat
    /\ DOMAIN sent = 1 .. Len(sent)
    /\ \A k \in DOMAIN sent : Spoken[k] = WordOf(sent[k]) /\ Spoken[k] \in Promised!Words

LEMMA SpokenShape == BillingInv => SpokenOk
<1> SUFFICES ASSUME BillingInv PROVE SpokenOk
  OBVIOUS
<1>1. Len(sent) \in Nat /\ DOMAIN sent = 1 .. Len(sent)
  BY DEF BillingInv, Typed
<1>2. DOMAIN Spoken = DOMAIN sent /\ Len(Spoken) = Len(sent)
  BY <1>1 DEF Spoken
<1>3. \A k \in DOMAIN sent : Spoken[k] = WordOf(sent[k]) /\ Spoken[k] \in Promised!Words
  BY WordShape DEF Spoken
<1>. QED BY <1>1, <1>2, <1>3 DEF SpokenOk

LEMMA SpokenNext == BillingInv' => SpokenOk'
BY SpokenShape, PTL

LEMMA NotifiesImplements ==
    ASSUME ImplInv, BillingInv', NEW kind, NEW s, Notifies(kind, s)
    PROVE  AbsStep /\ TopOk'
<1>1. BillingInv /\ SentOk /\ sent \in Seq(Events)
  BY DEF ImplInv, SettledInv, BillingInv, Typed
<1>2. Len(sent') = Len(sent) + 1 /\ \A k \in DOMAIN sent : k \in DOMAIN sent' /\ sent'[k] = sent[k]
  BY <1>1 DEF Notifies, Sends
<1>3. Grows
  BY <1>2 DEF Grows, Notifies
<1>4. Accounts' = Accounts /\ Heard' = Heard /\ disturbed' = disturbed
  <2>1. Accounts' = Accounts
    BY DEF Accounts, AccountOf, Notifies
  <2>. QED BY <1>1, <1>3, <2>1, HeardKept DEF Notifies
<1>5. SpokenOk /\ SpokenOk'
  BY <1>1, SpokenShape, SpokenNext
<1>6. Len(Spoken') = Len(Spoken) + 1 /\ Spoken'[Len(Spoken')] \in Promised!Words
  BY <1>2, <1>5 DEF SpokenOk
<1>7. \A k \in DOMAIN Spoken : Spoken'[k] = Spoken[k]
  BY <1>1, <1>2, <1>3, <1>5, WordKept DEF SpokenOk
<1>8. TopOk'
  BY <1>1, <1>3, HeardKept DEF ImplInv, Notifies
<1>. QED BY <1>4, <1>6, <1>7, <1>8 DEF AbsStep, Promised!Next, Promised!Says, Accounts, Spoken, Heard

LEMMA LatestIs ==
    ASSUME NEW S \in SUBSET Nat, NEW n \in S, \A j \in S : j <= n
    PROVE  Latest(S) = n
<1>1. S # {} /\ \A m \in S : (\A j \in S : j <= m) => m = n
  OBVIOUS
<1>. QED BY <1>1 DEF Latest

LEMMA ReceivesImplements ==
    ASSUME ImplInv, BillingInv', NEW i \in Handlers, NEW k \in DOMAIN sent, Receives(i, k)
    PROVE  AbsStep /\ TopOk'
<1>1. PICK t : t = OwnerOf(sent[k])
  OBVIOUS
<1>2. /\ BillingInv /\ SentOk /\ SpokenOk
      /\ k \in Nat /\ k > 0 /\ received \subseteq Nat
  <2>1. BillingInv /\ SentOk /\ received \subseteq DOMAIN sent
    BY DEF ImplInv, SettledInv, SentOk
  <2>2. sent \in Seq(Events)
    BY <2>1 DEF BillingInv, Typed
  <2>. QED BY <2>1, <2>2, SpokenShape
<1>3. /\ UNCHANGED <<row, owner, subs, sent>> /\ received' = received \cup {k}
      /\ disturbed' \in {disturbed, disturbed \cup {t}}
  BY <1>1 DEF Receives, stripe
<1>4. t \in Tenants
  BY <1>1, <1>2, WordShape DEF WordOf, Promised!Words
<1>5. /\ TakenOf(t)' = TakenOf(t) \cup {k}
      /\ \A u \in Tenants \ {t} : TakenOf(u)' = TakenOf(u)
  BY <1>1, <1>3 DEF TakenOf, OwnerOf
<1>6. \A u \in Tenants \ {t} : NewestOf(u)' = NewestOf(u)
  BY <1>5 DEF NewestOf
<1>7. Accounts' = Accounts /\ Spoken' = Spoken
  BY <1>3 DEF Accounts, AccountOf, Spoken, WordOf, OwnerOf
<1>8. /\ NewestOf(t) \in Nat /\ \A j \in TakenOf(t) : j <= NewestOf(t)
      /\ TakenOf(t) # {} => NewestOf(t) \in TakenOf(t)
      /\ TakenOf(t) = {} => NewestOf(t) = 0
      /\ TakenOf(t) \subseteq Nat
  BY <1>2, <1>4, NewestIs DEF NewestOf, Latest, TakenOf
<1>9. CASE k > NewestOf(t)
  <2>1. \A j \in TakenOf(t)' : j <= k
    BY <1>2, <1>5, <1>8, <1>9
  <2>2. NewestOf(t)' = k
    BY <1>2, <1>5, <1>8, <2>1, LatestIs DEF NewestOf
  <2>3. Heard' = [Heard EXCEPT ![t] = k]
    BY <1>4, <1>6, <2>2 DEF Heard
  <2>4. TopOk'
    BY <1>5, <2>1, <1>2 DEF ImplInv, TopOk
  <2>5. k \in DOMAIN Spoken /\ Spoken[k].tenant = t /\ k > Heard[t]
    BY <1>1, <1>2, <1>4, <1>9 DEF SpokenOk, WordOf, Heard
  <2>6. Promised!Hears(t)
    BY <1>3, <1>7, <2>3, <2>5 DEF Promised!Hears, Accounts, Spoken, Heard
  <2>. QED BY <1>4, <2>4, <2>6 DEF AbsStep, Promised!Next
<1>10. CASE ~(k > NewestOf(t))
  <2>1. /\ NewestOf(t) \in TakenOf(t)' /\ \A j \in TakenOf(t)' : j <= NewestOf(t)
        /\ TakenOf(t)' \subseteq Nat
    BY <1>2, <1>5, <1>8, <1>10
  <2>2. NewestOf(t)' = NewestOf(t)
    BY <2>1, LatestIs DEF NewestOf
  <2>3. Heard' = Heard
    BY <1>6, <2>2 DEF Heard
  <2>4. TopOk'
    BY <1>5, <2>1 DEF ImplInv, TopOk
  <2>. QED BY <1>3, <1>4, <1>7, <2>3, <2>4
           DEF AbsStep, Promised!Next, Promised!Upsets, Accounts, Spoken, Heard
<1>. QED BY <1>9, <1>10

LEMMA AppliesImplements ==
    ASSUME ImplInv, NEW i \in Handlers, Applies(i)
    PROVE  AbsStep /\ TopOk'
<1>1. PICK t, k, e, copy, res, new :
        /\ t = h[i].tenant /\ k = h[i].event /\ e = sent[k] /\ copy = h[i].copy
        /\ res = Result(e, copy) /\ new = Written(row[t], copy, res)
  OBVIOUS
<1>2. BillingInv /\ SentOk /\ SpokenOk /\ k \in received
  BY <1>1, SpokenShape DEF ImplInv, SettledInv, TakenOk, Applies
<1>3. /\ t \in Tenants /\ row[t] \in Row /\ new \in Row
      /\ k \in DOMAIN sent /\ e \in Events /\ About(t, k) /\ copy \in Row /\ res \in Row
  BY <1>1, <1>2, AppliesWrites
<1>4. /\ UNCHANGED <<owner, checkouts, subs, sent, received, disturbed>>
      /\ row'[t] = new /\ \A u \in Tenants \ {t} : row'[u] = row[u]
      /\ Grows
  BY <1>1, <1>2, AppliesWrites
<1>5. k \in TakenOf(t) /\ k <= NewestOf(t)
  BY <1>1, <1>2, <1>3, NewestIs DEF TakenOf, OwnerOf, About
<1>6. Spoken' = Spoken /\ Heard' = Heard
  BY <1>2, <1>4, WordKept, HeardKept DEF Spoken
<1>7. /\ Accounts[t] = AccountOf(row[t])
      /\ Accounts' = [Accounts EXCEPT ![t] = AccountOf(new)]
  BY <1>3, <1>4, BillingAssumption DEF Accounts, AccountOf
<1>8. k \in DOMAIN Spoken /\ Spoken[k] = WordOf(e) /\ Spoken[k].tenant = t
  <2>1. k \in DOMAIN Spoken /\ Spoken[k] = WordOf(e)
    BY <1>1, <1>2, <1>3 DEF SpokenOk
  <2>2. WordOf(e).tenant = OwnerOf(e)
    BY DEF WordOf
  <2>3. OwnerOf(e) = t
    BY <1>1, <1>3 DEF About, OwnerOf
  <2>. QED BY <2>1, <2>2, <2>3
<1>9. \E columns \in SUBSET Promised!Columns :
         /\ t \in disturbed \/ (k = NewestOf(t) /\ columns = Promised!Columns)
         /\ AccountOf(new) = Promised!Told(AccountOf(row[t]), WordOf(e), columns)
  <2>1. CASE t \in disturbed
    BY <1>1, <1>3, <2>1, PartOfWord
  <2>2. CASE t \notin disturbed
    <3>1. WorkOk(t)
      BY <1>3, <2>2 DEF ImplInv, SettledInv, Followed
    <3>2. Newest(t, k) /\ (Same(copy, row[t]) \/ Same(res, row[t]))
      BY <1>1, <3>1 DEF WorkOk, Agrees, Applies
    <3>3. \A j \in TakenOf(t) : j <= k
      BY <1>2, <3>2 DEF Newest, TakenOf, About, OwnerOf, SentOk
    <3>4. k = NewestOf(t)
      <4>1. TakenOf(t) \in SUBSET Nat
        BY <1>2 DEF TakenOf, SentOk, BillingInv, Typed
      <4>. QED BY <1>5, <3>3, <4>1, LatestIs DEF NewestOf
    <3>5. Same(new, res)
      BY <1>1, <1>3, <3>2, WrittenSame
    <3>6. Same(res, Result(e, row[t]))
      BY <1>1, <1>3, <3>2, SameResult DEF Same
    <3>7. AccountOf(new) = AccountOf(Result(e, row[t]))
      BY <3>5, <3>6 DEF Same, AccountOf
    <3>. QED BY <1>3, <3>4, <3>7, WholeWord
  <2>. QED BY <2>1, <2>2
<1>10. Promised!Follows(t)
  <2>1. PICK columns \in SUBSET Promised!Columns :
           /\ t \in disturbed \/ (k = NewestOf(t) /\ columns = Promised!Columns)
           /\ AccountOf(new) = Promised!Told(AccountOf(row[t]), WordOf(e), columns)
    BY <1>9
  <2>2. Heard[t] = NewestOf(t)
    BY <1>3 DEF Heard
  <2>3. Accounts' = [Accounts EXCEPT ![t] = Promised!Told(Accounts[t], Spoken[k], columns)]
    BY <1>7, <1>8, <2>1
  <2>4. \E l \in DOMAIN Spoken, some \in SUBSET Promised!Columns :
           /\ Spoken[l].tenant = t /\ l <= Heard[t]
           /\ t \in disturbed \/ (l = Heard[t] /\ some = Promised!Columns)
           /\ Accounts' = [Accounts EXCEPT ![t] = Promised!Told(Accounts[t], Spoken[l], some)]
    BY <1>5, <1>8, <2>1, <2>2, <2>3
  <2>. QED BY <1>4, <1>6, <2>4 DEF Promised!Follows, Accounts, Spoken, Heard
<1>11. TopOk'
  BY <1>2, <1>4, HeardKept DEF ImplInv
<1>. QED BY <1>3, <1>10, <1>11 DEF AbsStep, Promised!Next

LEMMA StepsImplement == ImplInv /\ [Next]_vars => AbsStep /\ TopOk'
<1> SUFFICES ASSUME ImplInv, [Next]_vars PROVE AbsStep /\ TopOk'
  OBVIOUS
<1>1. BillingInv /\ SentOk /\ BillingInv' /\ TopOk
  BY BillingSteps DEF ImplInv, SettledInv
<1>2. CASE UNCHANGED vars
  <2>1. Grows /\ UNCHANGED <<row, sent, received, disturbed>>
    BY <1>2 DEF vars, Grows
  <2>. QED BY <1>1, <2>1, Stutters, HeardKept DEF AbsStep
<1>3. ASSUME NEW i \in Handlers, NEW k \in DOMAIN sent, Receives(i, k) PROVE AbsStep /\ TopOk'
  BY <1>1, <1>3, ReceivesImplements
<1>4. ASSUME NEW i \in Handlers, NEW t \in Tenants,
             LooksUp(i, t, "report", None) \/ \E plan \in Plans : LooksUp(i, t, "checkout", plan)
      PROVE  AbsStep /\ TopOk'
  BY <1>4, RequestsImplement
<1>5. ASSUME NEW i \in Handlers,
             Inserts(i) \/ Reports(i) \/ CreatesCustomer(i) \/ OpensCheckout(i) \/ Dies(i)
      PROVE  AbsStep /\ TopOk'
  BY <1>5, RequestsImplement
<1>6. ASSUME NEW i \in Handlers, LinksCustomer(i) \/ Applies(i)
      PROVE  AbsStep /\ TopOk'
  BY <1>6, LinkImplements, AppliesImplements
<1>7. ASSUME \/ \E c \in checkouts : Pays(c)
             \/ \E s \in DOMAIN subs : Cancels(s) \/ \E m \in Moves : Changes(s, m)
      PROVE  AbsStep /\ TopOk'
  <2>1. PICK kind, s : Notifies(kind, s)
    BY <1>1, <1>7, StripeNotifies
  <2>. QED BY <1>1, <2>1, NotifiesImplements
<1>. QED BY <1>2, <1>3, <1>4, <1>5, <1>6, <1>7 DEF Next

LEMMA ImplInit == Init => TopOk /\ Promised!Init
<1> SUFFICES ASSUME Init PROVE TopOk /\ Promised!Init
  OBVIOUS
<1>1. received = {} /\ sent = <<>> /\ disturbed = {} /\ DOMAIN sent = {}
  BY DEF Init
<1>2. \A t \in Tenants : TakenOf(t) = {}
  BY <1>1 DEF TakenOf
<1>3. \A t \in Tenants : NewestOf(t) = 0
  BY <1>2 DEF NewestOf, Latest
<1>4. [t \in Tenants |-> AccountOf(IF row[t] = None THEN Default ELSE row[t])]
         = [t \in Tenants |-> [plan |-> "free", status |-> "active", sub |-> None]]
  BY DefaultRow DEF Init, AccountOf, Default
<1>5. [k \in DOMAIN sent |-> WordOf(sent[k])] = <<>>
  BY <1>1
<1>6. [t \in Tenants |-> NewestOf(t)] = [t \in Tenants |-> 0]
  BY <1>3
<1>. QED BY <1>1, <1>2, <1>4, <1>5, <1>6 DEF TopOk, Promised!Init

\* The webhook's loads, copies and commits of differing columns do what Subscription
\* promises: events applied whole and in order, and to their own tenant in any order
\* (stripe_webhook, _sync_subscription_from_stripe_object).
THEOREM WebhookImplementsSubscription == Spec => ImplementsSubscription
<1>1. ImplInv /\ [Next]_vars => ImplInv' /\ AbsStep
  BY SettledSteps, StepsImplement DEF ImplInv
<1>2. Init => ImplInv /\ Promised!Init
  BY SettledInit, ImplInit DEF ImplInv
<1>3. AbsStep => [Promised!Next]_<<Accounts, Spoken, Heard, disturbed>>
  BY DEF AbsStep
<1>4. Promised!Init /\ [][Promised!Next]_<<Accounts, Spoken, Heard, disturbed>> => ImplementsSubscription
  BY DEF ImplementsSubscription, Promised!Spec, Accounts, Spoken, Heard
<1>. QED BY <1>1, <1>2, <1>3, <1>4, PTL DEF Spec
===============================================================================
