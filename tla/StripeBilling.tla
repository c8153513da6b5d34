---------------------------- MODULE StripeBilling ----------------------------
(***************************************************************************)
(* Subscriptions.  A tenant's row is linked to a Stripe customer by the    *)
(* checkout route and follows Stripe's subscription by the webhook.  Each  *)
(* handler loads the row, works on its copy, and commits the columns it    *)
(* changed; handlers overlap and die.  Stripe sends an event for every     *)
(* change, in any order, again until it is acknowledged, and at times      *)
(* after that.                                                             *)
(***************************************************************************)
EXTENDS Naturals, Sequences, FiniteSets

CONSTANTS
    Tenants,
    Legacy,        \* tenants registered before subscriptions existed
    Handlers,      \* requests the API serves at once
    Plans,         \* plans to check out
    Moves,         \* what Stripe may make of a subscription, cancelling it apart
    MaxRequests,   \* requests of the tenants,
    MaxSent,       \* events,
    MaxFaults,     \* handlers that die and needless deliveries, in all
    None           \* NULL

\* Prices are named for the plan they buy; "other" is in no setting.
Prices == {"starter", "pro", "other"}

\* _STRIPE_STATUS_MAP
StatusOf ==
    [active |-> "active", trialing |-> "active", past_due |-> "past_due",
     unpaid |-> "past_due", canceled |-> "canceled",
     incomplete_expired |-> "canceled", incomplete |-> "incomplete"]

\* ... and one the code has no word for.
StripeStatuses == DOMAIN StatusOf \cup {"paused"}

\* Customers and subscriptions are numbered in the order Stripe creates them.
Row == [plan : {"free", "starter", "pro"},
        status : {"active", "past_due", "canceled", "incomplete"},
        customer : Nat \cup {None}, sub : Nat \cup {None}]

ASSUME BillingAssumption ==
    /\ Legacy \subseteq Tenants
    /\ Plans \subseteq {"starter", "pro"}
    /\ Moves \subseteq [status : StripeStatuses \ {"canceled"}, price : Prices]
    /\ {MaxRequests, MaxSent, MaxFaults} \subseteq Nat
    /\ None \notin Nat \cup Row \cup Prices \cup {"free"}
                    \cup {StatusOf[s] : s \in DOMAIN StatusOf}

VARIABLES
    row,       \* subscriptions, None before the row exists
    h,         \* the handlers
    owner,     \* Stripe: its customers, and the tenant each was created for
    checkouts, \* Stripe: sessions nobody has paid yet
    subs,      \* Stripe: its subscriptions
    sent,      \* Stripe: the events in the order of the changes
    acked,     \* those the webhook has answered 200
    requests, faults,
    received,  \* the events some handler has taken
    disturbed  \* tenants with overtaken or overlapping events, or whose customer
               \* was replaced

vars == <<row, h, owner, checkouts, subs, sent, acked, requests, faults,
          received, disturbed>>

stripe == <<owner, checkouts, subs, sent>>

Default == [plan |-> "free", status |-> "active", customer |-> None, sub |-> None]

Idle == [pc |-> "idle"]

\* _plan_for_price_id: the plan a price stands for, or none.
PlansFor(price) == {price} \cap {"starter", "pro"}

OwnerOf(e) == owner[subs[e.sub].customer]

Subscriptions == [customer : Nat, price : Prices, status : StripeStatuses]

Events == [kind : {"synced", "deleted"}, sub : Nat, status : StripeStatuses, price : Prices]

Tasks ==
    {Idle}
    \cup [pc : {"missing", "found", "created", "linked"}, op : {"report", "checkout"},
          tenant : Tenants, plan : Plans \cup {None}, copy : Row]
    \cup [pc : {"applies"}, event : Nat, tenant : Tenants, copy : Row]

Typed ==
    /\ row \in [Tenants -> Row \cup {None}]
    /\ h \in [Handlers -> Tasks]
    /\ owner \in Seq(Tenants)
    /\ checkouts \subseteq [customer : DOMAIN owner, price : Prices]
    /\ subs \in Seq(Subscriptions) /\ \A s \in DOMAIN subs : subs[s].customer \in DOMAIN owner
    /\ sent \in Seq(Events) /\ \A k \in DOMAIN sent : sent[k].sub \in DOMAIN subs

TypeOK ==
    /\ Typed
    /\ acked \subseteq received /\ received \subseteq DOMAIN sent
    /\ disturbed \subseteq Tenants
    /\ requests \in 0 .. MaxRequests /\ faults \in 0 .. MaxFaults

Init ==
    /\ row = [t \in Tenants |-> IF t \in Legacy THEN None ELSE Default]
    /\ h = [i \in Handlers |-> Idle]
    /\ owner = <<>> /\ subs = <<>> /\ sent = <<>>
    /\ checkouts = {} /\ acked = {} /\ received = {} /\ disturbed = {}
    /\ requests = 0 /\ faults = 0

-----------------------------------------------------------------------------
(* The tenant's routes: status, checkout and portal.                        *)

\* _get_or_create_subscription looks for the row.
LooksUp(i, t, op, plan) ==
    /\ h[i] = Idle
    /\ requests < MaxRequests /\ requests' = requests + 1
    /\ h' = [h EXCEPT ![i] =
          [pc |-> IF row[t] = None THEN "missing" ELSE "found",
           op |-> op, tenant |-> t, plan |-> plan,
           copy |-> IF row[t] = None THEN Default ELSE row[t]]]
    /\ UNCHANGED <<row, stripe, acked, faults, received, disturbed>>

\* ... and commits a new one if there was none; the unique tenant_id refuses a
\* second, and the request fails.
Inserts(i) ==
    LET t == h[i].tenant
    IN /\ h[i].pc = "missing"
       /\ IF row[t] = None
             THEN row' = [row EXCEPT ![t] = Default] /\ h' = [h EXCEPT ![i].pc = "found"]
             ELSE h' = [h EXCEPT ![i] = Idle] /\ UNCHANGED row
       /\ UNCHANGED <<stripe, acked, requests, faults, received, disturbed>>

\* get_billing_status reports the copy; create_portal_session opens a portal for
\* its customer, or refuses when there is none.
Reports(i) ==
    /\ h[i].pc = "found" /\ h[i].op = "report"
    /\ h' = [h EXCEPT ![i] = Idle]
    /\ UNCHANGED <<row, stripe, acked, requests, faults, received, disturbed>>

\* create_checkout_session: the first one of a tenant creates its customer.
CreatesCustomer(i) ==
    /\ h[i].pc = "found" /\ h[i].op = "checkout"
    /\ IF h[i].copy.customer = None
          THEN /\ owner' = Append(owner, h[i].tenant)
               /\ h' = [h EXCEPT ![i].copy.customer = Len(owner'), ![i].pc = "created"]
          ELSE /\ h' = [h EXCEPT ![i].pc = "linked"]
               /\ UNCHANGED owner
    /\ UNCHANGED <<row, checkouts, subs, sent, acked, requests, faults,
                   received, disturbed>>

\* Variant: the new customer is not committed.
LinksCustomer_Uncommitted(i) ==
    /\ h[i].pc = "created"
    /\ h' = [h EXCEPT ![i].pc = "linked"]
    /\ UNCHANGED <<row, stripe, acked, requests, faults, received, disturbed>>

\* ... which is committed over whatever customer the row has got by now.
LinksCustomer(i) ==
    LET t == h[i].tenant
    IN /\ h[i].pc = "created"
       /\ row' = [row EXCEPT ![t].customer = h[i].copy.customer]
       /\ disturbed' = IF row[t].customer = None THEN disturbed ELSE disturbed \cup {t}
       /\ h' = [h EXCEPT ![i].pc = "linked"]
       /\ UNCHANGED <<stripe, acked, requests, faults, received>>

OpensCheckout(i) ==
    /\ h[i].pc = "linked"
    /\ checkouts' = checkouts \cup {[customer |-> h[i].copy.customer, price |-> h[i].plan]}
    /\ h' = [h EXCEPT ![i] = Idle]
    /\ UNCHANGED <<row, owner, subs, sent, acked, requests, faults,
                   received, disturbed>>

\* The process dies, the client goes, or a call to Stripe fails.
Dies(i) ==
    /\ h[i] # Idle
    /\ faults < MaxFaults /\ faults' = faults + 1
    /\ h' = [h EXCEPT ![i] = Idle]
    /\ UNCHANGED <<row, stripe, acked, requests, received, disturbed>>

-----------------------------------------------------------------------------
(* Stripe.                                                                  *)

Sends(kind, s) ==
    /\ Len(sent) < MaxSent
    /\ sent' = Append(sent, [kind |-> kind, sub |-> s, status |-> subs'[s].status,
                             price |-> subs'[s].price])

\* The tenant pays.
Pays(c) ==
    /\ c \in checkouts
    /\ checkouts' = checkouts \ {c}
    /\ subs' = Append(subs, [customer |-> c.customer, price |-> c.price, status |-> "active"])
    /\ Sends("synced", Len(subs'))
    /\ UNCHANGED <<row, h, owner, acked, requests, faults, received, disturbed>>

\* A renewal fails or succeeds, the tenant changes plan in the portal, support edits.
Changes(s, m) ==
    /\ subs[s].status # "canceled"
    /\ m # [status |-> subs[s].status, price |-> subs[s].price]
    /\ subs' = [subs EXCEPT ![s].status = m.status, ![s].price = m.price]
    /\ Sends("synced", s)
    /\ UNCHANGED <<row, h, owner, checkouts, acked, requests, faults,
                   received, disturbed>>

Cancels(s) ==
    /\ subs[s].status # "canceled"
    /\ subs' = [subs EXCEPT ![s].status = "canceled"]
    /\ Sends("deleted", s)
    /\ UNCHANGED <<row, h, owner, checkouts, acked, requests, faults,
                   received, disturbed>>

-----------------------------------------------------------------------------
(* The webhook.                                                             *)

\* Variant: an event of an unknown customer goes to a row that has none yet.
Matches_Unlinked(e) ==
    {t \in Tenants : row[t] # None /\
        IF e.kind = "synced" THEN row[t].customer \in {subs[e.sub].customer, None}
                             ELSE row[t].sub = e.sub}

\* The row an event is about: of its customer, or of its subscription.
Matches(e) ==
    {t \in Tenants : row[t] # None /\
        IF e.kind = "synced" THEN row[t].customer = subs[e.sub].customer
                             ELSE row[t].sub = e.sub}

\* A later event of the same customer has been taken before, or another is in work.
Overtaken(k) ==
    \/ \E j \in received : j > k /\ subs[sent[j].sub].customer = subs[sent[k].sub].customer
    \/ \E i \in Handlers : /\ h[i].pc = "applies" /\ h[i].event # k
                           /\ OwnerOf(sent[h[i].event]) = OwnerOf(sent[k])

\* Variant: an event that matches no row is answered with an error.
Receives_UnknownFails(i, k) ==
    LET e == sent[k]
    IN /\ h[i] = Idle
       /\ IF k \in acked THEN faults < MaxFaults /\ faults' = faults + 1 ELSE UNCHANGED faults
       /\ received' = received \cup {k}
       /\ disturbed' = IF Overtaken(k) THEN disturbed \cup {OwnerOf(e)} ELSE disturbed
       /\ h' = IF Matches(e) = {} THEN h
               ELSE [h EXCEPT ![i] = [pc |-> "applies", event |-> k,
                     tenant |-> CHOOSE t \in Matches(e) : TRUE,
                     copy |-> row[CHOOSE t \in Matches(e) : TRUE]]]
       /\ UNCHANGED <<row, stripe, acked, requests>>

\* stripe_webhook loads the row; when there is none, it acknowledges all the same.
Receives(i, k) ==
    LET e == sent[k]
    IN /\ h[i] = Idle
       /\ IF k \in acked THEN faults < MaxFaults /\ faults' = faults + 1 ELSE UNCHANGED faults
       /\ received' = received \cup {k}
       /\ disturbed' = IF Overtaken(k) THEN disturbed \cup {OwnerOf(e)} ELSE disturbed
       /\ \/ /\ Matches(e) = {}
             /\ acked' = acked \cup {k}
             /\ UNCHANGED h
          \/ \E t \in Matches(e) :
             /\ h' = [h EXCEPT ![i] =
                   [pc |-> "applies", event |-> k, tenant |-> t, copy |-> row[t]]]
             /\ UNCHANGED acked
       /\ UNCHANGED <<row, stripe, requests>>

\* _sync_subscription_from_stripe_object and _mark_subscription_canceled.
Result(e, r) ==
    IF e.kind = "deleted"
    THEN [r EXCEPT !.status = "canceled", !.plan = "free"]
    ELSE [r EXCEPT !.sub = e.sub,
                   !.status = IF e.status \in DOMAIN StatusOf THEN StatusOf[e.status] ELSE @,
                   !.plan = IF PlansFor(e.price) = {} THEN @ ELSE e.price]

\* Variant: the UPDATE sets every column, as the object has it.
Written_Whole(r, copy, new) == [f \in DOMAIN r |-> new[f]]

\* The UPDATE sets the columns in which the object differs from what it loaded.
Written(r, copy, new) ==
    [f \in DOMAIN r |-> IF new[f] # copy[f] THEN new[f] ELSE r[f]]

\* The commit; the unique stripe_subscription_id refuses a second row with it, the
\* answer is 500 and Stripe will send the event again.
Applies(i) ==
    LET t == h[i].tenant
        k == h[i].event
        new == Written(row[t], h[i].copy, Result(sent[k], h[i].copy))
    IN /\ h[i].pc = "applies"
       /\ IF \E u \in Tenants \ {t} : row[u] # None /\ new.sub # None /\ row[u].sub = new.sub
             THEN UNCHANGED <<row, acked>>
             ELSE row' = [row EXCEPT ![t] = new] /\ acked' = acked \cup {k}
       /\ h' = [h EXCEPT ![i] = Idle]
       /\ UNCHANGED <<stripe, requests, faults, received, disturbed>>

-----------------------------------------------------------------------------
Next ==
    \/ \E i \in Handlers :
          \/ \E t \in Tenants :
                \/ LooksUp(i, t, "report", None)
                \/ \E plan \in Plans : LooksUp(i, t, "checkout", plan)
          \/ Inserts(i) \/ Reports(i) \/ CreatesCustomer(i) \/ LinksCustomer(i)
          \/ OpensCheckout(i) \/ Dies(i)
          \/ \E k \in DOMAIN sent : Receives(i, k)
          \/ Applies(i)
    \/ \E c \in checkouts : Pays(c)
    \/ \E s \in DOMAIN subs : Cancels(s) \/ \E m \in Moves : Changes(s, m)

HandlerStep(i) ==
    \/ Inserts(i) \/ Reports(i) \/ CreatesCustomer(i) \/ LinksCustomer(i)
    \/ OpensCheckout(i) \/ Applies(i)

\* Handlers run on, and Stripe repeats an event until it is acknowledged.
Fairness ==
    WF_vars(\E i \in Handlers :
        HandlerStep(i) \/ \E k \in DOMAIN sent \ acked : Receives(i, k))

Spec == Init /\ [][Next]_vars /\ Fairness

-----------------------------------------------------------------------------
\* No tenant is billed for another: whatever the interleaving, a row's plan, status
\* and subscription change only to follow an event about a subscription of a customer
\* that the checkout of that very tenant created.
FollowsOwnEvents ==
    [][\A t \in Tenants :
          LET was == IF row[t] = None THEN Default ELSE row[t]
              now == IF row'[t] = None THEN Default ELSE row'[t]
          IN <<now.plan, now.status, now.sub>> # <<was.plan, was.status, was.sub>> =>
                now.sub # None /\ owner[subs[now.sub].customer] = t]_vars

\* Once Stripe's events are all acknowledged, the row of a tenant with one subscription
\* says what Stripe says, free when it was deleted: through lost answers, handlers that
\* died and repeated deliveries, as long as no event overtook another and no second
\* checkout replaced the customer.
SettledIsStripes ==
    \A t \in Tenants \ disturbed : \A s \in DOMAIN subs :
        /\ owner[subs[s].customer] = t
        /\ \A r \in DOMAIN subs \ {s} : owner[subs[r].customer] # t
        /\ {k \in DOMAIN sent : sent[k].sub = s} \subseteq acked
        /\ subs[s].status \in DOMAIN StatusOf
        /\ PlansFor(subs[s].price) # {}
        =>
        /\ row[t].sub = s
        /\ row[t].status = StatusOf[subs[s].status]
        /\ row[t].plan = IF subs[s].status = "canceled" THEN "free" ELSE subs[s].price

\* What an event says of its subscription's owner; None where it says nothing.
WordOf(e) ==
    LET deleted == e.kind = "deleted"
    IN [tenant |-> OwnerOf(e),
        plan   |-> IF deleted THEN "free" ELSE IF PlansFor(e.price) = {} THEN None ELSE e.price,
        status |-> IF deleted THEN "canceled"
                   ELSE IF e.status \in DOMAIN StatusOf THEN StatusOf[e.status] ELSE None,
        sub    |-> IF deleted THEN None ELSE e.sub]

AccountOf(r) == [plan |-> r.plan, status |-> r.status, sub |-> r.sub]

\* The events about a tenant that some handler has taken, and the newest of them.
TakenOf(t) == {k \in received : OwnerOf(sent[k]) = t}

Latest(S) == IF S = {} THEN 0 ELSE CHOOSE k \in S : \A j \in S : j <= k

NewestOf(t) == Latest(TakenOf(t))

Promised == INSTANCE Subscription WITH
    account <- [t \in Tenants |-> AccountOf(IF row[t] = None THEN Default ELSE row[t])],
    said    <- [k \in DOMAIN sent |-> WordOf(sent[k])],
    heard   <- [t \in Tenants |-> NewestOf(t)],
    upset   <- disturbed

\* Handlers that load, work on copies and commit what differs change an undisturbed row as
\* if each event were applied to it whole, the newest that has come, with none of the
\* columns from a stale copy; and a disturbed one by its own tenant's events all the same.
ImplementsSubscription == Promised!Spec

\* Every event is acknowledged in the end: no state of the rows makes the webhook fail
\* for good, which would have Stripe give the endpoint up.
EventsAcknowledged == <>[](DOMAIN sent \subseteq acked)
=============================================================================
