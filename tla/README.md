# TLA+ models of CommercePilot

CommercePilot connects shops and marketplaces, lets AI agents propose changes
(a price, a text, a publication, a catalog fix), and carries a change out only
after a human has approved it. It is a FastAPI application (`apps/api`), a Celery
worker with beat (`apps/worker`), and packages both use (`packages/*`) over one
PostgreSQL database. This directory holds models of the parts whose behaviour
depends on the order of several actors' steps, what TLC checks of them, and what
TLAPS proves.

Three facts about the code shape every model:

* A request or a task has one SQLAlchemy session. PostgreSQL runs READ COMMITTED,
  no query takes a row lock, and `expire_on_commit=False` keeps loaded objects as
  they were. So one action ends at each `commit()`, and what was read before a
  commit, a provider call or a marketplace call may be stale afterwards.
* An UPDATE names only the columns the session changed. Two sessions that set
  different columns of a row do not undo each other; two that set the same do.
* Celery runs with its defaults: messages are acknowledged when a worker takes
  them, no task declares a retry, and tasks run concurrently. A task that dies is
  not run again; the broker may still deliver a message twice.

## Inventory

| Part | State | Operations | Interacts with |
|---|---|---|---|
| Approval engine (`cp_policies`) | `recommendations`, `approvals`, `audit_events` | propose, submit, approve, reject | generator tasks write proposals, routes decide, tools run inside `approve()` |
| Generator tasks (`worker/tasks/pricing, listing, product_content, catalog`) | none of their own | check for an open recommendation, build a proposal, propose, submit | approval engine, cost guard, pricing engine |
| Listing publication (`worker/tasks/listing`, `cp_ai` tool, approve route) | `offers.status`, the broker's queue, the listing on the platform | handler sets PENDING, route enqueues, task publishes | approval engine, connectors, sync |
| AI cost guard (`worker/cost_guard`, `cp_billing`) | `ai_jobs`, `subscriptions` | get-or-create subscription, sum the month, compare, record usage | content and analytics tasks, Stripe billing |
| Catalog sync (`cp_sync`) | `products`, `variants`, `offers`, `prices`, `stocks`, `connections.last_*` | page through a connector with retries, upsert each item in a savepoint | connectors, listing publication |
| Connection management (`routes/connections`, `connection_health`) | `connections` | create, health check, trigger a sync | sync, key rotation |
| Stripe billing (`routes/billing`) | `subscriptions` plan, status and Stripe ids | checkout, portal, status, webhook | cost guard, Stripe |
| Authentication (`auth/*`, `core/security`) | `users`, `memberships`, `refresh_tokens`, JWT claims | register, login, refresh, switch tenant, identify a request | every route |
| Rate limiting (`core/rate_limit`) | Redis counters | count, refuse | every route |
| Key rotation (`cp_shared.crypto`, `tasks/maintenance`, `worker/db`) | key lists per process, `encrypted_credentials` | encrypt, decrypt with a key list, re-encrypt all | connections, sync |
| Connectors (`cp_connectors`) | a token (Shoper, Allegro) | list, read, create, update, price, stock, categories, image, publish | sync, publication, health check, the platforms |
| Pricing engine and agent (`cp_pricing`, `pricing_agent`) | none | bounds from cost, VAT, margin, competitors; a proposal or none | pricing task |
| Content agent (`product_agent`) | none | known and UNKNOWN specifications, a proposal | content task, AI provider |
| Products (`routes/products`) | `products`, `competitor_prices` | create, observe a price, trigger a generator | pricing, sync |
| Scheduler (`tasks/scheduler`, beat) | none | daily fan-out | every task above |
| Analytics, AI provider, admin and read routes, observability, web | none the program reads back, or external | - | see `components` in PROJECT.json |

What is hard: decisions that overlap, a check and its insert in two transactions,
a crash between two commits, messages lost or delivered twice, a status written
from a page fetched earlier, a spend checked before it is recorded, a lazily
created row two sessions race for, a calendar that turns in between, an object
put back whole after another has changed a part of it, tokens and keys that are replaced
under requests in flight, events out of order. PROJECT.json lists each at its line under
`hazards`.

What makes each part correct, in a sentence:

* Approval engine: the list the human sees is the newest of what can be decided; a decision is
  made once, for the right tenant, and never taken back; writes and audit rows
  imply each other; a tool call takes effect at most once; what nothing killed ends.
* Listing publication: only an approval sets it in motion; an approved offer is being
  worked on; ACTIVE is true; the sync repairs what was lost.
* Cost guard: overshoot is bounded by what was already running; the sum counts each
  call once, in its month; no task waits for ever on another one's uncommitted row.
* Catalog sync: a re-run inserts nothing twice under one sku, every item seen is upserted or
  reported, a failed item or page undoes nothing, the last sync's outcome is what the
  connection shows.
* Connectors: a method that returns is carried out and leaves other fields alone; a
  listing is complete; an authentication error means the credentials.
* Stripe billing: a row follows its own tenant's subscription and ends where Stripe ends;
  every event is acknowledged.
* Sessions: a refresh token is used once; a token never outlives its membership; rotating
  the signing key logs nobody out; the limit of a window holds.
* Credentials: at every step of the runbook every stored credential can be read; what the
  merchant is shown of a connection ends up true.
* Proposals: a price keeps to its floor until it is applied, and is applied when success is
  reported; no specification is invented; no proposal is empty.

## Modules

`ApprovalEngine.tla`. The recommendation life cycle. The database is `status`, `approval`,
`decidedBy`, `audit` and `applied` (the requests whose tool's writes were committed), with
`created`, the `created_at` the list is ordered by, and `clock`, what PostgreSQL's `now()`
says; the sessions are `gen` (a generator task), and `pc`, `call`, `result` (a request). A
recommendation is named after the one task that may create it. Each action is a stretch of
code up to its commit: `GenClear` is a task that found no open recommendation and has a
proposal; `GenPropose` and `GenSubmit` are the two commits of `propose_recommendation` and
`submit_for_approval`; `Load`/`Refuse` are `_load_pending`, which accepts what is
`Decidable`, while `Listed` is what `GET /recommendations` shows, its newest `QueueLimit`
rows (200); `Reject` is `reject()`'s commit; `Approve`, `RunTool`, `CommitResult` are the
first commit, the handler and the second commit of `approve()`; `ResultRefused` is that
second commit raising, which happens outside the `try`; `GenLost` and `RequestLost` are
processes that die. `SingleApprover` is the assumption `packages/policies/README.md` states
under "Known simplification" (no two decisions on one recommendation overlap); properties
that do not need it are checked and proved without it. Which tool runs is abstracted: a
handler flushes nothing before the final commit, so it either has its writes in that commit
or has none.

`Decisions.tla`. What the workflow promises of one recommendation, without sessions
and commits: opened once, decided once, effective at most once and only when
approved. `ApprovalEngine` implements it when `SingleApprover` holds, with `stage`
mapped from `status` (PROPOSED and PENDING_APPROVAL are both "open") and `effective`
from `applied`.

`ListingPublish.tla`. From an approved `request_listing_publish` to a live listing:
`HandlerReads` and `HandlerCommits` (the tool, inside `approve()`), `Enqueue` (the
route's `send_task` after the commit), `RunLoads`, `RunCalls`, `RunCommits` (the task;
`RunFails` is any exception that is not a `ConnectorError`), the sync's page of
listings (`SyncFetches`, `SyncApplies` per listing, `SyncSkips`, `SyncEnds`), and the
merchant who edits the listing on the platform. `offer` is our status, `remote` the
platform's word, `StatusMap` the whole `_STATUS_MAP`, and `mirrored` remembers the offers
that the sync made PENDING. A column is written without regard to the value read, so reading and
writing one listing is one step of the sync. Its specification is `PublishSpec` (of
`PublishInit`, `PublishNext`, with `PublishTypeOK`), not `Spec`: it and `Connectors`, the
code on the two sides of `publish_offer`, are proved about in one module, which extends both.

`CostGuard.tla`. A billed task: `Create` (the RUNNING job is committed), `LooksUp` and
`Inserts` (get-or-create of the subscription, flushed and kept uncommitted until the
task's next commit), `Checks`, `Calls`/`CallFails`, `Records`; `StatusRead` is a billing
request that creates the row, `NextMonth` the calendar. `spent` is the value of the
query that sums `cost_estimate`, kept as a running total per tenant and month.

`CatalogSync.tla`. `sync_products` over one connection. The platform is `catalog` (its
listings in the order it returns them), `sku`, `version` (a listing's content, as a number
that each edit raises) and `blank` (the fields it has no value for); the mirror is `rows`,
keyed as the code keys it, by sku or a synthetic key (`EffectiveSku`). The Product, Variant,
Offer, Price and Stock of one sku are written in one transaction that inserts the Product
first, so they are one row. Its columns are flushed apart: `external`, and `content` by
`Fields`, for each kind of guard `_upsert_product` has: "name" is always written, "price"
(and stock) when the listing has one, "text" (description, ean) when it has one and the row
was there before. A sync is `StartSync`, `FetchPage` (or `TransientError`, `PermanentError`:
`retry_with_backoff`), per item `SelectRow` and `WriteRow` (the selects, then the savepoint
and commit, or its refusal), `FinishSync`; `LoseSync` is a worker that dies. Two steps per
item because another sync commits between them. `Flushed` is the unit of work's habit of
updating only a column whose new value differs from the loaded one. Listings may share a
sku, as some platforms allow. The offer's status, with the map that may leave it alone, is
`ListingPublish`'s. `hist` is what the properties remember of the syncs that run; no action
reads it otherwise.

`Connectors.tla`. `CommerceConnector` and its six implementations. A method is a script of
requests (`WooCommerce`, `Allegro`, `Shoper`, `PrestaShop`, `IdoSell`, `Mock`, one operator
per class), each request with the fields it sends and those the platform clears because it
was not sent them (`ShoperPut`). A product may be sent bare or complete (`Givens`), and a
payload leaves out what its class does (`Offer`: Allegro's always says INACTIVE and never
has the description; `ProductFields`; `Unsent` lists it). One action is one request and what
the shop makes of it: `Writes`, `Reads`, `Lists` (a page, with the class's own rule for the
next one, `WooCommerceMore` and so on, whose answer may come without its total), or
`NotFound`, `Refused`, `TimesOut`, `Denied`; `Authenticate` and `Reauthenticate` are
Shoper's token, while an `AllegroConnector` is made with one (`TokensAtFirst`) and reports
its expiry at once; `FindsStock` PrestaShop's early return, `Retry` the caller that repeats
a call the interface calls safe to retry. What a field holds is who wrote it. `Method` picks
the class, `Script` the requests of a call, `PageOf` the slice of the shop that a page is.
The merchant edits and removes listings and withdraws the credentials; tokens expire or are
revoked (`RevokeToken`). `note` is what the properties remember.

`Sessions.tla`. A request arrives with the window it computed (`Arrive`), is counted in
Redis (`Counts`, with the key's 60 seconds in `KeyExpires`), and goes through its endpoint
query by query: `RegisterReads`, `RegisterLoses`, `LoginReads`, `LoginChooses`,
`RefreshReads`, `RefreshChecks`, and for everything behind `get_current_membership`
`Unverified`, `Identifies`, `SwitchChecks`, `Serves`, `Refuses`; `Issues` is the commit that
stores a refresh token and returns an access token. `access` is the set of access tokens not
yet expired, each with the key that signed it. Support, the clock and the operator are the
environment. `req[q].since` and `req[q].late` remember what has been true since a request
arrived.

`StripeBilling.tla`. `row` is our table, `owner`, `checkouts`, `subs` and `sent` are
Stripe. A handler loads (`LooksUp`, `Receives`), works on its copy, and commits the columns
it changed (`LinksCustomer`, `Applies`). Stripe sends an event for each change, in any
order, again until it is acknowledged, and needlessly at times. `disturbed` names the
tenants whom an overtaken event or a second checkout has touched.

`Subscription.tla`. What billing promises of the tenants' accounts, without rows, copies,
customers or deliveries: Stripe says something of an account with every event, and an
account follows the newest that was heard of it, whole; one whose events overtook each
other may follow an older one or a part, never one about somebody else. `StripeBilling`
implements it, with `said` mapped from `sent`, `heard` from the newest event of the tenant
that a handler has taken, and `upset` from `disturbed`. With an UPDATE of
all columns (the variant `Written_Whole`), which writes stale ones back, it would not.

`AgentProposals.tla`. One product as the agents see it: `row`, the listing on the
marketplace, the competitor observations, and the recommendations. `Recommended` is the
pricing engine in tenths of a cent, `NewPrices` the agent's decision, `KnownSpecs` and
`Stated` the content agent's. `LoadsOffer`/`ProposesPrice` and
`LoadsProduct`/`ProposesContent` are the tasks, `Approves`/`Executes` the two commits of
an approval with the handler's own row between them, `SyncLoads`/`SyncWrites` a sync,
`Creates` and `Observes` the product routes. The approval protocol is reduced to what
`ApprovalEngine` shows of it.

`Credentials.tla`. A connection's row: the key its credentials are encrypted under,
whether they are complete, `status` and `last_error`. `Encrypts`/`Creates` are the route,
`CheckLoads`/`SyncLoads`, `Asks` or `Breaks`, `CheckCommits`/`SyncCommits` the health
check and the sync (whose pages are `CatalogSync`'s matter), `MigrationReads` and
`MigrationCommits` the re-encryption task. Each process has the keys of the environment
it was started with; the operator goes through `docs/security/secret-rotation.md` by
`Rotates`, `Migrates`, `DropsOldKey`, `Finishes`, with `Restarts` per process in between.
`create_connection` sends for a check after its commit; as `trigger_test` may ask for one
at any time and no property counts on the first, checks are not tied to creations.

The modules meet in shared operations rather than in one product of all: the sync's
commit of a status is in `ListingPublish`, of a price in `AgentProposals`, of `last_error`
in `Credentials`, its paging in `CatalogSync` and, per platform, in `Connectors`.
`approve()` is whole in `ApprovalEngine`, and an action pair in `AgentProposals`.

`ApprovalEngineProofs`, `CostGuardProofs`, `CatalogSyncProofs`, `SessionsProofs`,
`StripeBillingProofs`, `CredentialsProofs` and `AgentProposalsProofs` hold the theorems about
the module each is named after, `PlatformProofs` those about `ListingPublish` and `Connectors`;
see Proofs.

`MC*.tla` instantiate these for TLC. Definitions named `X_Something` above a
definition `X` are faulty variants of it ("Variant:"), used to show that each
checked property is able to fail.

## Runs

| Run | Expect | What it shows |
|---|---|---|
| `approval_overlap` | pass | Three offers of two tenants, a recommendation each, two requests that may overlap, crashes, refused commits, a list that shows one row. `QueueAgrees`: the list is the newest of the decidable; `EffectsAudited`: a write is in the store iff a success audit row of an approving request says so; `TenantBoundary`; `NeverReopened`. 1.07 million states. |
| `approval_single` | pass | Two generator tasks for one offer, three requests, no overlap on one recommendation, every failure. `AtMostOneEffect`, `DecidedOnce`, `ImplementsDecisions`; `ExecutionEnds` and `ProposalsReachQueue` under fairness. |
| `approval_stuck` | violation | `NeverLeftExecuting`, the promise of `approve()`'s docstring: a final commit that the database refuses leaves EXECUTING behind. |
| `listing_publish` | pass | Two approvals of one offer, each message delivered up to twice, a sync, one edit to any word of the platform, every fault. `PendingIsDriven`: an approved offer is worked on, or what worked on it was lost; `ActiveIsLive`; `OnlyApprovalStarts`; both say what a platform's own "pending" changes (`Reported`); and under fairness `SyncConverges`. 411,000 states. |
| `cost_guard` | pass | Three tasks of one tenant without a subscription row, two at a time, across a month's end, crashes. `SpendBounded`: spend exceeds the budget by no more than what was running; `SpendIsBilled`: the sum is what the recorded calls cost; `TasksEnd` under fairness. |
| `catalog_overlap` | pass | Two syncs that overlap, pages of one listing, a change by the merchant, who may clear or fill fields, two faults. `MirrorsWhatStayed`: what stayed listed is mirrored, each field it had no older than the overlapping syncs; `AloneLosesNothing`; `OutcomeIsRecent`. 2 million states. |
| `catalog_converge` | pass | The same without faults, for ever. `SyncsEnd`; `MirrorConverges`: the newest value of every field a listing has gets there once the merchant stops. 127,000 states. |
| `connectors` | pass | Two calls of any method on each platform with a bare or a complete product, one merchant edit, one fault, two expired tokens, one retry each. `SuccessIsApplied`: a call that returned has written every field it names, but for those its class does not send; `AuthErrorIsReal`: an authentication error means the credentials, or on Allegro the token; `ListsAll`: reading to the last page returns each listing once when the platform told its size; `SiblingsKept`: a price, stock, publication or image call clears no other field. 792,000 states. |
| `sessions` | pass | Three requests, two at a time, over two minutes, with two events of the environment. `WindowRespected`: no counter lets more than the limit through while it lives, and none expires before its minute is over; `EntitledOnly`: who succeeds was a member at some time since the request arrived; `UsedOnce`: a rotated refresh token gets nothing; `NeverForcedOut`: only expiry makes an access token fail, no key rotation. 932,000 states. |
| `stripe_billing` | pass | Two tenants, one without a row, two handlers, three events, one fault. `FollowsOwnEvents`: a row changes only by events of a customer of its own tenant; `SettledIsStripes`: with every event acknowledged and none overtaken it says what Stripe says; `ImplementsSubscription`: each commit of a row is a step of `Subscription`; `EventsAcknowledged` under fairness. 239,000 states. |
| `agent_proposals` | pass | One product, two workers, four kinds of cost and VAT, competitors below and above the floor. `FloorUpToRounding`: whatever happened since, a proposed price is at most half a cent below the price with the minimum margin at the cost as it is now, and never below cost; `NothingInvented`: no round of proposals turns a model's word into data; `ProposalsChange`: no proposal of the price there is; `SuccessIsWritten`: a reported success has stored the approved price. 1.5 million states. |
| `credentials` | pass | One connection, two workers, one API process, a whole key rotation, one change of the platform's mind, one fault. `RotationLosesNothing`: at each step every worker can read every row, but one not yet restarted; `HealthSettles` under fairness: once the platform settles, what the merchant is shown becomes and stays true. 172,000 states. |

Bounds. Interference on a recommendation needs two requests; in `approval_single` the third
lets one come after both. Two tenants suffice for a boundary, two tasks for a duplicate; a
tenant with two offers and a list of one make a recommendation come up when the one before
it is decided. A publish needs two approvals of one offer to overlap, two deliveries to
repeat, one edit after a publication; `Platform` has the words that map to DRAFT, PENDING
and ACTIVE and one that `_STATUS_MAP` does not know; PAUSED and ERROR are read by none of
the actions. In `cost_guard` a budget of one unit is spent by two concurrent tasks and a
third comes after; its month may turn between its creation and its check, and then the older
month's spend reaches 3, more than `Budget + Slots * MaxCost` allows within a month, which
is why the bound counts the slots twice for a past month. In the catalog runs pages of one
listing make two cursors out of two listings, the third can be added before, between or
behind them, and is one the database refuses; a listing has all its fields or only the name,
and one of the two has only that at first; two attempts and two faults exhaust a retry;
syncs start without limit. `MaxEdits`, `MaxFaults`, `LastMonth` and the finite sets are the
only bounds on behaviours. Apart from the catalog runs deadlock checking is off: when every
task and request is done, or a bound is reached, the system rests.

In `connectors` two calls interfere on one shop of two listings and page by one; a third
listing can be created. Two revocations are what `AuthErrorIsReal` needs: on Shoper one is
mended, two in one method are reported. A product carries all its optional fields or none
(`Complete`); with one of price and stock Shoper's update clears the other, see the
findings. In `sessions` two requests fill a bucket of one or two and a third comes after;
three tenants make a switch, a login without a tenant and a registration distinct; the first
session starts in the middle of a key rotation, so two events suffice to finish it or to
begin another. In `stripe_billing` three events are a creation, a change and a deletion, or
two of them with a second subscription; a tenant without a row races for one. A cancellation
is not among `Moves`, the changes Stripe makes to a subscription, as it is an event of its
own kind. In `agent_proposals` the entries are a usual one, one cent (where rounding weighs
most), nothing, and a VAT that leaves only the minimum margin; one of two competitor prices
is below the floor of the first; two recommendations are two rounds, two writes an entry and
one edit or observation after it. In `credentials` one rotation has all steps of the
runbook; two workers make a check and a sync overlap, or one of them with the migration.

`TypeOK` is an invariant of the run `catalog_overlap`; the other modules' are part of the
inductive invariants that are proved.

What the properties excuse, as the code has no answer to it. A platform's own "pending"
(WooCommerce: awaiting review) maps to PENDING, the status that means "approved, about to be
published" everywhere else; nothing drives such an offer, `request_listing_publish` refuses
it, and an old message publishes it (`Reported`, and the finding). While more than 200
recommendations of a tenant are open, the list shows none of the older ones. A field that the
merchant clears, and a status reworded to an unknown word, keep their old value in the mirror,
as does the text of a row that is inserted, until the next sync: `hist.spared` of
`CatalogSync` remembers what an overlapping sync was not sent, and `MirrorConverges` is about
the fields a listing has. An answer without its total ends a listing early, as does asking
IdoSell for more than it gives on a page (`ListsAll`). A request that reaches Redis after its
window's counter expired starts a new count, of a window that is over by then.

Fairness. `approval_single`: a started generator task and an accepted request go on
(weak fairness of their steps), as a worker or server process that does not die runs
its coroutine to the end; nothing makes a human decide, so `Load` is not fair.
`listing_publish`: a task that loaded its offer goes on; beat starts a sync every day,
so the sync is weakly fair, and each listing's own step strongly fair (a sync that
fails on a listing does not fail on it every day). Deliveries and approvals are not
fair. `cost_guard`: a started task goes on. `catalog_converge`: beat starts a sync
every day, and a started one goes on. `stripe_billing`: handlers run on, and Stripe
repeats an event until it is acknowledged; tenants owe nothing. `credentials`: a worker's
task goes on, a deployment restarts every process, and the daily sync of each connection
is strongly fair (workers are busy at times, not for ever); the health check is not, so
the last part of `HealthSettles` assumes that checks are made again and again. `connectors`,
`sessions` and `agent_proposals` check no liveness. A crash is always possible beside these.

## Proofs

`ApprovalEngineProofs.tla`, for any sets of recommendations, requests, tenants and
entities, from `WiringAssumption` and `NoCallAssumption` only:

* `EngineInvariant`: `EngineInv` is inductive. `QueueAgrees` and `EffectsAudited` are
  not by themselves: that approving leaves them true depends on what an in-flight
  request still knows about rows others may have changed. `RequestInv` says what
  survives any overlap (the approval exists and is no longer "none"; an approving
  request's approval is decided, though perhaps as REJECTED by another), `GenInv`
  orders a task's two commits, `DeciderInv`, `AuditInv` and `AppliedInv` tie decided
  rows, audit rows and writes to the request that made them. One lemma per action.
* From it: `TypeCorrect`, `QueueAgreement`, `AuditCompleteness`,
  `NoCrossTenantDecision`, and the action property `DecisionsAreFinal`.
* Assuming `SingleApprover`: `SingleInvariant` adds that an in-flight request is alone
  on its recommendation and that what it loaded is still current (`AloneInv`), and
  that `decidedBy` is set exactly when the approval is decided (`OnceInv`). From it
  `EffectAtMostOnce`, `DecisionMadeOnce`, and the refinement
  `EngineImplementsDecisions`: initial states map to initial states, each step to a
  step of `Decisions` or a stutter.

In the other modules the theorems hold for any values of the constants, too, from the one
assumption each module names. The bounds (`MaxEdits`, `MaxChanges`, `MaxFaults`, `LastMonth`
and their kind) are arbitrary numbers there, so nothing depends on them. Each proof module
states the inductive invariant first, then has one lemma per action, with one step per
conjunct the action may disturb, then the theorems.

* `PlatformProofs`, first part: `PublishInv` is `PublishTypeOK`, `QueueInv` (a message
  exists exactly when its approve request has sent it, and only then has deliveries),
  `PendingIsDriven` itself, with the offers a sync made PENDING kept apart from those an
  approval did, and `ClaimsTrue`: while the merchant has edited nothing, whatever says that
  a listing is live (our record, a task the platform accepted, a fetched page) is right.
  `ActiveIsLive` alone is not inductive: a page or an accepted task carries the claim before
  the record does. No property of the platform's vocabulary is used, but that a listing
  starts with a word that is not live and gets one that is. From it `PendingDriven`,
  `ActiveLive`, `ApprovalStarts`.
* `PlatformProofs`, second part: `ConnectorsInv` relates each call to the requests behind it.
  None of the four properties of `Connectors` is inductive, as they speak of the end of a
  method (or of one step of it) and their reasons lie in its earlier requests.
  - `WroteOk`: what the requests behind the call set has been written, or the listing is gone;
    `IdOk` and `SeenOk` say where the listing of a method that began with it still is, and that
    the get of a read-modify-write did read one. `MethodsOk` is all they use of the scripts,
    and is proved platform by platform (`WooCommerceOk` to `MockOk`): together a method's
    requests set every field it names; only PrestaShop's stock record may be missing, and then
    its listing is; nothing but a full update drops a field; a put of a nested object comes
    after a get. Together means but for `Unsent`. `SuccessApplied` follows, for any fields given,
    retries and interference.
  - `TokenOk`: a token goes stale only by a revocation, and a request that has re-authenticated
    can meet a stale one only by a second; Allegro's has the token it was made with. From it
    `AuthErrorsReal`.
  - `ListOk`: the pages in hand are the first ones of the shop. It needs that each
    platform's rule for the next page is right when it was told the total (`MoreIs`): a
    total rounded up to pages (`PagesAre`), an offset compared with a total, a page that
    came full. `NthMember` shows by a least counterexample that `Ascending` counts through a
    finite set. From it `ListingsComplete`, for any page size (on IdoSell up to its cap) and
    any number of listings.
  - `SiblingsStay` is an action property: a step changes another field only to what the call
    has read (`WritesBack`), so Shoper's nested objects lose nothing through update_price,
    update_stock and publish_offer.
* `CostGuardProofs`: `GuardInv` charges every task the guard has cleared `MaxCost` in
  advance, and after the month's end every task of the month still at work; spent and reserved
  together stay under `Budget` and one `Ceiling`, or two for a past month. What has been
  spent says nothing of what is about to be, so `SpendBounded` needs it. `SpendBilled` is
  about a fold over a set, whose theory needs induction over the jobs; it rests on `Least`
  (a family of sets of jobs has a least one, from the library's well-founded order of finite
  sets) and shows of a least counterexample that it is none: that sums exist
  (`SumsExist`), agree (`SumsAgree`), and grow by a job's own cost whichever job the
  fold takes first (`TotalRemove`).
* `CatalogSyncProofs`: `CatalogInv` says of each listing that stayed, for each running sync,
  that it is `Behind` the cursor, `OnPage`, or in the mirror, each field not spared no older
  than the syncs that overlap (`Covers`); what `SelectRow` found is still there or something
  fresher is (`Found`), which is what makes the write that leaves equal columns alone
  harmless; `AloneOk` and `ErrorOk` serve `AloneLosesNone` and `OutcomesRecent`. The lemmas
  `Inserted` and `Removed` say what a merchant's change does to the positions the cursor
  counts.
* `SessionsProofs`: `SessionsInv` ties every access token to a key that still verifies it,
  every rotated refresh token to its revocation, every counted request to its window, every
  counter to the minute it was given its 60 seconds in, and what a request in flight has
  read to what has been true since it arrived (`SinceOk`). From it `EntitledAlone`,
  `TokensUsedOnce`, `LimitRespected`, `NobodyForcedOut`.
* `StripeBillingProofs`: `BillingInv` (what a row or a handler's copy names at Stripe is its
  tenant's) gives `OwnEventsFollowed`. `SettledInv` adds, for tenants nothing has
  disturbed, that all they bought was bought for the customer in their row, that a copy in
  work agrees with the row or another handler has applied its event already (`Agrees`), that
  an acknowledged newest event shows in the row (`ShownOk`), and that the last event about
  a subscription says what it is (`Told`); it gives `RowsSettle`. With `TopOk` (the event in
  work is not newer than the newest taken) it gives `WebhookImplementsSubscription`.
* `CredentialsProofs`: `RotationInv` says, by phase of the runbook, under which keys a row may
  be stored (`Live`), what keys a process may have been started with, and that a migration
  has re-encrypted what it has passed, while whatever others store meanwhile is under the new
  key. From it `RotationKeepsAll`, for any number of rotations.
* `AgentProposalsProofs`: `ProposalsInv` says what a copy keeps in common with the row
  others go on writing (`CopiesCurrent`), that a recommendation is executed by one worker,
  and that each recommendation is right of the row as it is now (`RecOk`). Below it are the
  lemmas on the pricing engine's arithmetic: rounding is off by half a cent at most
  (`Rounds`), a dearer price keeps the margin (`Dearer`), the floor before rounding keeps
  it. From it `FloorProtected`, `SpecsNotInvented`, `ProposalsMove`, `SuccessWritten`.

Assumptions that are more than types: the jobs and the observable competitor prices are
finite sets; money has two decimals; the words for "nothing" (`None`, `NoRow`, `NoPage`,
`NoListing`, ...) are no other value; a page has room for a listing and a method is tried at
least once; `Moves` has no cancellation. TLC evaluates each of them in the runs.

Only model-checked: all liveness (`ExecutionEnds`, `ProposalsReachQueue`, `SyncConverges`,
`TasksEnd`, `SyncsEnd`, `MirrorConverges`, `EventsAcknowledged`, `HealthSettles`), as fairness
and ENABLED are outside what the prover handles. Every invariant and every action property
that a passing run checks is proved, and so are both refinements. `NeverLeftExecuting` is
false and has a run.

## Findings

Statements of the code's own documentation that do not hold; PROJECT.json quotes the
lines. `approval_stuck` shows the first; the others came up while modelling, and the
properties say where they excuse them.

1. `approve()` can leave EXECUTING behind.
2. A platform's own "pending" looks like an approved publication, and an old message
   publishes it: without its exception `OnlyApprovalStarts` is violated by a rejected
   publication, a merchant who puts the listing up for review, a sync, and a second delivery.
3. The price floor is rounded down as well as up, so it may not have the minimum margin:
   9.99 with 23 % VAT needs 14.011, and with a competitor at 12.00 the agent proposes 14.01.
4. Two overlapping generator tasks put two proposals for one offer in the queue.
5. No retry follows a failed publish.
6. A lazily created subscription row can break the second of two tasks.
7. A sku edited on the platform makes a second product and offer for one listing.
8. A refresh token is not single-use for two refreshes that overlap.
9. Two overlapping checkouts of a tenant create two Stripe customers, and the events of
   the first match no row.
10. Shoper's `update_product` sends the partial `stock` object its docstring warns of.
11. `create_product` of the connectors is not safe to retry.
12. A product whose cost is 0 makes the pricing task fail.
13. An unreachable target margin counts as infeasible where the docstring says only the
    minimum does.
14. A specification the content agent was not asked for is not forced to UNKNOWN.
15. A sync does not record the outcome "the same way" as the health check.

More that the models show without a documented statement to contradict: a sync that
applies an older page turns a PENDING offer into DRAFT, after which the publish task skips
an approved publication without an audit row; a billed call whose answer does not validate
is FAILED without a cost, so the guard's sum understates the bill; a listing removed while
a sync pages by position makes it skip another one without a failure, which
`MirrorsWhatStayed` must excuse (the next day's sync finds it); a Stripe event that
overtakes a newer one is applied over it, and nothing but the next event mends it; a
worker that has not been restarted yet when the first row is stored under a new key
reports that connection as an error until the next check.

## Plan

Modelled so far: what the inventory lists; proved: what Proofs lists. What is left, in this
order:

1. An abstract connection (what the merchant is told), as `Decisions` is for
   `ApprovalEngine` and `Subscription` for `StripeBilling`.
2. Fees and shipping in the pricing engine, as parameters of an entry.
3. The plan of `StripeBilling` as the budget of `CostGuard`.

## Not modelled

The AI provider is one HTTP call, an environment step that answers or fails. The connectors'
field formats, category trees and the Allegro device login (which no code calls) are left
out. Read-only routes, dashboards, logging, metrics, the web interface and migrations keep
no state that a later step depends on. The catalog audit and the listing agent's
completeness check are pure functions of loaded rows, with no state to get wrong; a
generator task may propose or not. `ToolExecutor` is not called by any route or task of the
repository. In `AgentProposals` a listing always has a price, and in `CostGuard` an answer
its token counts (`record_usage_on_job` would record nothing without). The connectors'
products have no sku, category or parameters, and PrestaShop's PUT is taken to keep the
fields it does not name. In `Sessions` passwords are right and Redis answers; in
`StripeBilling` signatures are right.

## Running

    tlc -config approval_overlap.cfg MCApprovalEngine.tla
    tlapm ApprovalEngineProofs.tla

and so for each cfg with the module its run in PROJECT.json names, and for each module of
proofs.
