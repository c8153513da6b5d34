---------------------------- MODULE ListingPublish ----------------------------
(***************************************************************************)
(* Taking a draft listing live.  An approved request_listing_publish call  *)
(* flips the offer to PENDING, the approve route enqueues a celery task,   *)
(* and the task calls the marketplace and records what happened; the       *)
(* catalog sync meanwhile copies the marketplace's own status over the     *)
(* offer.  No session locks a row, so each of them acts on what it loaded. *)
(*                                                                         *)
(* Celery runs with its defaults: no autoretry, messages acknowledged when *)
(* a worker takes them, and redelivered only by the broker.                *)
(*                                                                         *)
(* Its Publish... names let PlatformProofs extend this module and          *)
(* Connectors at once.                                                     *)
(***************************************************************************)
EXTENDS Naturals

CONSTANTS
    Offers,        \* offers that exist on the marketplace (external_id is set)
    Approvals,     \* approve requests whose tool call is request_listing_publish
    OfferOf,       \* the offer each of them is about
    Deliveries,    \* how often the broker may deliver one message
    Syncs,         \* sync_products runs that may overlap
    Platform,      \* the status words the platform reports
    LiveWord,      \* the word of a listing that publish_offer() has taken live
    DraftWord,     \* the word of a listing that is not live yet
    Faults,        \* crashes, lost sends and transport errors happen
    MaxChanges,    \* how often the merchant changes a listing on the platform
    NoPage         \* a sync that is between two runs

Statuses == {"draft", "pending", "active", "paused", "error"}

\* _STATUS_MAP, whole: a word that is not in its domain leaves an offer alone.
StatusMap ==
    [draft  |-> "draft",  pending |-> "pending", active |-> "active", publish  |-> "active",
     paused |-> "paused", private |-> "paused",  error  |-> "error",  inactive |-> "draft"]

Live(word) == word \in DOMAIN StatusMap /\ StatusMap[word] = "active"

ASSUME ListingAssumption ==
    /\ OfferOf \in [Approvals -> Offers]
    /\ {LiveWord, DraftWord} \subseteq Platform
    /\ Live(LiveWord)
    /\ ~Live(DraftWord)
    /\ Deliveries # {}
    /\ MaxChanges \in Nat
    /\ Faults \in BOOLEAN
    /\ NoPage \notin UNION {[S -> Platform] : S \in SUBSET Offers}

VARIABLES
    offer,   \* offers.status
    remote,  \* the listing's status on the marketplace
    changes, \* changes the merchant has made there so far
    apc,     \* where each approve request stands
    queue,   \* the publish messages in the broker, named by the approval that sent them
    run,     \* where each delivery of each message stands
    page,    \* the listings each sync has fetched and not yet applied
    mirrored \* the offers that a sync made PENDING last (kept for the properties)

publishVars == <<offer, remote, changes, apc, queue, run, page, mirrored>>

Runs == Approvals \X Deliveries

PublishTypeOK ==
    /\ offer \in [Offers -> Statuses]
    /\ remote \in [Offers -> Platform]
    /\ changes \in 0..MaxChanges
    /\ apc \in [Approvals -> {"idle", "failed", "ready", "committed", "enqueued", "lost"}]
    /\ queue \subseteq Approvals
    /\ run \in [Runs -> {"idle", "skipped", "loaded", "accepted", "rejected",
                         "done", "failed", "lost"}]
    /\ page \in [Syncs -> {NoPage} \cup UNION {[S -> Platform] : S \in SUBSET Offers}]
    /\ mirrored \subseteq Offers

PublishInit ==
    /\ offer = [o \in Offers |-> "draft"]
    /\ remote = [o \in Offers |-> DraftWord]
    /\ changes = 0
    /\ apc = [a \in Approvals |-> "idle"]
    /\ queue = {}
    /\ run = [x \in Runs |-> "idle"]
    /\ page = [s \in Syncs |-> NoPage]
    /\ mirrored = {}

-------------------------------------------------------------------------------
(* The approve request: the tool handler, its commit, the enqueue.         *)

ApproveStep(a, from, to) ==
    /\ apc[a] = from
    /\ apc' = [apc EXCEPT ![a] = to]

\* request_listing_publish_handler(): only a DRAFT is accepted.
HandlerReads(a) ==
    /\ \/ offer[OfferOf[a]] = "draft" /\ ApproveStep(a, "idle", "ready")
       \/ offer[OfferOf[a]] # "draft" /\ ApproveStep(a, "idle", "failed")
    /\ UNCHANGED <<offer, remote, changes, queue, run, page, mirrored>>

\* The commit that ends approve(): PENDING overwrites whatever is there by now.
HandlerCommits(a) ==
    /\ ApproveStep(a, "ready", "committed")
    /\ offer' = [offer EXCEPT ![OfferOf[a]] = "pending"]
    /\ mirrored' = mirrored \ {OfferOf[a]}
    /\ UNCHANGED <<remote, changes, queue, run, page>>

\* Variant: approves without sending the task.
Enqueue_Never(a) ==
    /\ ApproveStep(a, "committed", "enqueued")
    /\ UNCHANGED <<offer, remote, changes, queue, run, page, mirrored>>

\* approve_endpoint(): send_task after the commit, for a SUCCESS only.
Enqueue(a) ==
    /\ ApproveStep(a, "committed", "enqueued")
    /\ queue' = queue \cup {a}
    /\ UNCHANGED <<offer, remote, changes, run, page, mirrored>>

\* The process dies, or the send fails, between the commit and the broker.
ApproveLost(a) ==
    /\ Faults
    /\ \E at \in {"ready", "committed"} : ApproveStep(a, at, "lost")
    /\ UNCHANGED <<offer, remote, changes, queue, run, page, mirrored>>

-------------------------------------------------------------------------------
(* The publish task.                                                       *)

RunStep(x, from, to) ==
    /\ run[x] = from
    /\ run' = [run EXCEPT ![x] = to]

Target(x) == OfferOf[x[1]]

\* Variant: does not check that the offer is still PENDING.
RunLoads_Unchecked(x) ==
    /\ x[1] \in queue
    /\ RunStep(x, "idle", "loaded")
    /\ UNCHANGED <<offer, remote, changes, apc, queue, page, mirrored>>

\* An offer that is not PENDING any more is a no-op.
RunLoads(x) ==
    /\ x[1] \in queue
    /\ \/ offer[Target(x)] = "pending" /\ RunStep(x, "idle", "loaded")
       \/ offer[Target(x)] # "pending" /\ RunStep(x, "idle", "skipped")
    /\ UNCHANGED <<offer, remote, changes, apc, queue, page, mirrored>>

\* connector.publish_offer() returns, or raises a ConnectorError.
RunCalls(x) ==
    /\ \/ /\ RunStep(x, "loaded", "accepted")
          /\ remote' = [remote EXCEPT ![Target(x)] = LiveWord]
       \/ RunStep(x, "loaded", "rejected") /\ UNCHANGED remote
    /\ UNCHANGED <<offer, changes, apc, queue, page, mirrored>>

\* Any other exception escapes the task; the platform may have acted or not.
RunFails(x) ==
    /\ Faults
    /\ RunStep(x, "loaded", "failed")
    /\ remote' \in {remote, [remote EXCEPT ![Target(x)] = LiveWord]}
    /\ UNCHANGED <<offer, changes, apc, queue, page, mirrored>>

\* Variant: a ConnectorError is logged and the offer still marked ACTIVE.
RunCommits_AlwaysActive(x) ==
    /\ \E at \in {"accepted", "rejected"} : RunStep(x, at, "done")
    /\ offer' = [offer EXCEPT ![Target(x)] = "active"]
    /\ UNCHANGED <<remote, changes, apc, queue, page, mirrored>>

\* ACTIVE or ERROR, with its audit row, over whatever is there by now.
RunCommits(x) ==
    /\ \/ /\ RunStep(x, "accepted", "done")
          /\ offer' = [offer EXCEPT ![Target(x)] = "active"]
       \/ /\ RunStep(x, "rejected", "done")
          /\ offer' = [offer EXCEPT ![Target(x)] = "error"]
    /\ UNCHANGED <<remote, changes, apc, queue, page, mirrored>>

RunLost(x) ==
    /\ Faults
    /\ \E at \in {"loaded", "accepted", "rejected"} : RunStep(x, at, "lost")
    /\ UNCHANGED <<offer, remote, changes, apc, queue, page, mirrored>>

-------------------------------------------------------------------------------
(* The catalog sync and the merchant.                                      *)

Rest(s, o) == [p \in DOMAIN page[s] \ {o} |-> page[s][p]]

SyncFetches(s) ==
    /\ page[s] = NoPage
    /\ page' = [page EXCEPT ![s] = remote]
    /\ UNCHANGED <<offer, remote, changes, apc, queue, run, mirrored>>

MirrorsStatus(o, word) ==
    /\ offer' = [offer EXCEPT ![o] = StatusMap[word]]
    /\ mirrored' = IF StatusMap[word] = "pending" /\ offer[o] # "pending"
                   THEN mirrored \cup {o} ELSE mirrored

\* Variant: never touches an offer whose publication is pending.
SyncApplies_SparesPending(s, o) ==
    /\ page[s] # NoPage
    /\ o \in DOMAIN page[s]
    /\ \/ page[s][o] \in DOMAIN StatusMap /\ offer[o] # "pending" /\ MirrorsStatus(o, page[s][o])
       \/ /\ page[s][o] \notin DOMAIN StatusMap \/ offer[o] = "pending"
          /\ UNCHANGED <<offer, mirrored>>
    /\ page' = [page EXCEPT ![s] = Rest(s, o)]
    /\ UNCHANGED <<remote, changes, apc, queue, run>>

\* _upsert_product() on an existing offer, and its commit: a mapped status always
\* wins, an unmapped one leaves the offer alone.  The column is written without
\* regard to what was read, so the read and the commit are one step.
SyncApplies(s, o) ==
    /\ page[s] # NoPage
    /\ o \in DOMAIN page[s]
    /\ \/ page[s][o] \in DOMAIN StatusMap /\ MirrorsStatus(o, page[s][o])
       \/ page[s][o] \notin DOMAIN StatusMap /\ UNCHANGED <<offer, mirrored>>
    /\ page' = [page EXCEPT ![s] = Rest(s, o)]
    /\ UNCHANGED <<remote, changes, apc, queue, run>>

\* A listing's savepoint fails: it is recorded and the loop goes on.
SyncSkips(s, o) ==
    /\ Faults
    /\ page[s] # NoPage
    /\ o \in DOMAIN page[s]
    /\ page' = [page EXCEPT ![s] = Rest(s, o)]
    /\ UNCHANGED <<offer, remote, changes, apc, queue, run, mirrored>>

\* The last page is done, a later fetch failed for good, or the worker died.
SyncEnds(s) ==
    /\ page[s] # NoPage
    /\ Faults \/ DOMAIN page[s] = {}
    /\ page' = [page EXCEPT ![s] = NoPage]
    /\ UNCHANGED <<offer, remote, changes, apc, queue, run, mirrored>>

MerchantEdits(o) ==
    /\ changes < MaxChanges
    /\ changes' = changes + 1
    /\ \E w \in Platform \ {remote[o]} : remote' = [remote EXCEPT ![o] = w]
    /\ UNCHANGED <<offer, apc, queue, run, page, mirrored>>

-------------------------------------------------------------------------------
ApproveNext(a) == HandlerReads(a) \/ HandlerCommits(a) \/ Enqueue(a) \/ ApproveLost(a)
RunNext(x)     == RunLoads(x) \/ RunCalls(x) \/ RunFails(x) \/ RunCommits(x) \/ RunLost(x)
SyncNext(s)    ==
    \/ SyncFetches(s)
    \/ \E o \in Offers : SyncApplies(s, o) \/ SyncSkips(s, o)
    \/ SyncEnds(s)

PublishNext ==
    \/ \E a \in Approvals : ApproveNext(a)
    \/ \E x \in Runs : RunNext(x)
    \/ \E s \in Syncs : SyncNext(s)
    \/ \E o \in Offers : MerchantEdits(o)

\* A worker that took a message goes on; beat starts a sync every day, and a sync
\* that fails on a listing does not fail on it every day.  No human has to approve
\* and no merchant has to edit.
PublishFairness ==
    /\ \A x \in Runs : WF_publishVars(RunCalls(x) \/ RunFails(x) \/ RunCommits(x))
    /\ \A s \in Syncs : WF_publishVars(SyncNext(s))
    /\ \A s \in Syncs, o \in Offers : SF_publishVars(SyncApplies(s, o))

PublishSpec     == PublishInit /\ [][PublishNext]_publishVars
PublishFairSpec == PublishSpec /\ PublishFairness

-------------------------------------------------------------------------------
Underway(o) ==
    \/ \E a \in Approvals : OfferOf[a] = o /\ apc[a] = "committed"
    \/ \E x \in Runs : Target(x) = o /\ run[x] \in {"loaded", "accepted", "rejected"}
    \/ \E x \in Runs : Target(x) = o /\ x[1] \in queue /\ run[x] = "idle"

Broken(o) ==
    \/ \E a \in Approvals : OfferOf[a] = o /\ apc[a] = "lost"
    \/ \E x \in Runs : Target(x) = o /\ run[x] \in {"failed", "lost"}

\* The platform itself reports the listing as pending (WooCommerce: awaiting review)
\* and the sync copied that, which no approval asked for.
Reported(o) == offer[o] = "pending" /\ o \in mirrored

\* An offer waits in PENDING only while something will still take it out: a send
\* to come, a message to deliver or a task at work - unless one of those died, or
\* the platform's own "pending" was copied and only the platform can change it.
PendingIsDriven ==
    \A o \in Offers : offer[o] = "pending" => Underway(o) \/ Broken(o) \/ Reported(o)

\* Our record never says "live" before the listing is: until the merchant edits
\* it, an ACTIVE offer is live on the marketplace, whatever raced or failed.
ActiveIsLive == \A o \in Offers : offer[o] = "active" /\ changes = 0 => Live(remote[o])

InMotion(o) ==
    \/ offer[o] = "pending" /\ o \notin mirrored
    \/ \E a \in Approvals : OfferOf[a] = o /\ apc[a] \in {"ready", "committed"}
    \/ \E x \in Runs : Target(x) = o /\ run[x] \in {"loaded", "accepted", "rejected"}

Starts(o)   == ~InMotion(o) /\ InMotion(o)'
Approved(o) == \E a \in Approvals : OfferOf[a] = o /\ apc[a] = "idle" /\ apc'[a] = "ready"

\* Only a human sets a publication in motion: once a listing has come to rest,
\* neither a redelivered message nor the sync starts it again, so what a merchant
\* took down stays down until the next approval.  The one exception is a listing
\* that the platform reports as pending: its offer looks approved, and an old message
\* publishes it, which CONTRIBUTING.md's "Medium/high-risk actions require human
\* approval" forbids; see the findings.
OnlyApprovalStarts ==
    [][\A o \in Offers : Starts(o) => Approved(o) \/ Reported(o)]_publishVars

\* Once approvals, deliveries and edits end, the daily sync brings every offer to
\* the status of its listing for good, whatever was lost or written late.
SyncConverges ==
    <>[](\A o \in Offers : remote[o] \in DOMAIN StatusMap => offer[o] = StatusMap[remote[o]])
===============================================================================
