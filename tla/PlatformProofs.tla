--------------------------- MODULE PlatformProofs ---------------------------
(***************************************************************************)
(* Proofs about the two modules on the marketplaces' side, each with names *)
(* of its own: ListingPublish, for any offers, approvals, deliveries,      *)
(* overlapping syncs and status words, and Connectors, for any calls,      *)
(* shops, page sizes, faults and revocations on all six platforms.         *)
(***************************************************************************)
EXTENDS Connectors, ListingPublish, SequenceTheorems, FiniteSetTheorems,
        WellFoundedInduction, TLAPS

\* A message is in the broker once its approve request has sent it, and only then is
\* there anything to deliver.
QueueInv ==
    /\ \A a \in Approvals : a \in queue <=> apc[a] = "enqueued"
    /\ \A x \in Runs : x[1] \notin queue => run[x] = "idle"

\* Who says that a listing is live: the record, a task that was told so, a fetched page.
ClaimsLive(o) ==
    \/ offer[o] = "active"
    \/ \E x \in Runs : Target(x) = o /\ run[x] = "accepted"
    \/ \E s \in Syncs : page[s] # NoPage /\ o \in DOMAIN page[s] /\ Live(page[s][o])

ClaimsTrue == changes = 0 => \A o \in Offers : ClaimsLive(o) => Live(remote[o])

PublishInv == PublishTypeOK /\ QueueInv /\ PendingIsDriven /\ ClaimsTrue

-------------------------------------------------------------------------------
LEMMA StatusMapWords ==
    ASSUME NEW word \in DOMAIN StatusMap
    PROVE  /\ StatusMap[word] \in Statuses
           /\ StatusMap[word] = "active" => Live(word)
BY DEF StatusMap, Statuses, Live

LEMMA RunParts == \A x \in Runs : x[1] \in Approvals /\ Target(x) \in Offers
BY ListingAssumption DEF Runs, Target

\* What a sync has fetched is words of the platform, for some of the offers.
LEMMA PageShape ==
    ASSUME PublishTypeOK, NEW s \in Syncs, page[s] # NoPage
    PROVE  /\ DOMAIN page[s] \subseteq Offers
           /\ \A o \in DOMAIN page[s] : page[s][o] \in Platform
<1>1. page[s] \in UNION {[S -> Platform] : S \in SUBSET Offers}
  BY DEF PublishTypeOK
<1>2. PICK S \in SUBSET Offers : page[s] \in [S -> Platform]
  BY <1>1
<1>. QED BY <1>2

LEMMA RestShape ==
    ASSUME PublishTypeOK, NEW s \in Syncs, page[s] # NoPage, NEW o
    PROVE  Rest(s, o) \in UNION {[S -> Platform] : S \in SUBSET Offers}
<1>1. Rest(s, o) \in [DOMAIN page[s] \ {o} -> Platform]
  BY PageShape DEF Rest
<1>2. DOMAIN page[s] \ {o} \in SUBSET Offers
  BY PageShape
<1>. QED BY <1>1, <1>2

LEMMA PublishInitial == PublishInit => PublishInv
<1> SUFFICES ASSUME PublishInit PROVE PublishInv
  OBVIOUS
<1> USE ListingAssumption DEF PublishInit
<1>1. PublishTypeOK
  BY DEF PublishTypeOK, Statuses
<1>2. QueueInv
  BY DEF QueueInv
<1>3. PendingIsDriven
  BY DEF PendingIsDriven
<1>4. ClaimsTrue
  BY DEF ClaimsTrue, ClaimsLive, Runs
<1>. QED BY <1>1, <1>2, <1>3, <1>4 DEF PublishInv

-------------------------------------------------------------------------------
(* The approve request.                                                     *)

LEMMA HandlerReadsStep ==
    ASSUME PublishInv, NEW a \in Approvals, HandlerReads(a)
    PROVE  PublishInv'
<1> USE DEF PublishInv, HandlerReads, ApproveStep
<1>1. PublishTypeOK'
  BY DEF PublishTypeOK
<1>2. QueueInv'
  BY DEF PublishTypeOK, QueueInv
<1>3. PendingIsDriven'
  BY DEF PublishTypeOK, PendingIsDriven, Underway, Broken, Reported, Target
<1>4. ClaimsTrue'
  BY DEF ClaimsTrue, ClaimsLive, Target
<1>. QED BY <1>1, <1>2, <1>3, <1>4

LEMMA HandlerCommitsStep ==
    ASSUME PublishInv, NEW a \in Approvals, HandlerCommits(a)
    PROVE  PublishInv'
<1> USE ListingAssumption DEF PublishInv, HandlerCommits, ApproveStep
<1>1. PublishTypeOK'
  BY DEF PublishTypeOK, Statuses
<1>2. QueueInv'
  BY DEF PublishTypeOK, QueueInv
<1>3. PendingIsDriven'
  <2> SUFFICES ASSUME NEW o \in Offers, offer'[o] = "pending"
               PROVE  Underway(o)' \/ Broken(o)' \/ Reported(o)'
    BY DEF PendingIsDriven
  <2>1. CASE o = OfferOf[a]
    BY <2>1 DEF PublishTypeOK, Underway, Reported
  <2>2. CASE o # OfferOf[a]
    BY <2>2 DEF PublishTypeOK, PendingIsDriven, Underway, Broken, Reported, Target
  <2>. QED BY <2>1, <2>2
<1>4. ClaimsTrue'
  BY DEF PublishTypeOK, ClaimsTrue, ClaimsLive, Target
<1>. QED BY <1>1, <1>2, <1>3, <1>4

\* The message takes over from the request: none of its deliveries has begun.
LEMMA EnqueueStep ==
    ASSUME PublishInv, NEW a \in Approvals, Enqueue(a)
    PROVE  PublishInv'
<1> USE DEF PublishInv, Enqueue, ApproveStep
<1>1. PublishTypeOK'
  BY DEF PublishTypeOK
<1>2. QueueInv'
  BY DEF PublishTypeOK, QueueInv
<1>3. PendingIsDriven'
  <2> SUFFICES ASSUME NEW o \in Offers, offer'[o] = "pending"
               PROVE  Underway(o)' \/ Broken(o)' \/ Reported(o)'
    BY DEF PendingIsDriven
  <2>1. CASE o = OfferOf[a]
    <3>1. PICK d \in Deliveries : TRUE
      BY ListingAssumption
    <3>2. <<a, d>> \in Runs /\ <<a, d>>[1] = a
      BY DEF Runs
    <3>3. run[<<a, d>>] = "idle"
      BY <3>2 DEF QueueInv
    <3>. QED BY <2>1, <3>2, <3>3 DEF Underway, Target
  <2>2. CASE o # OfferOf[a]
    BY <2>2 DEF PublishTypeOK, PendingIsDriven, Underway, Broken, Reported, Target
  <2>. QED BY <2>1, <2>2
<1>4. ClaimsTrue'
  BY DEF ClaimsTrue, ClaimsLive, Target
<1>. QED BY <1>1, <1>2, <1>3, <1>4

LEMMA ApproveLostStep ==
    ASSUME PublishInv, NEW a \in Approvals, ApproveLost(a)
    PROVE  PublishInv'
<1> USE DEF PublishInv, ApproveLost, ApproveStep
<1>1. PublishTypeOK'
  BY DEF PublishTypeOK
<1>2. QueueInv'
  BY DEF PublishTypeOK, QueueInv
<1>3. PendingIsDriven'
  BY DEF PublishTypeOK, PendingIsDriven, Underway, Broken, Reported, Target
<1>4. ClaimsTrue'
  BY DEF ClaimsTrue, ClaimsLive, Target
<1>. QED BY <1>1, <1>2, <1>3, <1>4

-------------------------------------------------------------------------------
(* The publish task.                                                        *)

LEMMA RunLoadsStep ==
    ASSUME PublishInv, NEW x \in Runs, RunLoads(x)
    PROVE  PublishInv'
<1> USE DEF PublishInv, RunLoads, RunStep
<1>1. PublishTypeOK'
  BY DEF PublishTypeOK
<1>2. QueueInv'
  BY DEF PublishTypeOK, QueueInv
<1>3. PendingIsDriven'
  BY RunParts DEF PublishTypeOK, PendingIsDriven, Underway, Broken, Reported, Target
<1>4. ClaimsTrue'
  BY DEF PublishTypeOK, ClaimsTrue, ClaimsLive, Target
<1>. QED BY <1>1, <1>2, <1>3, <1>4

LEMMA RunCallsStep ==
    ASSUME PublishInv, NEW x \in Runs, RunCalls(x)
    PROVE  PublishInv'
<1> USE ListingAssumption, RunParts DEF PublishInv, RunCalls, RunStep
<1>1. PublishTypeOK'
  BY DEF PublishTypeOK
<1>2. QueueInv'
  BY DEF PublishTypeOK, QueueInv
<1>3. PendingIsDriven'
  BY DEF PublishTypeOK, PendingIsDriven, Underway, Broken, Reported, Target
<1>4. ClaimsTrue'
  BY DEF PublishTypeOK, ClaimsTrue, ClaimsLive, Target
<1>. QED BY <1>1, <1>2, <1>3, <1>4

LEMMA RunFailsStep ==
    ASSUME PublishInv, NEW x \in Runs, RunFails(x)
    PROVE  PublishInv'
<1> USE ListingAssumption, RunParts DEF PublishInv, RunFails, RunStep
<1>1. PublishTypeOK'
  BY DEF PublishTypeOK
<1>2. QueueInv'
  BY DEF PublishTypeOK, QueueInv
<1>3. PendingIsDriven'
  BY DEF PublishTypeOK, PendingIsDriven, Underway, Broken, Reported, Target
<1>4. ClaimsTrue'
  BY DEF PublishTypeOK, ClaimsTrue, ClaimsLive, Target
<1>. QED BY <1>1, <1>2, <1>3, <1>4

LEMMA RunCommitsStep ==
    ASSUME PublishInv, NEW x \in Runs, RunCommits(x)
    PROVE  PublishInv'
<1> USE RunParts DEF PublishInv, RunCommits, RunStep
<1>1. PublishTypeOK'
  BY DEF PublishTypeOK, Statuses
<1>2. QueueInv'
  BY DEF PublishTypeOK, QueueInv
<1>3. PendingIsDriven'
  BY DEF PublishTypeOK, PendingIsDriven, Underway, Broken, Reported, Target
<1>4. ClaimsTrue'
  BY DEF PublishTypeOK, ClaimsTrue, ClaimsLive, Target
<1>. QED BY <1>1, <1>2, <1>3, <1>4

LEMMA RunLostStep ==
    ASSUME PublishInv, NEW x \in Runs, RunLost(x)
    PROVE  PublishInv'
<1> USE RunParts DEF PublishInv, RunLost, RunStep
<1>1. PublishTypeOK'
  BY DEF PublishTypeOK
<1>2. QueueInv'
  BY DEF PublishTypeOK, QueueInv
<1>3. PendingIsDriven'
  BY DEF PublishTypeOK, PendingIsDriven, Underway, Broken, Reported, Target
<1>4. ClaimsTrue'
  BY DEF PublishTypeOK, ClaimsTrue, ClaimsLive, Target
<1>. QED BY <1>1, <1>2, <1>3, <1>4

-------------------------------------------------------------------------------
(* The catalog sync and the merchant.                                       *)

LEMMA SyncFetchesStep ==
    ASSUME PublishInv, NEW s \in Syncs, SyncFetches(s)
    PROVE  PublishInv'
<1> USE DEF PublishInv, SyncFetches
<1>1. PublishTypeOK'
  <2>1. remote \in UNION {[S -> Platform] : S \in SUBSET Offers}
    BY DEF PublishTypeOK
  <2>. QED BY <2>1 DEF PublishTypeOK
<1>2. QueueInv'
  BY DEF QueueInv
<1>3. PendingIsDriven'
  BY DEF PendingIsDriven, Underway, Broken, Reported, Target
<1>4. ClaimsTrue'
  BY DEF PublishTypeOK, ClaimsTrue, ClaimsLive, Target
<1>. QED BY <1>1, <1>2, <1>3, <1>4

\* PENDING only as the platform's own, and ACTIVE only where the page says so.
LEMMA SyncAppliesStep ==
    ASSUME PublishInv, NEW s \in Syncs, NEW o \in Offers, SyncApplies(s, o)
    PROVE  PublishInv'
<1> USE DEF PublishInv, SyncApplies, MirrorsStatus
<1>1. PublishTypeOK'
  BY RestShape, StatusMapWords DEF PublishTypeOK
<1>2. QueueInv'
  BY DEF QueueInv
<1>3. PendingIsDriven'
  BY StatusMapWords DEF PublishTypeOK, PendingIsDriven, Underway, Broken, Reported, Target
<1>4. ClaimsTrue'
  <2> SUFFICES ASSUME changes = 0, NEW q \in Offers, ClaimsLive(q)' PROVE Live(remote[q])
    BY DEF ClaimsTrue
  <2>1. offer'[q] = "active" => ClaimsLive(q)
    BY StatusMapWords DEF PublishTypeOK, ClaimsLive
  <2>2. ASSUME NEW z \in Syncs, q \in DOMAIN page'[z]
        PROVE  /\ q \in DOMAIN page[z] /\ page'[z][q] = page[z][q]
               /\ page'[z] # NoPage => page[z] # NoPage
    BY <2>2 DEF PublishTypeOK, Rest
  <2>3. ClaimsLive(q)
    BY <2>1, <2>2 DEF ClaimsLive, Target
  <2>. QED BY <2>3 DEF ClaimsTrue
<1>. QED BY <1>1, <1>2, <1>3, <1>4

LEMMA SyncSkipsStep ==
    ASSUME PublishInv, NEW s \in Syncs, NEW o \in Offers, SyncSkips(s, o)
    PROVE  PublishInv'
<1> USE DEF PublishInv, SyncSkips
<1>1. PublishTypeOK'
  BY RestShape DEF PublishTypeOK
<1>2. QueueInv'
  BY DEF QueueInv
<1>3. PendingIsDriven'
  BY DEF PendingIsDriven, Underway, Broken, Reported, Target
<1>4. ClaimsTrue'
  BY DEF PublishTypeOK, ClaimsTrue, ClaimsLive, Target, Rest
<1>. QED BY <1>1, <1>2, <1>3, <1>4

LEMMA SyncEndsStep ==
    ASSUME PublishInv, NEW s \in Syncs, SyncEnds(s)
    PROVE  PublishInv'
<1> USE DEF PublishInv, SyncEnds
<1>1. PublishTypeOK'
  BY DEF PublishTypeOK
<1>2. QueueInv'
  BY DEF QueueInv
<1>3. PendingIsDriven'
  BY DEF PendingIsDriven, Underway, Broken, Reported, Target
<1>4. ClaimsTrue'
  BY DEF PublishTypeOK, ClaimsTrue, ClaimsLive, Target
<1>. QED BY <1>1, <1>2, <1>3, <1>4

LEMMA MerchantEditsStep ==
    ASSUME PublishInv, NEW o \in Offers, MerchantEdits(o)
    PROVE  PublishInv'
<1> USE ListingAssumption DEF PublishInv, MerchantEdits
<1>1. PublishTypeOK'
  BY DEF PublishTypeOK
<1>2. QueueInv'
  BY DEF QueueInv
<1>3. PendingIsDriven'
  BY DEF PendingIsDriven, Underway, Broken, Reported, Target
<1>4. ClaimsTrue'
  BY DEF PublishTypeOK, ClaimsTrue
<1>. QED BY <1>1, <1>2, <1>3, <1>4

LEMMA PublishStutters == PublishInv /\ UNCHANGED publishVars => PublishInv'
BY DEF publishVars, PublishInv, PublishTypeOK, QueueInv, PendingIsDriven, Underway, Broken,
       Reported, Target, ClaimsTrue, ClaimsLive

LEMMA PublishSteps == PublishInv /\ [PublishNext]_publishVars => PublishInv'
<1> SUFFICES ASSUME PublishInv, [PublishNext]_publishVars PROVE PublishInv'
  OBVIOUS
<1>1. CASE UNCHANGED publishVars
  BY <1>1, PublishStutters
<1>2. ASSUME NEW a \in Approvals, ApproveNext(a) PROVE PublishInv'
  BY <1>2, HandlerReadsStep, HandlerCommitsStep, EnqueueStep, ApproveLostStep DEF ApproveNext
<1>3. ASSUME NEW x \in Runs, RunNext(x) PROVE PublishInv'
  BY <1>3, RunLoadsStep, RunCallsStep, RunFailsStep, RunCommitsStep, RunLostStep DEF RunNext
<1>4. ASSUME NEW s \in Syncs, SyncNext(s) PROVE PublishInv'
  BY <1>4, SyncFetchesStep, SyncAppliesStep, SyncSkipsStep, SyncEndsStep DEF SyncNext
<1>5. ASSUME NEW o \in Offers, MerchantEdits(o) PROVE PublishInv'
  BY <1>5, MerchantEditsStep
<1>. QED BY <1>1, <1>2, <1>3, <1>4, <1>5 DEF PublishNext

-------------------------------------------------------------------------------
\* Whatever overlaps, fails or is redelivered: types, the broker's messages, who drives a
\* PENDING offer and who may say that a listing is live.
THEOREM PublishInvariant == PublishSpec => []PublishInv
BY PublishInitial, PublishSteps, PTL DEF PublishSpec

\* An offer waits in PENDING only while a send, a message or a task is still to take it
\* out, one of those died, or the PENDING is the platform's own (approve_endpoint,
\* _publish_listing_to_marketplace, _STATUS_MAP).
THEOREM PendingDriven == PublishSpec => []PendingIsDriven
<1>1. PublishInv => PendingIsDriven
  BY DEF PublishInv
<1>. QED BY <1>1, PublishInvariant, PTL

\* ACTIVE never runs ahead of the marketplace: neither the publish task nor the sync
\* writes it before the listing is live.
THEOREM ActiveLive == PublishSpec => []ActiveIsLive
<1>1. PublishInv => ActiveIsLive
  BY DEF PublishInv, ClaimsTrue, ClaimsLive, ActiveIsLive
<1>. QED BY <1>1, PublishInvariant, PTL

\* Nothing but a new approval sets a listing that has come to rest in motion again, no
\* redelivered message and no sync - unless the platform reports it as pending.
THEOREM ApprovalStarts == PublishSpec => OnlyApprovalStarts
<1> DEFINE Allowed(o) == Approved(o) \/ Reported(o)
<1>1. ASSUME PublishTypeOK, [PublishNext]_publishVars, NEW o \in Offers, Starts(o)
      PROVE  Allowed(o)
  <2> USE <1>1 DEF Starts, Approved, Reported, InMotion, PublishTypeOK
  <2>1. CASE UNCHANGED publishVars
    BY <2>1 DEF publishVars, Target
  <2>2. ASSUME NEW a \in Approvals, ApproveNext(a) PROVE Allowed(o)
    BY <2>2, ListingAssumption
    DEF ApproveNext, ApproveStep, HandlerReads, HandlerCommits, Enqueue, ApproveLost, Target
  <2>3. ASSUME NEW x \in Runs, RunNext(x) PROVE Allowed(o)
    BY <2>3, RunParts
    DEF RunNext, RunStep, RunLoads, RunCalls, RunFails, RunCommits, RunLost, Target
  <2>4. ASSUME NEW s \in Syncs, SyncNext(s) PROVE FALSE
    BY <2>4, StatusMapWords
    DEF SyncNext, SyncFetches, SyncApplies, MirrorsStatus, SyncSkips, SyncEnds, Target
  <2>5. ASSUME NEW e \in Offers, MerchantEdits(e) PROVE FALSE
    BY <2>5 DEF MerchantEdits, Target
  <2>. QED BY <2>1, <2>2, <2>3, <2>4, <2>5 DEF PublishNext
<1>2. PublishTypeOK /\ [PublishNext]_publishVars =>
          [\A o \in Offers : Starts(o) => Allowed(o)]_publishVars
  BY <1>1
<1>3. PublishInv => PublishTypeOK
  BY DEF PublishInv
<1>. QED BY <1>2, <1>3, PublishInvariant, PTL DEF PublishSpec, OnlyApprovalStarts

-------------------------------------------------------------------------------
(* Connectors.                                                              *)

\* The requests of this try that are behind the call.
Past(c) == 1 .. call[c].at - 1

NamedBy(c) == Named(call[c].op, call[c].given)

\* What those requests set has been written; a method that returned has written it all,
\* and starts from its first request if it is called again.
WroteOk(c) ==
    /\ call[c].state # "running" => call[c].at = 1
    /\ call[c].state = "running" => \A j \in Past(c) :
          Script(c)[j].set \cap NamedBy(c) \subseteq note[c].wrote \/ note[c].gone
    /\ call[c].state = "ok" =>
          NamedBy(c) \ Unsent(kind, call[c].op) \subseteq note[c].wrote \/ note[c].gone

\* The listing of a method whose first request was about it is there, or was removed.
IdOk(c) ==
    call[c].state = "running" /\ call[c].at > 1 /\ Script(c)[1].do \in {"get", "put", "post"}
    => call[c].id \in Listed \/ note[c].gone

SeenOk(c) ==
    call[c].state = "running" => \A j \in Past(c) :
        Script(c)[j].do = "get" => call[c].seen # NoListing

\* A token goes stale only by a revocation, and a second one of a request by a second;
\* only two platforms have tokens.
AuthReason ==
    \/ ~access
    \/ kind = "shoper" /\ revoked > 1
    \/ kind = "allegro" /\ revoked > 0

TokenOk(c) ==
    /\ call[c].token = "stale" \/ call[c].again => revoked > 0
    /\ call[c].token = "stale" /\ call[c].again => revoked > 1
    /\ call[c].token # "none" => kind \in {"shoper", "allegro"}
    /\ call[c].state = "auth" => AuthReason

\* IdoSell gives as many as it is asked for.
WithinCap == kind = "idosell" => Limit <= PageCap

\* Whether another page follows, when the total is told.
ToldMore(n, total, got) == More(n, total, got, TRUE)

\* While no listing comes or goes and totals are told: the pages that were read are the
\* first ones.
ListOk(c) ==
    call[c].op = "list" /\ note[c].steady /\ WithinCap =>
        /\ call[c].state = "ok" => call[c].listed = InOrder
        /\ call[c].state # "ok" =>
              /\ call[c].page * Limit <= Len(InOrder)
              /\ call[c].listed = SubSeq(InOrder, 1, call[c].page * Limit)
        /\ call[c].at > 1 =>
              /\ call[c].got = PageOf(call[c].page)
              /\ call[c].more <=> ToldMore(call[c].page, Len(InOrder), Len(call[c].got))

CallOk(c) == WroteOk(c) /\ IdOk(c) /\ SeenOk(c) /\ TokenOk(c) /\ ListOk(c)

ConnectorsInv == TypeOK /\ \A c \in Calls : call[c] # Idle => CallOk(c)

-------------------------------------------------------------------------------
(* The methods.                                                             *)

LEMMA Numbers ==
    /\ MaxListings \in Nat /\ MaxEdits \in Nat /\ MaxFaults \in Nat /\ MaxRevoked \in Nat
    /\ Limit \in Nat /\ Limit >= 1 /\ MaxTries \in Nat /\ MaxTries >= 1
    /\ PageCap \in Nat /\ PageCap >= 1
BY ConnectorsAssumption

\* What every method of every platform is: a request writes only what it says, the reads
\* that others rest on come first, and nothing named is left out but what the platform's
\* payload has no place for.
MethodOk(s, k, op, g) ==
    /\ s \in Seq(Requests) /\ Len(s) > 0
    /\ \A j \in 1 .. Len(s) :
          /\ s[j].set # {} => s[j].do \in {"post", "put", "append"}
          /\ /\ s[j].do \in {"post", "put"}
             /\ (op = "image" /\ "images" \in s[j].set) \/ ~(s[j].set \subseteq Named(op, g))
             => \E i \in 1 .. j - 1 : s[i].do = "get"
          /\ s[j].do = "append" => s[j].set = {"images"}
          /\ s[j].do = "stockid" => /\ j > 1 /\ s[1].do \in {"get", "put", "post"}
                                    /\ j < Len(s) => s[j + 1].do = "put"
          /\ op \in Targeted => s[j].drop = {} /\ s[j].do # "post"
          /\ op \in Targeted \ {"image"} => "images" \notin s[j].set
    /\ op = "list" => s \in {<<Page>>, <<Page, Look>>}
    /\ op # "list" => \A j \in 1 .. Len(s) : s[j].do # "page"
    /\ s[1].do = "raise" => Len(s) = 1
    /\ \/ s[1].do = "raise"
       \/ Named(op, g) \ Unsent(k, op) \subseteq UNION {s[j].set : j \in 1 .. Len(s)}

Gives == SUBSET Optional

\* The methods PrestaShop puts together.
LEMMA Concats ==
    ASSUME NEW S, NEW a \in S, NEW b \in S, NEW c \in S, NEW d \in S, NEW e \in S
    PROVE  /\ <<a>> \o <<b, c>> \o <<d, e>> = <<a, b, c, d, e>>
           /\ <<a>> \o <<>> \o <<d, e>> = <<a, d, e>>
           /\ <<a>> \o <<b, c>> = <<a, b, c>>
<1> DEFINE s == <<a>> \o <<b, c>>
<1>1. s \in Seq(S) /\ s = <<a, b, c>>
  <2>0. <<a, b, c>> \in Seq(S) /\ Len(<<a, b, c>>) = 3
    OBVIOUS
  <2>1. s \in Seq(S) /\ Len(s) = 3 /\ s[1] = a /\ s[2] = b /\ s[3] = c
    OBVIOUS
  <2>2. \A i \in 1 .. Len(s) : s[i] = <<a, b, c>>[i]
    BY <2>1
  <2>. QED BY <2>0, <2>1, <2>2, SeqEqual
<1> DEFINE u == s \o <<d, e>>
<1>2. u = <<a, b, c, d, e>>
  <2> HIDE DEF s
  <2>0. <<a, b, c, d, e>> \in Seq(S) /\ Len(<<a, b, c, d, e>>) = 5
    OBVIOUS
  <2>1. u \in Seq(S) /\ Len(u) = 5 /\ u[1] = a /\ u[2] = b /\ u[3] = c /\ u[4] = d /\ u[5] = e
    BY <1>1
  <2>2. \A i \in 1 .. Len(u) : u[i] = <<a, b, c, d, e>>[i]
    BY <2>1
  <2>. QED BY <2>0, <2>1, <2>2, SeqEqual
<1> DEFINE v == <<a>> \o <<d, e>>
<1>3. v = <<a, d, e>>
  <2>0. <<a, d, e>> \in Seq(S) /\ Len(<<a, d, e>>) = 3
    OBVIOUS
  <2>1. v \in Seq(S) /\ Len(v) = 3 /\ v[1] = a /\ v[2] = d /\ v[3] = e
    OBVIOUS
  <2>2. \A i \in 1 .. Len(v) : v[i] = <<a, d, e>>[i]
    BY <2>1
  <2>. QED BY <2>0, <2>1, <2>2, SeqEqual
<1>4. <<a>> \o <<>> = <<a>>
  BY ConcatEmptySeq
<1>. QED BY <1>1, <1>2, <1>3, <1>4

\* The six platforms, one method at a time.
LEMMA WooCommerceOk ==
    ASSUME NEW op \in Operations, NEW g \in Gives
    PROVE  MethodOk(WooCommerce(op, g), "woocommerce", op, g)
<1> USE DEF WooCommerce, Gives, Optional, Unsent, MethodOk, Requests, Named, Full, Post,
            Put, Get, Look, Page, Read, Parts, Fields, Targeted
<1>1. CASE op = "list"
  BY <1>1
<1>2. CASE op = "read"
  BY <1>2
<1>3. CASE op = "create"
  BY <1>3
<1>4. CASE op = "update"
  BY <1>4
<1>5. CASE op = "price"
  BY <1>5
<1>6. CASE op = "stock"
  BY <1>6
<1>7. CASE op = "categories"
  BY <1>7
<1>8. CASE op = "image"
  BY <1>8
<1>9. CASE op = "publish"
  BY <1>9
<1>. QED BY <1>1, <1>2, <1>3, <1>4, <1>5, <1>6, <1>7, <1>8, <1>9 DEF Operations

LEMMA AllegroOk ==
    ASSUME NEW op \in Operations, NEW g \in Gives
    PROVE  MethodOk(Allegro(op, g), "allegro", op, g)
<1> USE DEF Allegro, Offer, Gives, Optional, Unsent, MethodOk, Requests, Named, Full, Post,
            Put, Get, Look, Page, Read, Parts, Fields, Targeted
<1>1. CASE op = "list"
  BY <1>1
<1>2. CASE op = "read"
  BY <1>2
<1>3. CASE op = "create"
  BY <1>3
<1>4. CASE op = "update"
  BY <1>4
<1>5. CASE op = "price"
  BY <1>5
<1>6. CASE op = "stock"
  BY <1>6
<1>7. CASE op = "categories"
  BY <1>7
<1>8. CASE op = "image"
  BY <1>8
<1>9. CASE op = "publish"
  BY <1>9
<1>. QED BY <1>1, <1>2, <1>3, <1>4, <1>5, <1>6, <1>7, <1>8, <1>9 DEF Operations

LEMMA ShoperPuts ==
    ASSUME NEW set \in SUBSET Fields
    PROVE  /\ ShoperPut(set) \in Requests
           /\ ShoperPut(set).do = "put" /\ ShoperPut(set).set = set
<1>1. UNION {o \in ShoperObjects : o \cap set # {}} \subseteq Fields
  BY DEF ShoperObjects, Fields
<1>. QED BY <1>1 DEF ShoperPut, Requests, Parts

\* Nothing of the object is left out, so nothing is dropped.
LEMMA ReadWrites ==
    ASSUME NEW o \in ShoperObjects, NEW f \in o
    PROVE  ReadWrite(f) = <<Get, [do |-> "put", set |-> o, drop |-> {}]>>
<1>1. UNION {p \in ShoperObjects : f \in p} = o
  <2>1. \A p \in ShoperObjects : f \in p => p = o
    BY DEF ShoperObjects
  <2>. QED BY <2>1
<1>2. UNION {p \in ShoperObjects : p \cap o # {}} = o
  <2>1. \A p \in ShoperObjects : p \cap o # {} <=> p = o
    BY DEF ShoperObjects
  <2>. QED BY <2>1
<1>3. ShoperPut(o) = [do |-> "put", set |-> o, drop |-> {}]
  <2>1. (UNION {p \in ShoperObjects : p \cap o # {}}) \ o = {}
    BY <1>2
  <2>. QED BY <2>1 DEF ShoperPut
<1>. QED BY <1>1, <1>3 DEF ReadWrite

LEMMA ObjectPut ==
    ASSUME NEW o \in ShoperObjects, NEW op \in {"price", "stock", "publish"}, NEW g,
           Named(op, g) \subseteq o
    PROVE  MethodOk(<<Get, [do |-> "put", set |-> o, drop |-> {}]>>, "shoper", op, g)
<1> DEFINE r == [do |-> "put", set |-> o, drop |-> {}]
<1> DEFINE s == <<Get, r>>
<1>1. Get \in Requests /\ r \in Requests
  BY DEF Get, Read, Requests, ShoperObjects, Parts, Fields
<1>2. s \in Seq(Requests) /\ Len(s) = 2 /\ s[1] = Get /\ s[2] = r
  BY <1>1
<1>3. Get.do = "get" /\ Get.set = {} /\ Get.drop = {} /\ r.do = "put" /\ r.set = o /\ r.drop = {}
  BY DEF Get, Read
<1>4. "images" \notin o
  BY DEF ShoperObjects
<1> HIDE DEF s, r
<1>5. \A j \in 1 .. Len(s) : j = 1 \/ j = 2
  BY <1>2
<1>6. MethodOk(s, "shoper", op, g)
  BY <1>2, <1>3, <1>4, <1>5 DEF MethodOk, Unsent
<1>. QED BY <1>6 DEF s, r

LEMMA ShoperOk ==
    ASSUME NEW op \in Operations, NEW g \in Gives
    PROVE  MethodOk(Shoper(op, g), "shoper", op, g)
<1> USE DEF Shoper, Gives, Optional, Unsent, MethodOk, Requests, Named, Full, Post,
            Put, Get, Look, Page, Read, Parts, Fields, Targeted, Append1
<1>1. CASE op = "list"
  BY <1>1
<1>2. CASE op = "read"
  BY <1>2
<1>3. CASE op = "create"
  BY <1>3
<1>4. CASE op = "update"
  BY <1>4, ShoperPuts, Full(g) \ {"images"} \in SUBSET Fields
<1>5. CASE op = "price"
  <2>1. ReadWrite("price") = <<Get, [do |-> "put", set |-> {"price", "stock"}, drop |-> {}]>>
    BY ReadWrites DEF ShoperObjects
  <2>2. Shoper(op, g) = <<Get, [do |-> "put", set |-> {"price", "stock"}, drop |-> {}]>>
    BY <1>5, <2>1
  <2>3. Named(op, g) \subseteq {"price", "stock"}
    BY <1>5
  <2>. HIDE DEF MethodOk, Named, Unsent, Shoper, Get
  <2>. QED BY <1>5, <2>2, <2>3, ObjectPut DEF ShoperObjects
<1>6. CASE op = "stock"
  <2>1. ReadWrite("stock") = <<Get, [do |-> "put", set |-> {"price", "stock"}, drop |-> {}]>>
    BY ReadWrites DEF ShoperObjects
  <2>2. Shoper(op, g) = <<Get, [do |-> "put", set |-> {"price", "stock"}, drop |-> {}]>>
    BY <1>6, <2>1
  <2>3. Named(op, g) \subseteq {"price", "stock"}
    BY <1>6
  <2>. HIDE DEF MethodOk, Named, Unsent, Shoper, Get
  <2>. QED BY <1>6, <2>2, <2>3, ObjectPut DEF ShoperObjects
<1>7. CASE op = "categories"
  BY <1>7
<1>8. CASE op = "image"
  BY <1>8
<1>9. CASE op = "publish"
  <2>1. ReadWrite("live") =
            <<Get, [do |-> "put", set |-> {"name", "description", "live"}, drop |-> {}]>>
    BY ReadWrites DEF ShoperObjects
  <2>2. Shoper(op, g) =
            <<Get, [do |-> "put", set |-> {"name", "description", "live"}, drop |-> {}]>>
    BY <1>9, <2>1
  <2>3. Named(op, g) \subseteq {"name", "description", "live"}
    BY <1>9
  <2>. HIDE DEF MethodOk, Named, Unsent, Shoper, Get
  <2>. QED BY <1>9, <2>2, <2>3, ObjectPut DEF ShoperObjects
<1>. QED BY <1>1, <1>2, <1>3, <1>4, <1>5, <1>6, <1>7, <1>8, <1>9 DEF Operations

LEMMA IdoSellOk ==
    ASSUME NEW op \in Operations, NEW g \in Gives
    PROVE  MethodOk(IdoSell(op, g), "idosell", op, g)
<1> USE DEF IdoSell, Gives, Optional, Unsent, MethodOk, Requests, Named, Full, Post,
            Put, Get, Look, Page, Read, Parts, Fields, Targeted, Raise
<1>1. CASE op = "list"
  BY <1>1
<1>2. CASE op = "read"
  BY <1>2
<1>3. CASE op = "create"
  BY <1>3
<1>4. CASE op = "update"
  BY <1>4
<1>5. CASE op = "price"
  BY <1>5
<1>6. CASE op = "stock"
  BY <1>6
<1>7. CASE op = "categories"
  BY <1>7
<1>8. CASE op = "image"
  BY <1>8
<1>9. CASE op = "publish"
  BY <1>9
<1>. QED BY <1>1, <1>2, <1>3, <1>4, <1>5, <1>6, <1>7, <1>8, <1>9 DEF Operations

LEMMA MockOk ==
    ASSUME NEW op \in Operations, NEW g \in Gives
    PROVE  MethodOk(Mock(op, g), "mock", op, g)
<1> USE DEF Mock, Gives, Optional, Unsent, MethodOk, Requests, Named, Full, Post,
            Put, Get, Look, Page, Read, Parts, Fields, Targeted, Append1
<1>1. CASE op = "list"
  BY <1>1
<1>2. CASE op = "read"
  BY <1>2
<1>3. CASE op = "create"
  BY <1>3
<1>4. CASE op = "update"
  BY <1>4
<1>5. CASE op = "price"
  BY <1>5
<1>6. CASE op = "stock"
  BY <1>6
<1>7. CASE op = "categories"
  BY <1>7
<1>8. CASE op = "image"
  BY <1>8
<1>9. CASE op = "publish"
  BY <1>9
<1>. QED BY <1>1, <1>2, <1>3, <1>4, <1>5, <1>6, <1>7, <1>8, <1>9 DEF Operations

\* The record is written without its quantity, which has one of its own.
LEMMA StockApart ==
    ASSUME NEW r \in Requests, NEW g
    PROVE  <<r>> \o SetStock(g) \o <<Get, Look>> =
              IF "stock" \in g THEN <<r, StockId, Put({"stock"}), Get, Look>>
              ELSE <<r, Get, Look>>
<1>1. StockId \in Requests /\ Put({"stock"}) \in Requests /\ Get \in Requests /\ Look \in Requests
  BY DEF StockId, Put, Get, Look, Read, Requests, Parts, Fields
<1>2. CASE "stock" \in g
  <2>1. <<r>> \o <<StockId, Put({"stock"})>> \o <<Get, Look>>
           = <<r, StockId, Put({"stock"}), Get, Look>>
    BY <1>1, Concats
  <2>. QED BY <1>2, <2>1 DEF SetStock
<1>3. CASE "stock" \notin g
  <2>1. <<r>> \o <<>> \o <<Get, Look>> = <<r, Get, Look>>
    BY <1>1, Concats
  <2>. QED BY <1>3, <2>1 DEF SetStock
<1>. QED BY <1>2, <1>3

\* A product is sent, its stock set, and the product read back.
LEMMA StockLast ==
    ASSUME NEW op \in {"create", "update"}, NEW g, NEW r \in Requests,
           r.do \in {"post", "put"}, r.set = ProductFields(g), Named(op, g) = Full(g)
    PROVE  MethodOk(<<r>> \o SetStock(g) \o <<Get, Look>>, "prestashop", op, g)
<1> DEFINE Q == Put({"stock"})
<1> DEFINE s == <<r, StockId, Q, Get, Look>>
<1> DEFINE u == <<r, Get, Look>>
<1>1. /\ StockId \in Requests /\ StockId.do = "stockid" /\ StockId.set = {}
      /\ Q \in Requests /\ Q.do = "put" /\ Q.set = {"stock"}
      /\ Get \in Requests /\ Get.do = "get" /\ Get.set = {}
      /\ Look \in Requests /\ Look.do = "look" /\ Look.set = {}
  BY DEF StockId, Put, Get, Look, Read, Requests, Parts, Fields
<1>2. /\ s \in Seq(Requests) /\ Len(s) = 5
      /\ s[1] = r /\ s[2] = StockId /\ s[3] = Q /\ s[4] = Get /\ s[5] = Look
  BY <1>1
<1>3. u \in Seq(Requests) /\ Len(u) = 3 /\ u[1] = r /\ u[2] = Get /\ u[3] = Look
  BY <1>1
<1> HIDE DEF s, u, Q
<1>4. \A j \in 1 .. Len(s) : j = 1 \/ j = 2 \/ j = 3 \/ j = 4 \/ j = 5
  BY <1>2
<1>5. \A j \in 1 .. Len(u) : j = 1 \/ j = 2 \/ j = 3
  BY <1>3
<1>6. /\ "stock" \in g => "stock" \in Full(g)
      /\ "stock" \notin g => "stock" \notin Full(g)
      /\ r.set = Full(g) \ {"stock", "images"}
      /\ Unsent("prestashop", op) = {"images"} /\ op \notin Targeted
  BY DEF Full, ProductFields, Unsent, Targeted
<1>7. op # "list" /\ op # "image"
  OBVIOUS
<1>8. ASSUME "stock" \in g PROVE MethodOk(s, "prestashop", op, g)
  <2>1. Full(g) \ {"images"} \subseteq UNION {s[j].set : j \in 1 .. Len(s)}
    <3>1. s[1].set \cup s[3].set \subseteq UNION {s[j].set : j \in 1 .. Len(s)}
      BY <1>2
    <3>. QED BY <1>1, <1>2, <1>6, <3>1
  <2>. QED BY <1>1, <1>2, <1>4, <1>6, <1>7, <1>8, <2>1 DEF MethodOk
<1>9. ASSUME "stock" \notin g PROVE MethodOk(u, "prestashop", op, g)
  <2>1. Full(g) \ {"images"} \subseteq UNION {u[j].set : j \in 1 .. Len(u)}
    BY <1>3, <1>6, <1>9
  <2>. QED BY <1>1, <1>3, <1>5, <1>6, <1>7, <1>9, <2>1 DEF MethodOk
<1>10. /\ "stock" \in g => <<r>> \o SetStock(g) \o <<Get, Look>> = s
       /\ "stock" \notin g => <<r>> \o SetStock(g) \o <<Get, Look>> = u
  BY StockApart DEF s, u, Q
<1>. QED BY <1>8, <1>9, <1>10

\* The product is read, then its stock set.
LEMMA StockAlone ==
    ASSUME NEW op, op = "stock", NEW g, Named(op, g) = {"stock"}
    PROVE  MethodOk(<<Get>> \o SetStock({"stock"}), "prestashop", op, g)
<1> DEFINE Q == Put({"stock"})
<1> DEFINE s == <<Get, StockId, Q>>
<1>1. /\ StockId \in Requests /\ StockId.do = "stockid" /\ StockId.set = {} /\ StockId.drop = {}
      /\ Q \in Requests /\ Q.do = "put" /\ Q.set = {"stock"} /\ Q.drop = {}
      /\ Get \in Requests /\ Get.do = "get" /\ Get.set = {} /\ Get.drop = {}
  BY DEF StockId, Put, Get, Read, Requests, Parts, Fields
<1>2. s \in Seq(Requests) /\ Len(s) = 3 /\ s[1] = Get /\ s[2] = StockId /\ s[3] = Q
  BY <1>1
<1>3. <<Get>> \o SetStock({"stock"}) = s
  BY <1>1, Concats DEF SetStock
<1> HIDE DEF s, Q
<1>4. \A j \in 1 .. Len(s) : j = 1 \/ j = 2 \/ j = 3
  BY <1>2
<1>5. {"stock"} \subseteq UNION {s[j].set : j \in 1 .. Len(s)}
  BY <1>1, <1>2
<1>6. MethodOk(s, "prestashop", op, g)
  BY <1>1, <1>2, <1>4, <1>5 DEF MethodOk, Unsent
<1>. QED BY <1>3, <1>6

LEMMA PrestaShopOk ==
    ASSUME NEW op \in Operations, NEW g \in Gives
    PROVE  MethodOk(PrestaShop(op, g), "prestashop", op, g)
<1> USE DEF PrestaShop, ProductFields, Gives, Optional, Unsent, MethodOk, Requests, Named, Full,
            Post,
            Put, Get, Look, Page, Read, Parts, Fields, Targeted, SetStock, StockId, Fetch, Append1
<1>1. CASE op = "list"
  BY <1>1
<1>2. CASE op = "read"
  BY <1>2
<1>3. CASE op = "create"
  <2> DEFINE r == Post(ProductFields(g))
  <2>1. PrestaShop(op, g) = <<r>> \o SetStock(g) \o <<Get, Look>>
    BY <1>3
  <2>2. /\ r \in Requests /\ r.do \in {"post", "put"} /\ r.set = ProductFields(g)
        /\ Named(op, g) = Full(g) /\ op \in {"create", "update"}
    BY <1>3
  <2>. HIDE DEF r, MethodOk, Named, Full, ProductFields, Unsent, Optional, Post, Put, Get, Look,
                SetStock, PrestaShop, Requests, Gives, Read, Parts, Fields, Targeted, StockId,
                Fetch, Append1
  <2>3. MethodOk(<<r>> \o SetStock(g) \o <<Get, Look>>, "prestashop", op, g)
    BY <2>2, StockLast
  <2>. QED BY <2>1, <2>3
<1>4. CASE op = "update"
  <2> DEFINE r == Put(ProductFields(g))
  <2>1. PrestaShop(op, g) = <<r>> \o SetStock(g) \o <<Get, Look>>
    BY <1>4
  <2>2. /\ r \in Requests /\ r.do \in {"post", "put"} /\ r.set = ProductFields(g)
        /\ Named(op, g) = Full(g) /\ op \in {"create", "update"}
    BY <1>4
  <2>. HIDE DEF r, MethodOk, Named, Full, ProductFields, Unsent, Optional, Post, Put, Get, Look,
                SetStock, PrestaShop, Requests, Gives, Read, Parts, Fields, Targeted, StockId,
                Fetch, Append1
  <2>3. MethodOk(<<r>> \o SetStock(g) \o <<Get, Look>>, "prestashop", op, g)
    BY <2>2, StockLast
  <2>. QED BY <2>1, <2>3
<1>5. CASE op = "price"
  BY <1>5
<1>6. CASE op = "stock"
  <2>1. PrestaShop(op, g) = <<Get>> \o SetStock({"stock"}) /\ Named(op, g) = {"stock"}
    BY <1>6
  <2>. HIDE DEF MethodOk, Named, Unsent, PrestaShop, Get, SetStock
  <2>. QED BY <1>6, <2>1, StockAlone
<1>7. CASE op = "categories"
  BY <1>7
<1>8. CASE op = "image"
  BY <1>8
<1>9. CASE op = "publish"
  BY <1>9
<1>. QED BY <1>1, <1>2, <1>3, <1>4, <1>5, <1>6, <1>7, <1>8, <1>9 DEF Operations

LEMMA MethodsOk ==
    ASSUME NEW k \in Platforms, NEW op \in Operations, NEW g \in Gives
    PROVE  MethodOk(Method(k, op, g), k, op, g)
BY WooCommerceOk, AllegroOk, ShoperOk, PrestaShopOk, IdoSellOk, MockOk DEF Platforms, Method

-------------------------------------------------------------------------------
(* The order of the listings.                                               *)

\* A set of numbers up to m that has members has a least one.
LEMMA LeastNumber ==
    ASSUME NEW m \in Nat, NEW F \in SUBSET (0 .. m), F # {}
    PROVE  \E i \in F : \A j \in F : i <= j
<1> DEFINE R == StrictSubsetOrdering(0 .. m)
<1> DEFINE D == FiniteSubsetsOf(0 .. m)
<1> DEFINE G == {T \in SUBSET (0 .. m) : \E i \in F : T = 0 .. i}
<1>1. IsWellFoundedOn(R, D)
  BY FS_StrictSubsetOrderingWellFounded
<1>2. G \subseteq D
  BY FS_Interval, FS_Subset DEF FiniteSubsetsOf
<1>3. G # {}
  <2>1. PICK i \in F : TRUE
    OBVIOUS
  <2>2. 0 .. i \in G
    BY <2>1
  <2>. QED BY <2>2
<1>4. PICK T \in G : \A U \in G : ~ (<<U, T>> \in R)
  <2>. HIDE DEF R, D, G
  <2>. QED BY <1>1, <1>2, <1>3, WFMin
<1>5. PICK i \in F : T = 0 .. i
  OBVIOUS
<1>6. ASSUME NEW j \in F, j < i PROVE FALSE
  <2>1. 0 .. j \in G
    BY <1>6
  <2>2. (0 .. j) \subseteq T /\ (0 .. j) # T
    <3>1. j \in 0 .. m /\ i \in 0 .. m /\ i \in T /\ i \notin 0 .. j
      BY <1>5, <1>6
    <3>. QED BY <1>5, <1>6, <3>1
  <2>3. <<0 .. j, T>> \in R
    BY <2>1, <2>2 DEF StrictSubsetOrdering
  <2>. QED BY <1>4, <2>1, <2>3
<1>7. \A j \in F : j \in Int /\ i \in Int
  OBVIOUS
<1>. QED BY <1>6, <1>7

LEMMA IdsFinite == \A S \in SUBSET Ids : IsFiniteSet(S)
<1>1. IsFiniteSet(Ids)
  BY ConnectorsAssumption, FS_Interval DEF Ids
<1>. QED BY <1>1, FS_Subset

\* Counting upwards, every number up to a set's size is that of a member.
LEMMA NthMember ==
    ASSUME NEW S \in SUBSET Ids, NEW n \in 1 .. Cardinality(S)
    PROVE  \E i \in S : Cardinality(S \cap (1 .. i)) = n
<1> DEFINE Count(i) == Cardinality(S \cap (1 .. i))
<1> DEFINE F == {i \in 0 .. MaxListings : n <= Count(i)}
<1>0. MaxListings \in Nat
  BY ConnectorsAssumption
<1>1. IsFiniteSet(S)
  BY IdsFinite
<1>2. S \cap (1 .. MaxListings) = S
  BY DEF Ids
<1>3. Cardinality(S) \in Nat
  BY <1>1, FS_CardinalityType
<1>4. MaxListings \in F
  BY <1>0, <1>2, <1>3
<1>5. PICK i \in F : \A j \in F : i <= j
  BY <1>0, <1>4, LeastNumber
<1>6. \A j \in 0 .. MaxListings : Count(j) \in Nat
  BY <1>1, FS_Intersection, FS_CardinalityType
<1>7. i # 0
  <2>1. S \cap (1 .. 0) = {}
    OBVIOUS
  <2>. QED BY <2>1, FS_EmptySet
<1>8. i - 1 \in 0 .. MaxListings /\ ~(n <= Count(i - 1))
  <2>1. i - 1 \in 0 .. MaxListings
    BY <1>0, <1>7
  <2>. QED BY <2>1, <1>5
<1>9. S \cap (1 .. i) = IF i \in S THEN (S \cap (1 .. i - 1)) \cup {i} ELSE S \cap (1 .. i - 1)
  BY <1>0, <1>7 DEF Ids
<1>10. IsFiniteSet(S \cap (1 .. i - 1)) /\ i \notin S \cap (1 .. i - 1)
  BY <1>1, FS_Intersection
<1>11. i \in S /\ Count(i) = Count(i - 1) + 1
  BY <1>8, <1>9, <1>10, FS_AddElement
<1>12. Count(i) \in Nat /\ Count(i - 1) \in Nat /\ n <= Count(i)
  BY <1>6, <1>8
<1> HIDE DEF Count
<1>13. Count(i) = n
  BY <1>8, <1>11, <1>12
<1>. QED BY <1>11, <1>13 DEF Count

\* So the listings are given in an order, once each.
LEMMA AscendingSeq ==
    ASSUME NEW S \in SUBSET Ids
    PROVE  Ascending(S) \in Seq(Ids) /\ Len(Ascending(S)) = Cardinality(S)
<1>1. Cardinality(S) \in Nat
  <2>1. IsFiniteSet(S)
    BY IdsFinite
  <2>. QED BY <2>1, FS_CardinalityType
<1>2. \A n \in 1 .. Cardinality(S) : (CHOOSE i \in S : Cardinality(S \cap (1 .. i)) = n) \in Ids
  BY NthMember
<1>3. Ascending(S) \in [1 .. Cardinality(S) -> Ids]
  BY <1>2 DEF Ascending
<1>. QED BY <1>1, <1>3

LEMMA InOrderSeq == InOrder \in Seq(Ids) /\ Len(InOrder) \in Nat
<1>1. Listed \in SUBSET Ids
  BY DEF Listed
<1>2. InOrder \in Seq(Ids)
  BY <1>1, AscendingSeq DEF InOrder
<1>. QED BY <1>2, LenProperties

-------------------------------------------------------------------------------
(* Pages.                                                                   *)

\* The lesser of two.
LEMMA MinTwo ==
    ASSUME NEW a \in Nat, NEW b \in Nat
    PROVE  Min({a, b}) = IF a <= b THEN a ELSE b
<1> DEFINE m == IF a <= b THEN a ELSE b
<1>1. m \in {a, b} /\ \A y \in {a, b} : m <= y
  OBVIOUS
<1>2. \A x \in {a, b} : (\A y \in {a, b} : x <= y) => x = m
  OBVIOUS
<1> HIDE DEF m
<1>3. (CHOOSE x \in {a, b} : \A y \in {a, b} : x <= y) = m
  BY <1>1, <1>2
<1>. QED BY <1>3 DEF Min, m

LEMMA Adjacent ==
    ASSUME NEW s \in Seq(Ids), NEW a \in Nat, NEW b \in Nat, a <= b, b <= Len(s)
    PROVE  SubSeq(s, 1, a) \o SubSeq(s, a + 1, b) = SubSeq(s, 1, b)
<1>1. Len(s) \in Nat
  BY LenProperties
<1>2. 1 \in 1 .. Len(s) + 1 /\ a \in 1 - 1 .. Len(s) /\ b \in a .. Len(s)
  BY <1>1
<1>. QED BY <1>2, ConcatAdjacentSubSeq

LEMMA PageSizes == PageSize \in Nat /\ (WithinCap => PageSize = Limit)
BY MinTwo, Numbers DEF PageSize, WithinCap

\* A page continues the ones before it.
LEMMA PageOfIs ==
    ASSUME WithinCap, NEW n \in Nat, n * Limit <= Len(InOrder)
    PROVE  LET m == IF n * Limit + Limit <= Len(InOrder) THEN n * Limit + Limit ELSE Len(InOrder)
           IN  /\ PageOf(n) = SubSeq(InOrder, n * Limit + 1, m)
               /\ PageOf(n) \in Seq(Ids) /\ Len(PageOf(n)) = m - n * Limit
               /\ SubSeq(InOrder, 1, n * Limit) \o PageOf(n) = SubSeq(InOrder, 1, m)
<1> DEFINE a == n * Limit
<1> DEFINE t == Len(InOrder)
<1> DEFINE m == IF a + Limit <= t THEN a + Limit ELSE t
<1>1. Limit \in Nat /\ a \in Nat /\ t \in Nat /\ InOrder \in Seq(Ids) /\ a <= t
  BY ConnectorsAssumption, InOrderSeq
<1>2. PageOf(n) = SubSeq(InOrder, a + 1, Min({a + Limit, t}))
  BY PageSizes DEF PageOf
<1> HIDE DEF a, t
<1>3. Min({a + Limit, t}) = m /\ m \in Nat /\ a <= m /\ m <= t
  BY <1>1, MinTwo
<1> HIDE DEF m
<1>4. PageOf(n) = SubSeq(InOrder, a + 1, m)
  BY <1>2, <1>3
<1>5. SubSeq(InOrder, a + 1, m) \in Seq(Ids) /\ Len(SubSeq(InOrder, a + 1, m)) = m - a
  BY <1>1, <1>3 DEF t
<1>6. SubSeq(InOrder, 1, a) \o SubSeq(InOrder, a + 1, m) = SubSeq(InOrder, 1, m)
  BY <1>1, <1>3, Adjacent DEF t
<1>. QED BY <1>4, <1>5, <1>6 DEF a, t, m

LEMMA Times ==
    ASSUME NEW a \in Nat, NEW b \in Nat, NEW c \in Nat, a <= b
    PROVE  a * c <= b * c
<1>1. PICK d \in Nat : b = a + d
  <2>1. b - a \in Nat /\ b = a + (b - a)
    OBVIOUS
  <2>. QED BY <2>1
<1>2. b * c = a * c + d * c /\ d * c \in Nat /\ a * c \in Nat
  BY <1>1
<1>. QED BY <1>2

\* Rounding up.
LEMMA PagesAre ==
    ASSUME NEW n \in Nat, NEW t \in Nat
    PROVE  n < Pages(t) <=> n * Limit < t
<1> DEFINE q == (t + Limit - 1) \div Limit
<1>0. Limit \in Nat /\ Limit >= 1
  BY ConnectorsAssumption
<1>1. q \in Nat /\ q * Limit <= t + Limit - 1 /\ t + Limit - 1 < q * Limit + Limit
  BY <1>0
<1> HIDE DEF q
<1>2. ASSUME n < q PROVE n * Limit < t
  <2>1. (n + 1) * Limit <= q * Limit /\ (n + 1) * Limit = n * Limit + Limit
    BY <1>0, <1>1, <1>2, Times
  <2>. QED BY <1>0, <1>1, <2>1
<1>3. ASSUME q <= n PROVE ~(n * Limit < t)
  <2>1. q * Limit <= n * Limit
    BY <1>0, <1>1, <1>3, Times
  <2>. QED BY <1>0, <1>1, <2>1
<1>. QED BY <1>1, <1>2, <1>3 DEF Pages, q

\* Each platform's rule finds out whether there are listings left.
LEMMA MoreIs ==
    ASSUME kind \in Platforms, WithinCap, NEW n \in Nat, n * Limit <= Len(InOrder)
    PROVE  LET more == ToldMore(n, Len(InOrder), Len(PageOf(n)))
           IN  /\ more => n * Limit + Limit <= Len(InOrder)
               /\ ~more => Len(InOrder) <= n * Limit + Limit
<1> DEFINE a == n * Limit
<1> DEFINE t == Len(InOrder)
<1>1. Limit \in Nat /\ Limit >= 1 /\ a \in Nat /\ t \in Nat /\ a <= t
  BY ConnectorsAssumption, InOrderSeq
<1>2. Len(PageOf(n)) = IF a + Limit <= t THEN Limit ELSE t - a
  <2>1. Len(PageOf(n)) = (IF a + Limit <= t THEN a + Limit ELSE t) - a
    BY <1>1, PageOfIs
  <2>. HIDE DEF a, t
  <2>. QED BY <1>1, <2>1
<1>3. n + 1 < Pages(t) <=> a + Limit < t
  <2>1. (n + 1) * Limit = a + Limit
    BY <1>1
  <2>. QED BY <1>1, <2>1, PagesAre
<1>4. \/ ToldMore(n, t, Len(PageOf(n))) <=> n + 1 < Pages(t)
      \/ ToldMore(n, t, Len(PageOf(n))) <=> a + Limit < t
      \/ ToldMore(n, t, Len(PageOf(n))) <=> Len(PageOf(n)) = Limit
  BY DEF Platforms, ToldMore, More, WooCommerceMore, ShoperMore, AllegroMore, PrestaShopMore,
         IdoSellMore, MockMore
<1> DEFINE more == ToldMore(n, t, Len(PageOf(n)))
<1> DEFINE got == Len(PageOf(n))
<1>5. \/ more <=> n + 1 < Pages(t)
      \/ more <=> a + Limit < t
      \/ more <=> got = Limit
  BY <1>4
<1>6. got = IF a + Limit <= t THEN Limit ELSE t - a
  BY <1>2
<1> HIDE DEF a, t, more, got
<1>7. (more => a + Limit <= t) /\ (~more => t <= a + Limit)
  BY <1>1, <1>3, <1>5, <1>6
<1>. QED BY <1>7 DEF a, t, more

-------------------------------------------------------------------------------
(* A call.                                                                  *)

\* What TypeOK says of a call.
LEMMA Shape ==
    ASSUME TypeOK, NEW c \in Calls, call[c] # Idle
    PROVE  /\ call[c] \in Begun
           /\ MethodOk(Script(c), kind, call[c].op, call[c].given)
           /\ Len(Script(c)) \in Nat /\ call[c].at \in 1 .. Len(Script(c))
           /\ Request(c) \in Requests
<1>1. call[c] \in Begun /\ call[c].at \in 1 .. Len(Script(c))
  BY DEF TypeOK
<1>2. kind \in Platforms /\ call[c].op \in Operations /\ call[c].given \in Gives
  BY <1>1, ConnectorsAssumption DEF TypeOK, Begun, Gives
<1>3. MethodOk(Script(c), kind, call[c].op, call[c].given)
  BY <1>2, MethodsOk DEF Script
<1>4. Script(c) \in Seq(Requests)
  BY <1>3 DEF MethodOk
<1>5. Len(Script(c)) \in Nat /\ Script(c)[call[c].at] \in Requests
  BY <1>1, <1>4, LenProperties, ElementOfSeq
<1>. QED BY <1>1, <1>3, <1>5 DEF Request

\* Whoever does nothing stays right, as long as what happens to it is remembered.
LEMMA Stays ==
    ASSUME TypeOK, NEW d \in Calls, call[d] # Idle, CallOk(d), call'[d] = call[d],
           kind' = kind, revoked <= revoked', revoked' \in Nat, ~access => ~access',
           note'[d].wrote = note[d].wrote, note[d].gone => note'[d].gone,
           Running(d) /\ call[d].id \in Listed => call[d].id \in Listed' \/ note'[d].gone,
           note'[d].steady => note[d].steady /\ InOrder' = InOrder
    PROVE  CallOk(d)'
<1>1. Script(d)' = Script(d) /\ NamedBy(d)' = NamedBy(d) /\ Past(d)' = Past(d)
  BY DEF Script, NamedBy, Past
<1>2. WroteOk(d)'
  BY <1>1 DEF CallOk, WroteOk
<1>3. IdOk(d)'
  BY <1>1 DEF CallOk, IdOk, Running
<1>4. SeenOk(d)'
  BY <1>1 DEF CallOk, SeenOk
<1>5. TokenOk(d)'
  <2>1. revoked \in Nat
    BY ConnectorsAssumption DEF TypeOK
  <2>. QED BY <2>1 DEF CallOk, TokenOk, AuthReason
<1>6. ListOk(d)'
  <2> SUFFICES ASSUME call[d].op = "list", note'[d].steady, WithinCap PROVE ListOk(d)'
    BY DEF ListOk, WithinCap
  <2>1. InOrder' = InOrder
    OBVIOUS
  <2>2. PageOf(call[d].page)' = PageOf(call[d].page)
    BY <2>1 DEF PageOf, PageSize
  <2>3. ToldMore(call[d].page, Len(InOrder), Len(call[d].got))'
           <=> ToldMore(call[d].page, Len(InOrder), Len(call[d].got))
    BY <2>1 DEF More, ToldMore
  <2>. QED BY <2>1, <2>2, <2>3 DEF CallOk, ListOk
<1>. QED BY <1>2, <1>3, <1>4, <1>5, <1>6 DEF CallOk

LEMMA IdleIsNot == \A r \in Begun : r # Idle
<1>1. \A r \in Begun : r.state # "idle"
  BY DEF Begun
<1>. QED BY <1>1 DEF Idle

\* The step is the call's, and no other call's.
StepOf(c) ==
    /\ call' \in [Calls -> Begun \cup {Idle}]
    /\ \A d \in Calls : call'[d] # Idle => call'[d].at \in 1 .. Len(Script(d)')
    /\ \A d \in Calls \ {c} : call'[d] = call[d]

\* What TypeOK says of the calls, after a step of one.
LEMMA CallTyped ==
    ASSUME TypeOK, NEW c \in Calls, NEW r \in Begun, call' = [call EXCEPT ![c] = r],
           kind' = kind, r.op = call[c].op, r.given = call[c].given,
           r.at \in 1 .. Len(Script(c))
    PROVE  /\ StepOf(c)
           /\ call'[c] = r /\ call'[c] # Idle
           /\ Script(c)' = Script(c) /\ NamedBy(c)' = NamedBy(c)
<1>1. call' \in [Calls -> Begun \cup {Idle}] /\ call'[c] = r
  BY DEF TypeOK
<1>2. \A d \in Calls \ {c} : call'[d] = call[d]
  BY DEF TypeOK
<1>3. Script(c)' = Script(c) /\ NamedBy(c)' = NamedBy(c)
  BY <1>1 DEF Script, NamedBy
<1>4. ASSUME NEW d \in Calls, call'[d] # Idle PROVE call'[d].at \in 1 .. Len(Script(d)')
  <2>1. CASE d = c
    BY <1>1, <1>3, <2>1
  <2>2. CASE d # c
    BY <1>2, <1>4, <2>2 DEF TypeOK, Script
  <2>. QED BY <2>1, <2>2
<1>. QED BY <1>1, <1>2, <1>3, <1>4, IdleIsNot DEF StepOf

\* What Advance makes of a call: the next request, the next page.
Onward(r, n) == [[r EXCEPT !.again = FALSE] EXCEPT !.at = n]

Turned(r) == [[r EXCEPT !.again = FALSE] EXCEPT !.listed = @ \o r.got, !.got = <<>>,
                                                !.at = 1, !.page = @ + 1]

\* The same method, about the same listing, with the same token.
SameCall(q, r) ==
    q \in Begun /\ q.op = r.op /\ q.given = r.given /\ q.id = r.id /\ q.token = r.token

\* A call that returned keeps its method, its listing and what it listed.
LEMMA ReturnedIs ==
    ASSUME NEW r \in Begun, NEW state \in {"ok", "auth", "missing", "error"}
    PROVE  LET q == Returned(r, state)
           IN  /\ q \in Begun
               /\ q.state = state /\ q.at = 1 /\ ~q.again /\ q.token \in {r.token, "none"}
               /\ q.op = r.op /\ q.given = r.given /\ q.id = r.id
               /\ q.page = r.page /\ q.listed = r.listed
<1> DEFINE t == IF state = "error" THEN r.token ELSE "none"
<1>1. t \in Tokens /\ t \in {r.token, "none"}
  BY DEF Begun, Tokens
<1>2. Returned(r, state) = [r EXCEPT !.state = state, !.at = 1, !.more = FALSE, !.got = <<>>,
                !.seen = NoListing, !.again = FALSE, !.token = t]
  BY DEF Returned
<1>3. <<>> \in Seq(Ids)
  OBVIOUS
<1> HIDE DEF t
<1>4. LET q == [r EXCEPT !.state = state, !.at = 1, !.more = FALSE, !.got = <<>>,
                !.seen = NoListing, !.again = FALSE, !.token = t]
      IN  /\ q \in Begun
          /\ q.state = state /\ q.at = 1 /\ ~q.again /\ q.token = t
          /\ q.op = r.op /\ q.given = r.given /\ q.id = r.id
          /\ q.page = r.page /\ q.listed = r.listed
  BY <1>1, <1>3 DEF Begun
<1>. QED BY <1>1, <1>2, <1>4

LEMMA NextIs ==
    ASSUME NEW r \in Begun, NEW n \in Nat
    PROVE  LET q == Onward(r, n)
           IN  /\ SameCall(q, r) /\ q.state = r.state /\ q.at = n /\ ~q.again /\ q.page = r.page
               /\ q.listed = r.listed /\ q.seen = r.seen
               /\ q.got = r.got /\ (q.more <=> r.more)
BY DEF Begun, Onward, SameCall

LEMMA FreshIs ==
    ASSUME NEW r \in Begun
    PROVE  LET q == [r EXCEPT !.again = FALSE]
           IN  SameCall(q, r)
BY DEF Begun, SameCall

LEMMA ReadIs ==
    ASSUME NEW r \in Begun
    PROVE  LET q == Turned(r)
           IN  /\ SameCall(q, r) /\ q.state = r.state /\ q.at = 1 /\ ~q.again
               /\ q.page = r.page + 1 /\ q.listed = r.listed \o r.got
<1> DEFINE l == r.listed \o r.got
<1> DEFINE p == r.page + 1
<1>1. l \in Seq(Ids) /\ p \in Nat /\ <<>> \in Seq(Ids)
  BY DEF Begun
<1> HIDE DEF l, p
<1>2. LET q == [r EXCEPT !.again = FALSE, !.listed = l, !.got = <<>>, !.at = 1, !.page = p]
      IN  /\ SameCall(q, r) /\ q.state = r.state /\ q.at = 1 /\ ~q.again
          /\ q.page = p /\ q.listed = l
  BY <1>1 DEF Begun, SameCall
<1>3. Turned(r)
      = [r EXCEPT !.again = FALSE, !.listed = l, !.got = <<>>, !.at = 1, !.page = p]
  BY DEF l, p, Begun, Turned
<1>. QED BY <1>2, <1>3 DEF l, p

\* A call that fails keeps what was listed, and nothing else.
LEMMA FailsOk ==
    ASSUME TypeOK, NEW c \in Calls, Running(c), CallOk(c),
           NEW state \in {"auth", "missing", "error"}, Fails(c, state),
           kind' = kind, revoked' = revoked, access' = access,
           state = "auth" => AuthReason,
           note'[c].steady => note[c].steady /\ InOrder' = InOrder
    PROVE  StepOf(c) /\ CallOk(c)'
<1> DEFINE r == Returned(call[c], state)
<1>1. /\ call[c] \in Begun /\ call[c].state = "running"
      /\ Len(Script(c)) \in Nat /\ call[c].at \in 1 .. Len(Script(c))
  BY Shape DEF Running
<1>2. /\ r \in Begun /\ r.state = state /\ r.at = 1 /\ ~r.again
      /\ r.token \in {call[c].token, "none"} /\ r.op = call[c].op /\ r.given = call[c].given
      /\ r.page = call[c].page /\ r.listed = call[c].listed
  BY <1>1, ReturnedIs
<1>0. 1 \in 1 .. Len(Script(c))
  BY <1>1
<1>3. call' = [call EXCEPT ![c] = r]
  BY DEF Fails
<1> HIDE DEF r
<1>4. /\ StepOf(c)
      /\ call'[c] = r
  BY <1>0, <1>2, <1>3, CallTyped
<1>5. WroteOk(c)' /\ IdOk(c)' /\ SeenOk(c)'
  BY <1>2, <1>4 DEF WroteOk, IdOk, SeenOk
<1>6. TokenOk(c)'
  BY <1>2, <1>4 DEF CallOk, TokenOk, AuthReason
<1>7. ListOk(c)'
  BY <1>1, <1>2, <1>4 DEF CallOk, ListOk, WithinCap
<1>. QED BY <1>4, <1>5, <1>6, <1>7 DEF CallOk

\* Of the first n requests, one that read the listing found it.
SeenUpTo(c, n, r) ==
    \A j \in 1 .. n : j <= Len(Script(c)) /\ Script(c)[j].do = "get" => r.seen # NoListing

\* A request is answered: what it wrote is noted, what it read is kept.  The next request
\* is by further, and r is the call with what was read.
Answered(c, by, r) ==
    /\ Running(c) /\ CallOk(c) /\ Advance(c, by, r)
    /\ kind' = kind /\ revoked' = revoked /\ access' = access
    /\ r.state = "running" /\ r.op = call[c].op /\ r.given = call[c].given
    /\ r.token = call[c].token /\ r.page = call[c].page /\ r.listed = call[c].listed
    /\ call[c].op = "list" => by = 1
    /\ Script(c)[1].do # "raise"
    /\ note[c].wrote \subseteq note'[c].wrote /\ (note[c].gone => note'[c].gone)
    /\ \A j \in call[c].at .. (call[c].at + by) - 1 : j <= Len(Script(c)) =>
          Script(c)[j].set \cap NamedBy(c) \subseteq note'[c].wrote \/ note'[c].gone
    /\ Script(c)[1].do \in {"get", "put", "post"} => r.id \in Listed' \/ note'[c].gone
    /\ SeenUpTo(c, (call[c].at + by) - 1, r)
    /\ note'[c].steady => note[c].steady /\ InOrder' = InOrder
    /\ call[c].op = "list" /\ note'[c].steady /\ WithinCap =>
          /\ r.got = PageOf(call[c].page)
          /\ r.more <=> ToldMore(call[c].page, Len(InOrder), Len(r.got))

\* After the last request the page is added, or the method returns.
LEMMA AdvancesOk ==
    ASSUME TypeOK, NEW c \in Calls, NEW by \in {1, 2}, NEW r \in Begun, Answered(c, by, r)
    PROVE  StepOf(c) /\ CallOk(c)'
<1> DEFINE at == call[c].at + by
<1> DEFINE s == Script(c)
<1>a. /\ r.state = "running" /\ r.op = call[c].op /\ r.given = call[c].given
      /\ r.token = call[c].token /\ r.page = call[c].page /\ r.listed = call[c].listed
      /\ kind' = kind /\ Advance(c, by, r) /\ CallOk(c)
  BY DEF Answered
<1>b. SeenUpTo(c, at - 1, r)
  BY DEF Answered
<1>1. /\ call[c] \in Begun /\ call[c] # Idle /\ call[c].state = "running"
      /\ MethodOk(s, kind, r.op, r.given) /\ Len(s) \in Nat /\ call[c].at \in 1 .. Len(s)
      /\ at \in Nat /\ 1 < at
  <2>1. call[c] # Idle /\ call[c].state = "running"
    BY DEF Answered, Running
  <2>2. /\ call[c] \in Begun /\ MethodOk(s, kind, r.op, r.given)
        /\ Len(s) \in Nat /\ call[c].at \in 1 .. Len(s)
    BY <1>a, <2>1, Shape
  <2>. QED BY <2>1, <2>2
<1>2. \A j \in 1 .. at - 1 : j <= Len(s) =>
          s[j].set \cap NamedBy(c) \subseteq note'[c].wrote \/ note'[c].gone
  <2> SUFFICES ASSUME NEW j \in 1 .. at - 1, j <= Len(s)
               PROVE  s[j].set \cap NamedBy(c) \subseteq note'[c].wrote \/ note'[c].gone
    OBVIOUS
  <2>1. CASE j < call[c].at
    <3>1. j \in Past(c)
      BY <1>1, <2>1 DEF Past
    <3>2. s[j].set \cap NamedBy(c) \subseteq note[c].wrote \/ note[c].gone
      BY <1>1, <1>a, <3>1 DEF CallOk, WroteOk
    <3>. QED BY <3>2 DEF Answered
  <2>2. CASE call[c].at <= j
    <3>1. j \in call[c].at .. (call[c].at + by) - 1
      BY <1>1, <2>2
    <3>. QED BY <3>1 DEF Answered
  <2>. QED BY <1>1, <2>1, <2>2
<1>3. CASE at <= Len(s)
  <2> DEFINE q == Onward(r, at)
  <2>1. call' = [call EXCEPT ![c] = q]
    <3>1. ~(at > Len(s))
      BY <1>1, <1>3
    <3>. QED BY <1>a, <3>1 DEF Advance, Onward
  <2>2. /\ q \in Begun /\ q.state = "running" /\ q.at = at /\ ~q.again /\ q.token = r.token
        /\ q.op = r.op /\ q.given = r.given /\ q.page = r.page /\ q.listed = r.listed
        /\ q.seen = r.seen /\ q.id = r.id /\ q.got = r.got /\ (q.more <=> r.more)
    <3>1. at \in Nat
      BY <1>1
    <3>. HIDE DEF at
    <3>. QED BY <1>a, <3>1, NextIs DEF SameCall
  <2>0. at \in 1 .. Len(s)
    BY <1>1, <1>3
  <2> HIDE DEF q
  <2>3. /\ StepOf(c)
        /\ call'[c] = q /\ Script(c)' = s /\ NamedBy(c)' = NamedBy(c)
    BY <1>a, <2>0, <2>1, <2>2, CallTyped
  <2>4. Past(c)' = 1 .. at - 1
    BY <2>2, <2>3 DEF Past
  <2> HIDE DEF at, s
  <2>5. WroteOk(c)'
    BY <1>1, <1>2, <1>3, <2>2, <2>3, <2>4 DEF WroteOk
  <2>6. IdOk(c)'
    BY <1>1, <2>2, <2>3 DEF IdOk, s, Answered
  <2>7. SeenOk(c)'
    <3>1. ASSUME NEW j \in 1 .. at - 1, s[j].do = "get" PROVE r.seen # NoListing
      <4>1. j <= Len(s)
        BY <1>1, <1>3
      <4>. QED BY <1>b, <3>1, <4>1 DEF SeenUpTo, s
    <3>. QED BY <2>2, <2>3, <2>4, <3>1 DEF SeenOk
  <2>8. TokenOk(c)'
    BY <1>a, <2>2, <2>3 DEF CallOk, TokenOk, Answered
  <2>9. ListOk(c)'
    <3> SUFFICES ASSUME note'[c].steady, call[c].op = "list", WithinCap PROVE ListOk(c)'
      BY <1>a, <2>2, <2>3 DEF ListOk, WithinCap
    <3>1. InOrder' = InOrder /\ note[c].steady
      BY DEF Answered
    <3>2. /\ r.got = PageOf(call[c].page)
          /\ r.more <=> ToldMore(call[c].page, Len(InOrder), Len(r.got))
      BY <3>1 DEF Answered
    <3>3. /\ call[c].page * Limit <= Len(InOrder)
          /\ call[c].listed = SubSeq(InOrder, 1, call[c].page * Limit)
      BY <1>1, <1>a, <3>1 DEF CallOk, ListOk
    <3>4. PageOf(call[c].page)' = PageOf(call[c].page)
      BY <1>a, <2>2, <2>3, <3>1 DEF PageOf, PageSize
    <3>5. ToldMore(call[c].page, Len(InOrder), Len(call[c].got))'
             <=> ToldMore(call[c].page, Len(InOrder), Len(r.got))
      BY <1>a, <2>2, <2>3, <3>1 DEF More, ToldMore
    <3>. QED BY <1>a, <2>2, <2>3, <3>1, <3>2, <3>3, <3>4, <3>5 DEF ListOk
  <2>. QED BY <2>3, <2>5, <2>6, <2>7, <2>8, <2>9 DEF CallOk
<1>4. CASE at > Len(s) /\ call[c].op # "list"
  <2> DEFINE n == [r EXCEPT !.again = FALSE]
  <2> DEFINE q == Returned(n, "ok")
  <2>1. call' = [call EXCEPT ![c] = q]
    BY <1>a, <1>4 DEF Advance
  <2>2. n \in Begun /\ n.token = r.token /\ n.op = r.op /\ n.given = r.given
    BY <1>a, FreshIs DEF SameCall
  <2> HIDE DEF n
  <2>3. /\ q \in Begun /\ q.state = "ok" /\ q.at = 1 /\ ~q.again
        /\ q.token \in {r.token, "none"} /\ q.op = r.op /\ q.given = r.given
    BY <2>2, ReturnedIs
  <2> HIDE DEF q
  <2>4. 1 \in 1 .. Len(s)
    BY <1>1
  <2>5. /\ StepOf(c)
        /\ call'[c] = q /\ Script(c)' = s /\ NamedBy(c)' = NamedBy(c)
    BY <1>a, <2>1, <2>3, <2>4, CallTyped
  <2>6. WroteOk(c)'
    <3>1. NamedBy(c) \ Unsent(kind, call[c].op) \subseteq UNION {s[j].set : j \in 1 .. Len(s)}
      BY <1>1, <1>a DEF MethodOk, NamedBy, Answered
    <3>2. \A j \in 1 .. Len(s) : j \in 1 .. at - 1 /\ j <= Len(s)
      BY <1>1, <1>4
    <3>3. \/ NamedBy(c) \ Unsent(kind, call[c].op) \subseteq note'[c].wrote
          \/ note'[c].gone
      BY <1>2, <3>1, <3>2
    <3>. QED BY <1>a, <2>3, <2>5, <3>3 DEF WroteOk
  <2>7. IdOk(c)' /\ SeenOk(c)'
    BY <2>3, <2>5 DEF IdOk, SeenOk
  <2>8. TokenOk(c)'
    BY <1>a, <2>3, <2>5 DEF CallOk, TokenOk, Answered
  <2>9. ListOk(c)'
    BY <1>4, <1>a, <2>3, <2>5 DEF ListOk
  <2>. QED BY <2>5, <2>6, <2>7, <2>8, <2>9 DEF CallOk
<1>5. CASE at > Len(s) /\ call[c].op = "list"
  <2> DEFINE read == Turned(r)
  <2> DEFINE q == IF r.more THEN read ELSE Returned(read, "ok")
  <2>1. call' = [call EXCEPT ![c] = q]
    BY <1>a, <1>5 DEF Advance, Turned
  <2>2. /\ read \in Begun /\ read.state = "running" /\ read.at = 1 /\ ~read.again
        /\ read.token = r.token /\ read.op = r.op /\ read.given = r.given
        /\ read.page = r.page + 1 /\ read.listed = r.listed \o r.got
    BY <1>a, ReadIs DEF SameCall
  <2> HIDE DEF read
  <2>3. /\ q \in Begun /\ q.at = 1 /\ ~q.again
        /\ q.state = IF r.more THEN "running" ELSE "ok"
        /\ q.token \in {r.token, "none"} /\ q.op = r.op /\ q.given = r.given
        /\ q.page = r.page + 1 /\ q.listed = r.listed \o r.got
    <3>1. CASE r.more
      BY <2>2, <3>1
    <3>2. CASE ~r.more
      <4> DEFINE o == Returned(read, "ok")
      <4>1. /\ o \in Begun /\ o.state = "ok" /\ o.at = 1 /\ ~o.again
            /\ o.token \in {read.token, "none"} /\ o.op = read.op /\ o.given = read.given
            /\ o.page = read.page /\ o.listed = read.listed
        <5>1. read \in Begun
          BY <2>2
        <5>. QED BY <5>1, ReturnedIs
      <4>2. q = o
        BY <3>2
      <4>. HIDE DEF o, q
      <4>. QED BY <2>2, <3>2, <4>1, <4>2
    <3>. QED BY <3>1, <3>2
  <2> HIDE DEF q
  <2>4. 1 \in 1 .. Len(s)
    BY <1>1
  <2>5. /\ StepOf(c)
        /\ call'[c] = q /\ Script(c)' = s /\ NamedBy(c)' = NamedBy(c)
    BY <1>a, <2>1, <2>3, <2>4, CallTyped
  <2>6. NamedBy(c) = {}
    BY <1>5 DEF NamedBy, Named
  <2>7. WroteOk(c)' /\ IdOk(c)' /\ SeenOk(c)'
    BY <2>3, <2>5, <2>6 DEF WroteOk, IdOk, SeenOk, Past
  <2>8. TokenOk(c)'
    BY <1>a, <2>3, <2>5 DEF CallOk, TokenOk, Answered
  <2>9. ListOk(c)'
    <3> SUFFICES ASSUME note'[c].steady, WithinCap PROVE ListOk(c)'
      BY <1>a DEF ListOk, WithinCap
    <3> DEFINE p == call[c].page
    <3> DEFINE t == Len(InOrder)
    <3>0. note[c].steady /\ InOrder' = InOrder
      BY DEF Answered
    <3>1. p \in Nat /\ p * Limit <= t /\ r.listed = SubSeq(InOrder, 1, p * Limit)
      BY <1>1, <1>5, <1>a, <3>0 DEF CallOk, ListOk, Begun
    <3>2. r.got = PageOf(p) /\ (r.more <=> ToldMore(p, t, Len(PageOf(p)))) /\ InOrder' = InOrder
      BY <1>5, <3>0 DEF Answered
    <3>3. kind \in Platforms
      BY ConnectorsAssumption DEF TypeOK
    <3>4. r.more \in BOOLEAN
      BY DEF Begun
    <3>5. /\ r.more => p * Limit + Limit <= t
          /\ ~r.more => t <= p * Limit + Limit
      BY <3>1, <3>2, <3>3, MoreIs
    <3>6. t \in Nat /\ Limit \in Nat /\ p * Limit \in Nat
      BY <3>1, Numbers, InOrderSeq
    <3>7. q.listed = SubSeq(InOrder, 1, IF p * Limit + Limit <= t THEN p * Limit + Limit ELSE t)
      <4>1. SubSeq(InOrder, 1, p * Limit) \o PageOf(p)
               = SubSeq(InOrder, 1, IF p * Limit + Limit <= t THEN p * Limit + Limit ELSE t)
        BY <3>1, PageOfIs
      <4>2. q.listed = r.listed \o r.got
        BY <2>3
      <4>. HIDE DEF p, t
      <4>. QED BY <3>1, <3>2, <4>1, <4>2
    <3>8. CASE r.more
      <4>1. (p + 1) * Limit = p * Limit + Limit
        BY <3>1, <3>6
      <4>2. q.page = p + 1 /\ q.state = "running"
        BY <1>a, <2>3, <3>8
      <4>3. q.page * Limit <= t /\ q.listed = SubSeq(InOrder, 1, q.page * Limit)
        BY <3>5, <3>7, <3>8, <4>1, <4>2
      <4>. QED BY <1>a, <2>3, <2>5, <3>2, <4>2, <4>3 DEF ListOk, WithinCap
    <3>9. CASE ~r.more
      <4>1. q.listed = SubSeq(InOrder, 1, t)
        <5>1. (IF p * Limit + Limit <= t THEN p * Limit + Limit ELSE t) = t
          <6> DEFINE m == p * Limit
          <6>1. m \in Nat /\ t <= m + Limit
            BY <3>5, <3>6, <3>9
          <6> HIDE DEF m, t
          <6>2. (IF m + Limit <= t THEN m + Limit ELSE t) = t
            BY <3>6, <6>1
          <6>. QED BY <6>2 DEF m
        <5>. QED BY <3>7, <5>1
      <4>2. SubSeq(InOrder, 1, t) = InOrder
        BY InOrderSeq, SubSeqFull
      <4>. QED BY <2>3, <2>5, <3>2, <3>9, <1>a, <4>1, <4>2 DEF ListOk, WithinCap
    <3>. QED BY <3>4, <3>8, <3>9
  <2>. QED BY <2>5, <2>7, <2>8, <2>9 DEF CallOk
<1>6. at <= Len(s) \/ at > Len(s)
  BY <1>1
<1>. QED BY <1>3, <1>4, <1>5, <1>6

LEMMA NamedParts ==
    ASSUME TypeOK, NEW c \in Calls, call[c] # Idle
    PROVE  NamedBy(c) \in SUBSET Parts
<1>1. call[c].given \in Gives
  BY Shape, ConnectorsAssumption DEF Begun, Gives
<1>. QED BY <1>1 DEF NamedBy, Named, Full, Parts, Fields, Gives, Optional

\* A method that reads listings a page at a time does nothing else.
LEMMA ListsOnly ==
    ASSUME TypeOK, NEW c \in Calls, call[c] # Idle
    PROVE  /\ call[c].op = "list" => Request(c) = Page \/ Request(c) = Look
           /\ call[c].op = "list" /\ Request(c) = Look => call[c].at > 1
           /\ Request(c).do = "page" => call[c].op = "list" /\ call[c].at = 1
<1>1. MethodOk(Script(c), kind, call[c].op, call[c].given) /\ call[c].at \in 1 .. Len(Script(c))
  BY Shape
<1>2. Page.do = "page" /\ Look.do = "look"
  BY DEF Page, Look, Read
<1>3. Request(c) = Script(c)[call[c].at]
  BY DEF Request
<1>4. ASSUME call[c].op = "list"
      PROVE  \/ Request(c) = Page /\ call[c].at = 1
             \/ Request(c) = Look /\ call[c].at > 1
  <2>1. Script(c) = <<Page>> \/ Script(c) = <<Page, Look>>
    BY <1>1, <1>4 DEF MethodOk
  <2>2. CASE Script(c) = <<Page>>
    <3>1. Len(Script(c)) = 1 /\ Script(c)[1] = Page
      BY <2>2
    <3>2. call[c].at = 1
      BY <1>1, <3>1
    <3>. QED BY <1>3, <3>1, <3>2
  <2>3. CASE Script(c) = <<Page, Look>>
    <3>1. Len(Script(c)) = 2 /\ Script(c)[1] = Page /\ Script(c)[2] = Look
      BY <2>3
    <3>2. call[c].at = 1 \/ call[c].at = 2
      BY <1>1, <3>1
    <3>3. CASE call[c].at = 1
      BY <1>3, <3>1, <3>3
    <3>4. CASE call[c].at = 2
      BY <1>3, <3>1, <3>4
    <3>. QED BY <3>2, <3>3, <3>4
  <2>. QED BY <2>1, <2>2, <2>3
<1>5. call[c].op # "list" => Request(c).do # "page"
  BY <1>1, <1>3 DEF MethodOk
<1>. QED BY <1>2, <1>4, <1>5

\* What a request sends of a listing that it was not told to change, it read.
LEMMA SeenFirst ==
    ASSUME TypeOK, NEW c \in Calls, Running(c), CallOk(c),
           Request(c).do \in {"post", "put", "append"},
           \/ call[c].op = "image" /\ "images" \in Request(c).set /\ Request(c).do # "append"
           \/ Request(c).do # "append" /\ ~(Request(c).set \subseteq NamedBy(c))
    PROVE  call[c].seen \in Listing
<1>1. /\ MethodOk(Script(c), kind, call[c].op, call[c].given) /\ call[c].at \in 1 .. Len(Script(c))
      /\ call[c] \in Begun
  BY Shape DEF Running
<1>2. PICK i \in 1 .. call[c].at - 1 : Script(c)[i].do = "get"
  BY <1>1 DEF MethodOk, Request, NamedBy
<1>3. call[c].seen # NoListing
  BY <1>2 DEF CallOk, SeenOk, Running, Past
<1>. QED BY <1>1, <1>3 DEF Begun

\* So what it writes is a listing.
LEMMA WrittenTyped ==
    ASSUME TypeOK, NEW c \in Calls, Running(c), CallOk(c),
           Request(c).do \in {"post", "put", "append"}, NEW l \in Listing
    PROVE  Written(c, l) \in Listing
<1> DEFINE r == Request(c)
<1> DEFINE value(f) == IF f \in r.drop THEN Dropped
                       ELSE IF f \notin r.set THEN l[f]
                       ELSE IF f \in NamedBy(c) THEN c ELSE call[c].seen[f]
<1> DEFINE pictures == IF "images" \in r.drop THEN {}
                       ELSE IF "images" \notin r.set THEN l.images
                       ELSE IF r.do = "append" THEN l.images \cup {c}
                       ELSE IF call[c].op = "image" THEN call[c].seen.images \cup {c}
                       ELSE {c}
<1>1. /\ MethodOk(Script(c), kind, call[c].op, call[c].given) /\ call[c].at \in 1 .. Len(Script(c))
  BY Shape DEF Running
<1>2. c \in Writers
  BY DEF Writers
<1>3. \A k \in Listing : k.images \in SUBSET Writers
  BY DEF Listing
<1>4. \A k \in Listing, f \in Fields : k[f] \in Writers \cup {Dropped}
  BY DEF Listing, Fields
<1>5. ASSUME NEW f \in Fields PROVE value(f) \in Writers \cup {Dropped}
  <2>1. CASE f \in r.set /\ f \notin NamedBy(c)
    <3>1. f # "images"
      BY DEF Fields
    <3>2. r.do # "append"
      BY <1>1, <2>1, <3>1 DEF MethodOk, Request
    <3>3. call[c].seen \in Listing
      BY <2>1, <3>2, SeenFirst
    <3>. QED BY <1>4, <2>1, <3>3
  <2>2. CASE f \notin r.set \/ f \in NamedBy(c)
    BY <1>2, <1>4, <2>2
  <2>. QED BY <2>1, <2>2
<1>6. pictures \in SUBSET Writers
  <2>1. CASE "images" \in r.set /\ r.do # "append" /\ call[c].op = "image"
    <3>1. call[c].seen \in Listing
      BY <2>1, SeenFirst
    <3>. QED BY <1>2, <1>3, <2>1, <3>1
  <2>2. CASE "images" \notin r.set \/ r.do = "append" \/ call[c].op # "image"
    BY <1>2, <1>3, <2>2
  <2>. QED BY <2>1, <2>2
<1>7. Written(c, l) = [price |-> value("price"), stock |-> value("stock"),
                       name |-> value("name"), description |-> value("description"),
                       live |-> value("live"), images |-> pictures]
  BY DEF Written, NamedBy
<1> HIDE DEF value, pictures
<1>. QED BY <1>5, <1>6, <1>7 DEF Listing, Fields

LEMMA NewListings == Blank \in Listing /\ Original \in Listing
<1>1. 0 \in Writers
  BY Numbers DEF Writers
<1>. QED BY <1>1 DEF Blank, Original, Listing

LEMMA ListingIsThere == \A l \in Listing : l # NoListing
BY ConnectorsAssumption

\* A request that is carried out leaves every listing where it is, is noted, and adds a
\* listing only where every lister of it is told.
Applied(c) ==
    /\ shop' \in [Ids -> Listing \cup {NoListing}]
    /\ last' \in 0 .. MaxListings
    /\ note' \in [Calls -> [wrote : SUBSET Parts, gone : BOOLEAN, steady : BOOLEAN]]
    /\ kind' = kind /\ access' = access /\ revoked' = revoked /\ edits' = edits
    /\ Listed \subseteq Listed'
    /\ \A d \in Calls : /\ note'[d].gone = note[d].gone
                        /\ note'[d].steady => note[d].steady /\ InOrder' = InOrder
                        /\ d # c => note'[d].wrote = note[d].wrote
    /\ note[c].wrote \subseteq note'[c].wrote
    /\ Request(c).set \cap NamedBy(c) \subseteq note'[c].wrote
    /\ Request(c).do \in {"post", "put", "append"}
    /\ Request(c).do # "post" => call[c].id \in Listed
    /\ Request(c).do = "post" => last' \in Ids /\ last' \in Listed'

LEMMA AppliesOk ==
    ASSUME TypeOK, NEW c \in Calls, Running(c), CallOk(c), Apply(c)
    PROVE  Applied(c)
<1> DEFINE set == Request(c).set \cap NamedBy(c)
<1>1. set \in SUBSET Parts
  BY NamedParts DEF Running
<1>2. /\ shop \in [Ids -> Listing \cup {NoListing}] /\ last \in 0 .. MaxListings
      /\ note \in [Calls -> [wrote : SUBSET Parts, gone : BOOLEAN, steady : BOOLEAN]]
  BY DEF TypeOK
<1>3. kind' = kind /\ access' = access /\ revoked' = revoked /\ edits' = edits
  BY DEF Apply
<1>4. CASE /\ Request(c).do = "post" /\ last < MaxListings /\ last' = last + 1
           /\ shop' = [shop EXCEPT ![last + 1] = Written(c, Blank)]
           /\ note' = [Unsteady EXCEPT ![c].wrote = @ \cup set]
  <2>1. last' \in 0 .. MaxListings /\ last + 1 \in Ids
    BY <1>2, <1>4, Numbers DEF Ids
  <2>2. Written(c, Blank) \in Listing
    BY <1>4, WrittenTyped, NewListings
  <2>3. shop' \in [Ids -> Listing \cup {NoListing}] /\ shop'[last + 1] = Written(c, Blank)
        /\ \A i \in Ids \ {last + 1} : shop'[i] = shop[i]
    BY <1>2, <1>4, <2>1, <2>2
  <2>4. Listed \subseteq Listed' /\ last + 1 \in Listed'
    BY <2>1, <2>2, <2>3, ListingIsThere DEF Listed
  <2>5. /\ Unsteady \in [Calls -> [wrote : SUBSET Parts, gone : BOOLEAN, steady : BOOLEAN]]
        /\ \A d \in Calls : /\ Unsteady[d].wrote = note[d].wrote
                            /\ Unsteady[d].gone = note[d].gone /\ ~Unsteady[d].steady
    BY <1>2 DEF Unsteady
  <2>6. /\ note' \in [Calls -> [wrote : SUBSET Parts, gone : BOOLEAN, steady : BOOLEAN]]
        /\ \A d \in Calls : /\ note'[d].wrote = IF d = c THEN note[d].wrote \cup set
                                                 ELSE note[d].wrote
                            /\ note'[d].gone = note[d].gone /\ ~note'[d].steady
    <3>. HIDE DEF set
    <3>. QED BY <1>1, <1>4, <2>5
  <2>7. /\ \A d \in Calls : /\ note'[d].gone = note[d].gone
                            /\ note'[d].steady => note[d].steady /\ InOrder' = InOrder
                            /\ d # c => note'[d].wrote = note[d].wrote
        /\ note[c].wrote \subseteq note'[c].wrote /\ set \subseteq note'[c].wrote
    <3>. HIDE DEF set
    <3>. QED BY <2>6
  <2>. QED BY <1>3, <1>4, <2>1, <2>3, <2>4, <2>6, <2>7 DEF Applied
<1>5. CASE /\ Request(c).do \in {"put", "append"} /\ call[c].id \in Listed
           /\ shop' = [shop EXCEPT ![call[c].id] = Written(c, @)]
           /\ note' = [note EXCEPT ![c].wrote = @ \cup set]
           /\ last' = last
  <2>1. call[c].id \in Ids /\ shop[call[c].id] \in Listing
    BY <1>2, <1>5 DEF Listed
  <2>2. Written(c, shop[call[c].id]) \in Listing
    BY <1>5, <2>1, WrittenTyped
  <2>3. shop' \in [Ids -> Listing \cup {NoListing}]
        /\ shop'[call[c].id] = Written(c, shop[call[c].id])
        /\ \A i \in Ids \ {call[c].id} : shop'[i] = shop[i]
    BY <1>2, <1>5, <2>1, <2>2
  <2>4. Listed' = Listed
    BY <1>5, <2>2, <2>3, ListingIsThere DEF Listed
  <2>5. InOrder' = InOrder
    BY <2>4 DEF InOrder
  <2>6. /\ note' \in [Calls -> [wrote : SUBSET Parts, gone : BOOLEAN, steady : BOOLEAN]]
        /\ \A d \in Calls : /\ note'[d].wrote = IF d = c THEN note[d].wrote \cup set
                                                 ELSE note[d].wrote
                            /\ note'[d].gone = note[d].gone /\ (note'[d].steady <=> note[d].steady)
    <3>. HIDE DEF set
    <3>. QED BY <1>1, <1>2, <1>5
  <2>7. /\ \A d \in Calls : /\ note'[d].gone = note[d].gone
                            /\ note'[d].steady => note[d].steady /\ InOrder' = InOrder
                            /\ d # c => note'[d].wrote = note[d].wrote
        /\ note[c].wrote \subseteq note'[c].wrote /\ set \subseteq note'[c].wrote
    <3>. HIDE DEF set
    <3>. QED BY <2>5, <2>6
  <2>. QED BY <1>2, <1>3, <1>5, <2>3, <2>4, <2>6, <2>7 DEF Applied
<1>. QED BY <1>4, <1>5 DEF Apply, NamedBy

\* A step of one call leaves the others right.
LEMMA OthersStay ==
    ASSUME ConnectorsInv, NEW c \in Calls, StepOf(c),
           kind' = kind, revoked' = revoked, access' = access, Listed \subseteq Listed',
           \A d \in Calls \ {c} : /\ note'[d].wrote = note[d].wrote
                                  /\ note[d].gone => note'[d].gone
                                  /\ note'[d].steady => note[d].steady /\ InOrder' = InOrder
    PROVE  \A d \in Calls \ {c} : call'[d] # Idle => CallOk(d)'
<1> SUFFICES ASSUME NEW d \in Calls \ {c}, call'[d] # Idle PROVE CallOk(d)'
  OBVIOUS
<1>1. TypeOK /\ call'[d] = call[d] /\ call[d] # Idle /\ CallOk(d)
  BY DEF ConnectorsInv, StepOf
<1>2. revoked \in Nat
  BY <1>1, Numbers DEF TypeOK
<1>. QED BY <1>1, <1>2, Stays

\* What is known of a call that makes a request.
Asking(c) ==
    /\ TypeOK /\ CallOk(c) /\ call[c] # Idle /\ call[c] \in Begun
    /\ call[c].state = "running" /\ MethodOk(Script(c), kind, call[c].op, call[c].given)
    /\ Len(Script(c)) \in Nat /\ call[c].at \in 1 .. Len(Script(c))
    /\ Script(c)[1].do # "raise"
    /\ call[c].at = 1 => Request(c) = Script(c)[1]
    /\ call[c].at > 1 /\ Script(c)[1].do \in {"get", "put", "post"}
       => call[c].id \in Listed \/ note[c].gone
    /\ \A j \in 1 .. call[c].at - 1 : Script(c)[j].do = "get" => call[c].seen # NoListing

LEMMA Asks ==
    ASSUME ConnectorsInv, NEW c \in Calls, Running(c), Request(c).do # "raise"
    PROVE  Asking(c)
<1>1. TypeOK /\ CallOk(c) /\ call[c] # Idle /\ call[c].state = "running"
  BY DEF ConnectorsInv, Running
<1>2. /\ MethodOk(Script(c), kind, call[c].op, call[c].given)
      /\ call[c] \in Begun /\ Len(Script(c)) \in Nat /\ call[c].at \in 1 .. Len(Script(c))
  BY <1>1, Shape
<1>3. Script(c)[1].do # "raise"
  <2>1. Script(c)[1].do = "raise" => Len(Script(c)) = 1
    BY <1>2 DEF MethodOk
  <2>2. Len(Script(c)) = 1 => call[c].at = 1
    BY <1>2
  <2>. QED BY <2>1, <2>2 DEF Request
<1>. QED BY <1>1, <1>2, <1>3 DEF Asking, Request, CallOk, IdOk, SeenOk, Past

\* One lemma for each action, from here on.
LEMMA WritesOk ==
    ASSUME ConnectorsInv, NEW c \in Calls, Writes(c) PROVE ConnectorsInv'
<1> DEFINE r == IF Request(c).do = "post" THEN [call[c] EXCEPT !.id = last'] ELSE call[c]
<1>1. Running(c) /\ Request(c).do # "raise" /\ Apply(c) /\ Advance(c, 1, r) /\ faults' = faults
  BY DEF Writes, Accepted
<1>2. Asking(c)
  BY <1>1, Asks
<1>3. Applied(c)
  BY <1>1, <1>2, AppliesOk DEF Asking
<1>4. /\ r \in Begun /\ r.state = "running" /\ r.op = call[c].op /\ r.given = call[c].given
      /\ r.token = call[c].token /\ r.page = call[c].page /\ r.listed = call[c].listed
      /\ r.seen = call[c].seen /\ r.id = IF Request(c).do = "post" THEN last' ELSE call[c].id
  <2>1. call[c] \in Begun /\ call[c].state = "running" /\ (Request(c).do = "post" => last' \in Ids)
    BY <1>2, <1>3 DEF Asking, Applied
  <2>. QED BY <2>1 DEF Begun
<1> HIDE DEF r
<1>5. call[c].op # "list"
  BY <1>2, <1>3, ListsOnly DEF Asking, Applied, Page, Look, Read
<1>6. \A j \in call[c].at .. (call[c].at + 1) - 1 : Script(c)[j] = Request(c)
  BY <1>2 DEF Asking, Request
<1>7. Script(c)[1].do \in {"get", "put", "post"} => r.id \in Listed' \/ note'[c].gone
  <2>1. call[c].at = 1 \/ call[c].at > 1
    BY <1>2 DEF Asking
  <2>. QED BY <1>2, <1>3, <1>4, <2>1 DEF Asking, Applied
<1>8. SeenUpTo(c, (call[c].at + 1) - 1, r)
  <2> SUFFICES ASSUME NEW j \in 1 .. (call[c].at + 1) - 1, Script(c)[j].do = "get"
               PROVE  r.seen # NoListing
    BY DEF SeenUpTo
  <2>1. j = call[c].at \/ j \in 1 .. call[c].at - 1
    BY <1>2 DEF Asking
  <2>2. j # call[c].at
    BY <1>3 DEF Request, Applied
  <2>. QED BY <1>2, <1>4, <2>1, <2>2 DEF Asking
<1>9. Answered(c, 1, r)
  <2>1. /\ Script(c)[1].do # "raise" /\ CallOk(c)
    BY <1>2 DEF Asking
  <2>. QED BY <1>1, <1>3, <1>4, <1>5, <1>6, <1>7, <1>8, <2>1 DEF Answered, Applied
<1>10. StepOf(c) /\ CallOk(c)'
  BY <1>2, <1>4, <1>9, AdvancesOk DEF Asking
<1>11. TypeOK'
  BY <1>1, <1>2, <1>3, <1>10 DEF TypeOK, Asking, Applied, StepOf
<1>12. \A d \in Calls \ {c} : call'[d] # Idle => CallOk(d)'
  BY <1>3, <1>10, OthersStay DEF Applied
<1>. QED BY <1>10, <1>11, <1>12 DEF ConnectorsInv

\* A request that only reads.
LEMMA ReadingOk ==
    ASSUME ConnectorsInv, NEW c \in Calls, Running(c), Request(c).do # "raise",
           Request(c).set = {},
           NEW by \in {1, 2}, NEW r \in Begun, Advance(c, by, r),
           UNCHANGED <<kind, shop, last, access, revoked, edits, faults>>,
           note' = note \/ note' = [note EXCEPT ![c].steady = FALSE],
           r.state = "running", r.op = call[c].op, r.given = call[c].given, r.id = call[c].id,
           r.token = call[c].token, r.page = call[c].page, r.listed = call[c].listed,
           call[c].op = "list" => by = 1,
           by = 2 => note[c].gone,
           by = 2 /\ call[c].at < Len(Script(c)) => Script(c)[call[c].at + 1].do # "get",
           Request(c).do \in {"get", "put", "post"} => call[c].id \in Listed,
           Request(c).do = "get" => r.seen # NoListing,
           call[c].seen # NoListing => r.seen # NoListing,
           call[c].op = "list" /\ note'[c].steady /\ WithinCap =>
               /\ r.got = PageOf(call[c].page)
               /\ r.more <=> ToldMore(call[c].page, Len(InOrder), Len(r.got))
    PROVE  ConnectorsInv'
<1>2. Asking(c)
  BY Asks
<1>3. Listed' = Listed /\ InOrder' = InOrder
  BY DEF Listed, InOrder
<1>1. /\ note' \in [Calls -> [wrote : SUBSET Parts, gone : BOOLEAN, steady : BOOLEAN]]
      /\ \A d \in Calls : /\ note'[d].wrote = note[d].wrote /\ (note'[d].gone <=> note[d].gone)
                          /\ note'[d].steady => note[d].steady
  <2>1. note \in [Calls -> [wrote : SUBSET Parts, gone : BOOLEAN, steady : BOOLEAN]]
    BY <1>2 DEF Asking, TypeOK
  <2>2. CASE note' = note
    BY <2>1, <2>2
  <2>3. CASE note' = [note EXCEPT ![c].steady = FALSE]
    BY <2>1, <2>3
  <2>. QED BY <2>2, <2>3
<1>4. \A j \in call[c].at .. (call[c].at + by) - 1 : j <= Len(Script(c)) =>
          Script(c)[j].set \cap NamedBy(c) \subseteq note'[c].wrote \/ note'[c].gone
  <2>1. CASE by = 1
    <3>1. \A j \in call[c].at .. (call[c].at + by) - 1 : Script(c)[j] = Request(c)
      BY <1>2, <2>1 DEF Asking, Request
    <3>. QED BY <3>1
  <2>2. CASE by = 2
    BY <1>1, <2>2
  <2>. QED BY <2>1, <2>2
<1>5. Script(c)[1].do \in {"get", "put", "post"} => r.id \in Listed' \/ note'[c].gone
  <2>1. call[c].at = 1 \/ call[c].at > 1
    BY <1>2 DEF Asking
  <2>. QED BY <1>1, <1>2, <1>3, <2>1 DEF Asking
<1>6. SeenUpTo(c, (call[c].at + by) - 1, r)
  <2> SUFFICES ASSUME NEW j \in 1 .. (call[c].at + by) - 1, j <= Len(Script(c)),
                      Script(c)[j].do = "get"
               PROVE  r.seen # NoListing
    BY DEF SeenUpTo
  <2>0. Len(Script(c)) \in Nat /\ call[c].at \in 1 .. Len(Script(c))
    BY <1>2 DEF Asking
  <2>1. \/ j = call[c].at
        \/ j \in 1 .. call[c].at - 1
        \/ by = 2 /\ j = call[c].at + 1 /\ call[c].at < Len(Script(c))
    BY <2>0
  <2>2. j = call[c].at => r.seen # NoListing
    BY DEF Request
  <2>. QED BY <1>2, <2>1, <2>2 DEF Asking
<1>7. Answered(c, by, r)
  <2>1. Script(c)[1].do # "raise" /\ CallOk(c)
    BY <1>2 DEF Asking
  <2>. QED BY <1>1, <1>3, <1>4, <1>5, <1>6, <2>1 DEF Answered
<1>8. StepOf(c) /\ CallOk(c)'
  BY <1>2, <1>7, AdvancesOk DEF Asking
<1>9. TypeOK'
  BY <1>1, <1>2, <1>8 DEF TypeOK, Asking, StepOf
<1>10. \A d \in Calls \ {c} : call'[d] # Idle => CallOk(d)'
  BY <1>1, <1>3, <1>8, OthersStay
<1>. QED BY <1>8, <1>9, <1>10 DEF ConnectorsInv

LEMMA ReadsSetNothing ==
    ASSUME ConnectorsInv, NEW c \in Calls, Running(c),
           Request(c).do \notin {"post", "put", "append"}
    PROVE  Request(c).set = {}
<1>1. TypeOK /\ call[c] # Idle
  BY DEF ConnectorsInv, Running
<1>. QED BY <1>1, Shape DEF MethodOk, Request

LEMMA ReadsOk ==
    ASSUME ConnectorsInv, NEW c \in Calls, Reads(c) PROVE ConnectorsInv'
<1>1. /\ Running(c) /\ Present(c) /\ Request(c).do \in {"get", "look", "fetch"}
      /\ UNCHANGED <<kind, shop, last, access, revoked, edits, faults, note>>
  BY DEF Reads, Accepted
<1>2. TypeOK /\ CallOk(c) /\ call[c] # Idle /\ call[c] \in Begun /\ call[c].state = "running"
      /\ Len(Script(c)) \in Nat /\ call[c].at \in 1 .. Len(Script(c))
  BY <1>1, Asks DEF Asking
<1>3. Request(c).set = {} /\ Request(c).do # "raise"
  BY <1>1, ReadsSetNothing
<1>4. call[c].op = "list" => call[c].at > 1
  BY <1>1, <1>2, ListsOnly DEF Page, Read
<1>5. call[c].op = "list" /\ note[c].steady /\ WithinCap =>
          /\ call[c].got = PageOf(call[c].page)
          /\ call[c].more <=> ToldMore(call[c].page, Len(InOrder), Len(call[c].got))
  BY <1>2, <1>4 DEF CallOk, ListOk
<1>6. CASE Request(c).do = "get"
  <2> DEFINE r == [call[c] EXCEPT !.seen = shop[call[c].id]]
  <2>1. Advance(c, 1, r)
    BY <1>6 DEF Reads
  <2>2. call[c].id \in Listed /\ call[c].id \in Ids
    BY <1>1, <1>2, <1>6 DEF Present, Begun
  <2>3. shop[call[c].id] \in Listing /\ shop[call[c].id] # NoListing
    BY <1>2, <2>2 DEF TypeOK, Listed
  <2>4. call[c].op # "list"
    BY <1>2, <1>6, ListsOnly DEF Page, Look, Read
  <2>5. /\ r \in Begun /\ r.state = "running" /\ r.op = call[c].op /\ r.given = call[c].given
        /\ r.id = call[c].id /\ r.token = call[c].token /\ r.page = call[c].page
        /\ r.listed = call[c].listed /\ r.seen = shop[call[c].id]
    BY <1>2, <2>3 DEF Begun
  <2>. HIDE DEF r
  <2>. QED BY <1>1, <1>3, <2>1, <2>2, <2>3, <2>4, <2>5, ReadingOk
<1>7. CASE Request(c).do # "get"
  <2>1. Advance(c, 1, call[c])
    BY <1>7 DEF Reads
  <2>. QED BY <1>1, <1>2, <1>3, <1>5, <1>7, <2>1, ReadingOk
<1>. QED BY <1>6, <1>7

LEMMA FindsStockOk ==
    ASSUME ConnectorsInv, NEW c \in Calls, FindsStock(c) PROVE ConnectorsInv'
<1> DEFINE by == IF call[c].id \in Listed THEN 1 ELSE 2
<1>1. /\ Running(c) /\ Request(c).do = "stockid" /\ Advance(c, by, call[c])
      /\ UNCHANGED <<kind, shop, last, access, revoked, edits, faults, note>>
  BY DEF FindsStock, Accepted
<1>2. /\ TypeOK /\ CallOk(c) /\ call[c] # Idle /\ call[c] \in Begun /\ call[c].state = "running"
      /\ MethodOk(Script(c), kind, call[c].op, call[c].given)
      /\ Len(Script(c)) \in Nat /\ call[c].at \in 1 .. Len(Script(c))
      /\ call[c].at > 1 /\ Script(c)[1].do \in {"get", "put", "post"}
         => call[c].id \in Listed \/ note[c].gone
  BY <1>1, Asks DEF Asking
<1>3. Request(c).set = {} /\ Request(c).do # "raise"
  BY <1>1, ReadsSetNothing
<1>4. call[c].op # "list"
  BY <1>1, <1>2, ListsOnly DEF Page, Look, Read
<1>5. /\ call[c].at > 1 /\ Script(c)[1].do \in {"get", "put", "post"}
      /\ call[c].at < Len(Script(c)) => Script(c)[call[c].at + 1].do = "put"
  BY <1>1, <1>2 DEF MethodOk, Request
<1>6. by \in {1, 2} /\ (by = 2 => note[c].gone)
  BY <1>2, <1>5
<1> HIDE DEF by
<1>. QED BY <1>1, <1>2, <1>3, <1>4, <1>5, <1>6, ReadingOk

\* A page is listings, whatever was removed since the one before it.
LEMMA PageTyped == \A n \in Nat : PageOf(n) \in Seq(Ids)
<1> SUFFICES ASSUME NEW n \in Nat PROVE PageOf(n) \in Seq(Ids)
  OBVIOUS
<1>1. /\ n * PageSize \in Nat /\ n * PageSize + PageSize \in Nat
      /\ Len(InOrder) \in Nat /\ InOrder \in Seq(Ids)
  BY PageSizes, InOrderSeq
<1> DEFINE a == n * PageSize
<1> DEFINE b == Min({a + PageSize, Len(InOrder)})
<1>2. b \in Nat /\ b <= Len(InOrder)
  <2>1. b = IF a + PageSize <= Len(InOrder) THEN a + PageSize ELSE Len(InOrder)
    BY <1>1, MinTwo
  <2>. HIDE DEF a, b
  <2>. QED BY <1>1, <2>1 DEF a
<1> HIDE DEF a, b
<1>3. a + 1 \in Int /\ b \in Int /\ \A i \in a + 1 .. b : i \in 1 .. Len(InOrder)
  BY <1>1, <1>2 DEF a
<1>4. \A i \in a + 1 .. b : InOrder[i] \in Ids
  BY <1>1, <1>3, ElementOfSeq
<1>5. SubSeq(InOrder, a + 1, b) \in Seq(Ids)
  BY <1>3, <1>4, SubSeqProperties
<1>. QED BY <1>5 DEF PageOf, a, b

LEMMA MoreTyped ==
    ASSUME kind \in Platforms, NEW n, NEW total, NEW got, NEW told
    PROVE  More(n, total, got, told) \in BOOLEAN
<1>1. CASE kind = "woocommerce"
  <2>1. More(n, total, got, told) = WooCommerceMore(n, total, got, told)
    BY <1>1 DEF More
  <2>2. WooCommerceMore(n, total, got, told) \in BOOLEAN
    BY DEF WooCommerceMore
  <2>. QED BY <2>1, <2>2
<1>2. CASE kind = "allegro"
  <2>1. More(n, total, got, told) = AllegroMore(n, total, got, told)
    BY <1>2 DEF More
  <2>2. AllegroMore(n, total, got, told) \in BOOLEAN
    BY DEF AllegroMore
  <2>. QED BY <2>1, <2>2
<1>3. CASE kind = "shoper"
  <2>1. More(n, total, got, told) = ShoperMore(n, total, got, told)
    BY <1>3 DEF More
  <2>2. ShoperMore(n, total, got, told) \in BOOLEAN
    BY DEF ShoperMore
  <2>. QED BY <2>1, <2>2
<1>4. CASE kind = "prestashop"
  <2>1. More(n, total, got, told) = PrestaShopMore(n, total, got, told)
    BY <1>4 DEF More
  <2>2. PrestaShopMore(n, total, got, told) \in BOOLEAN
    BY DEF PrestaShopMore
  <2>. QED BY <2>1, <2>2
<1>5. CASE kind = "idosell"
  <2>1. More(n, total, got, told) = IdoSellMore(n, total, got, told)
    BY <1>5 DEF More
  <2>2. IdoSellMore(n, total, got, told) \in BOOLEAN
    BY DEF IdoSellMore
  <2>. QED BY <2>1, <2>2
<1>6. CASE kind = "mock"
  <2>1. More(n, total, got, told) = MockMore(n, total, got, told)
    BY <1>6 DEF More
  <2>2. MockMore(n, total, got, told) \in BOOLEAN
    BY DEF MockMore
  <2>. QED BY <2>1, <2>2
<1>. QED BY <1>1, <1>2, <1>3, <1>4, <1>5, <1>6 DEF Platforms

LEMMA ListsOk ==
    ASSUME ConnectorsInv, NEW c \in Calls, NEW told \in BOOLEAN, Lists(c, told)
    PROVE  ConnectorsInv'
<1> DEFINE n == call[c].page
<1> DEFINE answer == PageOf(n)
<1> DEFINE more == More(n, Len(InOrder), Len(PageOf(n)), told)
<1> DEFINE r == [call[c] EXCEPT !.got = answer, !.more = more]
<1>1. /\ Running(c) /\ Request(c).do = "page" /\ Advance(c, 1, r)
      /\ UNCHANGED <<kind, shop, last, access, revoked, edits, faults>>
      /\ note' = note \/ note' = [note EXCEPT ![c].steady = FALSE]
  BY DEF Lists, Accepted
<1>2. TypeOK /\ CallOk(c) /\ call[c] # Idle /\ call[c] \in Begun /\ call[c].state = "running"
  BY <1>1, Asks DEF Asking
<1>3. Request(c).set = {} /\ Request(c).do # "raise"
  BY <1>1, ReadsSetNothing
<1>4. answer \in Seq(Ids)
  BY <1>2, PageTyped DEF Begun
<1>5. more \in BOOLEAN
  <2>1. kind \in Platforms
    BY <1>2, ConnectorsAssumption DEF TypeOK
  <2>. QED BY <2>1, MoreTyped
<1>6. answer = PageOf(call[c].page)
  OBVIOUS
<1>7. note'[c].steady => (more <=> ToldMore(call[c].page, Len(InOrder), Len(answer)))
  <2>1. ~told => ~note'[c].steady
    BY <1>2 DEF Lists, TypeOK
  <2>2. ASSUME told = TRUE PROVE more <=> ToldMore(call[c].page, Len(InOrder), Len(answer))
    BY <2>2, Zenon DEF more, answer, ToldMore
  <2>. QED BY <2>1, <2>2
<1> HIDE DEF answer, more
<1>8. /\ r \in Begun /\ r.state = "running" /\ r.op = call[c].op /\ r.given = call[c].given
      /\ r.id = call[c].id /\ r.token = call[c].token /\ r.page = call[c].page
      /\ r.listed = call[c].listed /\ r.seen = call[c].seen
      /\ r.got = answer /\ (r.more <=> more)
  BY <1>2, <1>4, <1>5 DEF Begun
<1> HIDE DEF r
<1>. QED BY <1>1, <1>3, <1>6, <1>7, <1>8, ReadingOk

\* A request that fails, carried out or not.
LEMMA FailingOk ==
    ASSUME ConnectorsInv, NEW c \in Calls, Running(c),
           NEW state \in {"auth", "missing", "error"}, Fails(c, state),
           state = "auth" => AuthReason,
           shop' \in [Ids -> Listing \cup {NoListing}], last' \in 0 .. MaxListings,
           note' \in [Calls -> [wrote : SUBSET Parts, gone : BOOLEAN, steady : BOOLEAN]],
           kind' = kind, access' = access, revoked' = revoked, edits' = edits,
           faults' \in 0 .. MaxFaults, Listed \subseteq Listed',
           \A d \in Calls : /\ note'[d].gone = note[d].gone
                            /\ note'[d].steady => note[d].steady /\ InOrder' = InOrder
                            /\ d # c => note'[d].wrote = note[d].wrote
    PROVE  ConnectorsInv'
<1>1. TypeOK /\ CallOk(c)
  BY DEF ConnectorsInv, Running
<1>2. StepOf(c) /\ CallOk(c)'
  BY <1>1, FailsOk
<1>3. TypeOK'
  BY <1>1, <1>2 DEF TypeOK, StepOf
<1>4. \A d \in Calls \ {c} : call'[d] # Idle => CallOk(d)'
  BY <1>2, OthersStay
<1>. QED BY <1>2, <1>3, <1>4 DEF ConnectorsInv

\* Nor is anything of it seen in the shop.
LEMMA UnseenFails ==
    ASSUME ConnectorsInv, NEW c \in Calls, Running(c),
           NEW state \in {"auth", "missing", "error"}, Fails(c, state),
           state = "auth" => AuthReason,
           UNCHANGED <<kind, shop, last, access, revoked, edits, note>>,
           faults' \in 0 .. MaxFaults
    PROVE  ConnectorsInv'
<1>1. Listed' = Listed /\ InOrder' = InOrder
  BY DEF Listed, InOrder
<1>2. TypeOK
  BY DEF ConnectorsInv
<1>3. shop' \in [Ids -> Listing \cup {NoListing}] /\ last' \in 0 .. MaxListings
      /\ note' \in [Calls -> [wrote : SUBSET Parts, gone : BOOLEAN, steady : BOOLEAN]]
  BY <1>2 DEF TypeOK
<1>. QED BY <1>1, <1>3, FailingOk

LEMMA FaultsTyped ==
    ASSUME ConnectorsInv
    PROVE  /\ faults' = faults => faults' \in 0 .. MaxFaults
           /\ \A c : Faulty(c) => faults' \in 0 .. MaxFaults
BY Numbers DEF ConnectorsInv, TypeOK, Faulty

LEMMA NotFoundOk ==
    ASSUME ConnectorsInv, NEW c \in Calls, NotFound(c) PROVE ConnectorsInv'
BY UnseenFails, FaultsTyped DEF NotFound, Accepted

LEMMA RefusedOk ==
    ASSUME ConnectorsInv, NEW c \in Calls, Refused(c) PROVE ConnectorsInv'
BY UnseenFails, FaultsTyped DEF Refused

LEMMA DeniedOk ==
    ASSUME ConnectorsInv, NEW c \in Calls, Denied(c) PROVE ConnectorsInv'
<1>1. Running(c) /\ Fails(c, "auth")
      /\ UNCHANGED <<kind, shop, last, access, revoked, edits, faults, note>>
  BY DEF Denied
<1>2. CallOk(c)
  BY <1>1 DEF ConnectorsInv, Running
<1>3. AuthReason
  BY <1>2 DEF Denied, Stale, CallOk, TokenOk, AuthReason
<1>. QED BY <1>1, <1>3, UnseenFails, FaultsTyped

LEMMA TimesOutOk ==
    ASSUME ConnectorsInv, NEW c \in Calls, TimesOut(c) PROVE ConnectorsInv'
<1>1. Running(c) /\ Apply(c) /\ Fails(c, "error") /\ Faulty(c)
  BY DEF TimesOut, Accepted
<1>2. TypeOK /\ CallOk(c)
  BY <1>1 DEF ConnectorsInv, Running
<1>3. Applied(c)
  BY <1>1, <1>2, AppliesOk
<1>. QED BY <1>1, <1>3, FailingOk, FaultsTyped DEF Applied

-------------------------------------------------------------------------------
(* Tokens.                                                                  *)

\* Only what a call holds of the shop's credentials changes.
LEMMA SameButToken ==
    ASSUME ConnectorsInv, NEW c \in Calls, call[c] # Idle,
           NEW r \in Begun, call' = [call EXCEPT ![c] = r],
           UNCHANGED <<kind, shop, last, access, edits, faults, note>>,
           revoked' = revoked,
           r.state = call[c].state, r.op = call[c].op, r.given = call[c].given,
           r.id = call[c].id, r.at = call[c].at, r.seen = call[c].seen,
           r.page = call[c].page, r.got = call[c].got, r.more <=> call[c].more,
           r.listed = call[c].listed,
           r.token = "stale" \/ r.again => revoked > 0,
           r.token = "stale" /\ r.again => revoked > 1,
           r.token # "none" => kind \in {"shoper", "allegro"}
    PROVE  ConnectorsInv'
<1>1. TypeOK /\ CallOk(c) /\ call[c].at \in 1 .. Len(Script(c))
  BY Shape DEF ConnectorsInv
<1>2. Listed' = Listed /\ InOrder' = InOrder /\ PageOf(call[c].page)' = PageOf(call'[c].page)
  BY DEF Listed, InOrder, PageOf, PageSize
<1>3. /\ StepOf(c)
      /\ call'[c] = r /\ Script(c)' = Script(c) /\ NamedBy(c)' = NamedBy(c)
  BY <1>1, CallTyped
<1>4. TypeOK'
  BY <1>1, <1>3 DEF TypeOK, StepOf
<1>5. WroteOk(c)' /\ IdOk(c)' /\ SeenOk(c)' /\ TokenOk(c)'
  BY <1>1, <1>2, <1>3 DEF CallOk, WroteOk, IdOk, SeenOk, TokenOk, AuthReason, Past
<1>6. ListOk(c)'
  <2>1. PageOf(r.page)' = PageOf(call[c].page)
    BY <1>2 DEF PageOf, PageSize
  <2>2. ToldMore(r.page, Len(InOrder), Len(r.got))'
           <=> ToldMore(call[c].page, Len(InOrder), Len(call[c].got))
    BY <1>2 DEF More, ToldMore
  <2>. QED BY <1>1, <1>2, <1>3, <2>1, <2>2 DEF CallOk, ListOk, WithinCap
<1>7. \A d \in Calls \ {c} : call'[d] # Idle => CallOk(d)'
  BY <1>2, <1>3, OthersStay
<1>. QED BY <1>4, <1>5, <1>6, <1>7 DEF ConnectorsInv, CallOk

LEMMA AuthenticateOk ==
    ASSUME ConnectorsInv, NEW c \in Calls, Authenticate(c) PROVE ConnectorsInv'
<1> DEFINE r == [call[c] EXCEPT !.token = "good"]
<1>1. /\ kind = "shoper" /\ call[c] # Idle /\ ~call[c].again
      /\ call' = [call EXCEPT ![c] = r]
      /\ UNCHANGED <<kind, shop, last, access, revoked, edits, faults, note>>
  BY DEF Authenticate, Running
<1>2. call[c] \in Begun
  BY <1>1 DEF ConnectorsInv, TypeOK
<1>3. /\ r \in Begun /\ r.state = call[c].state /\ r.op = call[c].op /\ r.given = call[c].given
      /\ r.id = call[c].id /\ r.at = call[c].at /\ r.seen = call[c].seen
      /\ r.page = call[c].page /\ r.got = call[c].got /\ (r.more <=> call[c].more)
      /\ r.listed = call[c].listed /\ r.token = "good" /\ (r.again <=> call[c].again)
  BY <1>2 DEF Begun, Tokens
<1> HIDE DEF r
<1>. QED BY <1>1, <1>3, SameButToken

LEMMA ReauthenticateOk ==
    ASSUME ConnectorsInv, NEW c \in Calls, Reauthenticate(c) PROVE ConnectorsInv'
<1> DEFINE r == [call[c] EXCEPT !.token = "good", !.again = TRUE]
<1>1. /\ kind = "shoper" /\ call[c] # Idle /\ call[c].token = "stale"
      /\ call' = [call EXCEPT ![c].token = "good", ![c].again = TRUE]
      /\ UNCHANGED <<kind, shop, last, access, revoked, edits, faults, note>>
  BY DEF Reauthenticate, Running, Stale
<1>2. call[c] \in Begun /\ call \in [Calls -> Begun \cup {Idle}]
  BY <1>1 DEF ConnectorsInv, TypeOK
<1>3. call' = [call EXCEPT ![c] = r]
  BY <1>1, <1>2
<1>4. revoked > 0
  BY <1>1 DEF ConnectorsInv, CallOk, TokenOk
<1>5. /\ r \in Begun /\ r.state = call[c].state /\ r.op = call[c].op /\ r.given = call[c].given
      /\ r.id = call[c].id /\ r.at = call[c].at /\ r.seen = call[c].seen
      /\ r.page = call[c].page /\ r.got = call[c].got /\ (r.more <=> call[c].more)
      /\ r.listed = call[c].listed /\ r.token = "good" /\ r.again
  BY <1>2 DEF Begun, Tokens
<1> HIDE DEF r
<1>. QED BY <1>1, <1>3, <1>4, <1>5, SameButToken

LEMMA RetryOk ==
    ASSUME ConnectorsInv, NEW c \in Calls, Retry(c) PROVE ConnectorsInv'
<1> DEFINE more == call[c].tries + 1
<1> DEFINE r == [call[c] EXCEPT !.state = "running", !.tries = more]
<1>1. /\ call[c] # Idle /\ call[c].state = "error" /\ call[c].tries < MaxTries
      /\ note' = [note EXCEPT ![c].wrote = {}]
      /\ UNCHANGED <<kind, shop, last, access, revoked, edits, faults>>
  BY DEF Retry
<1>2. /\ TypeOK /\ CallOk(c) /\ call[c] \in Begun /\ call[c].at = 1
      /\ Len(Script(c)) \in Nat /\ call[c].at \in 1 .. Len(Script(c))
  BY <1>1, Shape DEF ConnectorsInv, CallOk, WroteOk
<1>3. call' = [call EXCEPT ![c] = r]
  <2>1. call' = [call EXCEPT ![c].state = "running", ![c].tries = more]
    BY DEF Retry
  <2>2. call \in [Calls -> Begun \cup {Idle}]
    BY <1>2 DEF TypeOK
  <2>. HIDE DEF more
  <2>. QED BY <1>2, <2>1, <2>2
<1>4. more \in 1 .. MaxTries
  <2>1. call[c].tries \in 1 .. MaxTries
    BY <1>2 DEF Begun
  <2>. QED BY <1>1, <2>1, Numbers
<1> HIDE DEF more
<1>5. /\ r \in Begun /\ r.state = "running" /\ r.op = call[c].op /\ r.given = call[c].given
      /\ r.id = call[c].id /\ r.at = 1 /\ r.token = call[c].token
      /\ (r.again <=> call[c].again) /\ r.page = call[c].page /\ r.listed = call[c].listed
  BY <1>2, <1>4 DEF Begun
<1> HIDE DEF r
<1>6. /\ StepOf(c)
      /\ call'[c] = r /\ Script(c)' = Script(c) /\ NamedBy(c)' = NamedBy(c)
  BY <1>1, <1>2, <1>3, <1>5, CallTyped
<1>7. /\ note' \in [Calls -> [wrote : SUBSET Parts, gone : BOOLEAN, steady : BOOLEAN]]
      /\ \A d \in Calls \ {c} : note'[d] = note[d]
      /\ note'[c].steady <=> note[c].steady
  BY <1>1, <1>2 DEF TypeOK
<1>8. TypeOK'
  BY <1>1, <1>2, <1>6, <1>7 DEF TypeOK, StepOf
<1>9. Listed' = Listed /\ InOrder' = InOrder
  BY <1>1 DEF Listed, InOrder
<1>10. WroteOk(c)' /\ IdOk(c)' /\ SeenOk(c)'
  BY <1>5, <1>6 DEF WroteOk, IdOk, SeenOk, Past
<1>11. TokenOk(c)'
  BY <1>1, <1>2, <1>5, <1>6 DEF CallOk, TokenOk
<1>12. ListOk(c)'
  BY <1>1, <1>2, <1>5, <1>6, <1>7, <1>9 DEF CallOk, ListOk, WithinCap
<1>13. \A d \in Calls \ {c} : call'[d] # Idle => CallOk(d)'
  BY <1>1, <1>6, <1>7, <1>9, OthersStay
<1>. QED BY <1>8, <1>10, <1>11, <1>12, <1>13 DEF ConnectorsInv, CallOk

LEMMA StartOk ==
    ASSUME ConnectorsInv, NEW c \in Calls, NEW op \in Ops, NEW i \in Wanted,
           NEW g \in SUBSET Optional, NEW token \in Tokens, Start(c, op, i, g, token)
    PROVE  ConnectorsInv'
<1> DEFINE r == [state |-> "running", op |-> op, given |-> g, id |-> i, at |-> 1,
                 seen |-> NoListing, token |-> token, again |-> FALSE, tries |-> 1,
                 page |-> 0, got |-> <<>>, more |-> FALSE, listed |-> <<>>]
<1>0. token # "stale" \/ revoked > 0
  <2>1. revoked \in Nat /\ token \in TokensAtFirst
    BY Numbers DEF ConnectorsInv, TypeOK, Start
  <2>. QED BY <2>1 DEF TokensAtFirst
<1>a. token # "none" => kind = "allegro"
  BY DEF Start, TokensAtFirst
<1>1. /\ call' = [call EXCEPT ![c] = r] /\ note' = [note EXCEPT ![c].steady = TRUE]
      /\ UNCHANGED <<kind, shop, last, access, revoked, edits, faults>>
  BY DEF Start
<1>2. TypeOK
  BY DEF ConnectorsInv
<1>3. r \in Begun
  <2>1. i \in Ids /\ 1 \in 1 .. MaxTries /\ 0 \in Nat /\ 1 \in Nat /\ <<>> \in Seq(Ids)
    BY ConnectorsAssumption DEF Ids
  <2>. QED BY <2>1 DEF Begun
<1>4. /\ r.state = "running" /\ r.op = op /\ r.given = g /\ r.at = 1 /\ r.token = token
      /\ ~r.again /\ r.page = 0 /\ r.listed = <<>>
  OBVIOUS
<1> HIDE DEF r
<1>5. /\ call' \in [Calls -> Begun \cup {Idle}] /\ call'[c] = r
      /\ \A d \in Calls \ {c} : call'[d] = call[d]
  BY <1>1, <1>2, <1>3 DEF TypeOK
<1>6. 1 \in 1 .. Len(Script(c)')
  <2>1. Script(c)' = Method(kind, op, g)
    BY <1>1, <1>4, <1>5 DEF Script
  <2>2. kind \in Platforms /\ op \in Operations /\ g \in Gives
    BY <1>2, ConnectorsAssumption DEF TypeOK, Gives
  <2>3. MethodOk(Method(kind, op, g), kind, op, g)
    BY <2>2, MethodsOk
  <2>4. Method(kind, op, g) \in Seq(Requests) /\ Len(Method(kind, op, g)) > 0
    BY <2>3 DEF MethodOk
  <2>5. Len(Method(kind, op, g)) \in Nat
    BY <2>4, LenProperties
  <2>. QED BY <2>1, <2>4, <2>5
<1>7. \A d \in Calls : call'[d] # Idle => call'[d].at \in 1 .. Len(Script(d)')
  <2> SUFFICES ASSUME NEW d \in Calls, call'[d] # Idle
               PROVE  call'[d].at \in 1 .. Len(Script(d)')
    OBVIOUS
  <2>1. CASE d = c
    BY <1>4, <1>5, <1>6, <2>1
  <2>2. CASE d # c
    BY <1>1, <1>2, <1>5, <2>2 DEF TypeOK, Script
  <2>. QED BY <2>1, <2>2
<1>8. /\ note' \in [Calls -> [wrote : SUBSET Parts, gone : BOOLEAN, steady : BOOLEAN]]
      /\ \A d \in Calls \ {c} : note'[d] = note[d]
  BY <1>1, <1>2 DEF TypeOK
<1>9. TypeOK' /\ StepOf(c)
  BY <1>1, <1>2, <1>5, <1>7, <1>8 DEF TypeOK, StepOf
<1>10. Listed' = Listed /\ InOrder' = InOrder
  BY <1>1 DEF Listed, InOrder
<1>11. WroteOk(c)' /\ IdOk(c)' /\ SeenOk(c)' /\ TokenOk(c)'
  BY <1>0, <1>1, <1>a, <1>4, <1>5 DEF WroteOk, IdOk, SeenOk, TokenOk, Past
<1>12. ListOk(c)'
  <2>1. 0 * Limit = 0 /\ Len(InOrder) \in Nat /\ SubSeq(InOrder, 1, 0) = <<>>
    BY Numbers, InOrderSeq, SubSeqEmpty
  <2>2. call'[c].page * Limit = 0 /\ call'[c].listed = <<>>
    BY <1>4, <1>5, <2>1
  <2>3. call'[c].state # "ok" /\ ~(call'[c].at > 1)
    BY <1>4, <1>5
  <2>. QED BY <1>10, <2>1, <2>2, <2>3 DEF ListOk
<1>13. \A d \in Calls \ {c} : call'[d] # Idle => CallOk(d)'
  BY <1>1, <1>8, <1>9, <1>10, OthersStay
<1>. QED BY <1>9, <1>11, <1>12, <1>13 DEF ConnectorsInv, CallOk

-------------------------------------------------------------------------------
(* The merchant and the platform.                                           *)

\* No call does anything.
LEMMA AllStay ==
    ASSUME ConnectorsInv, call' = call, kind' = kind,
           revoked <= revoked', revoked' \in Nat, ~access => ~access',
           \A d \in Calls : /\ note'[d].wrote = note[d].wrote
                            /\ note[d].gone => note'[d].gone
                            /\ Running(d) /\ call[d].id \in Listed
                               => call[d].id \in Listed' \/ note'[d].gone
                            /\ note'[d].steady => note[d].steady /\ InOrder' = InOrder
    PROVE  \A d \in Calls : call'[d] # Idle => CallOk(d)'
<1> SUFFICES ASSUME NEW d \in Calls, call'[d] # Idle PROVE CallOk(d)'
  OBVIOUS
<1>1. TypeOK /\ call[d] # Idle /\ CallOk(d) /\ call'[d] = call[d]
  BY DEF ConnectorsInv
<1>. QED BY <1>1, Stays

LEMMA CallsTyped ==
    ASSUME TypeOK, call' = call, kind' = kind
    PROVE  /\ call' \in [Calls -> Begun \cup {Idle}]
           /\ \A d \in Calls : call'[d] # Idle => call'[d].at \in 1 .. Len(Script(d)')
BY DEF TypeOK, Script

\* A merchant changes one field.
LEMMA EditTyped ==
    ASSUME NEW l \in Listing, NEW e \in Writers, NEW f \in Parts
    PROVE  (IF f = "images" THEN [l EXCEPT !.images = @ \cup {e}] ELSE [l EXCEPT ![f] = e])
              \in Listing
<1>1. CASE f = "images"
  BY <1>1 DEF Listing
<1>2. CASE f = "price"
  BY <1>2 DEF Listing
<1>3. CASE f = "stock"
  BY <1>3 DEF Listing
<1>4. CASE f = "name"
  BY <1>4 DEF Listing
<1>5. CASE f = "description"
  BY <1>5 DEF Listing
<1>6. CASE f = "live"
  BY <1>6 DEF Listing
<1>. QED BY <1>1, <1>2, <1>3, <1>4, <1>5, <1>6 DEF Parts, Fields

LEMMA EditOk ==
    ASSUME ConnectorsInv, NEW i \in Ids, NEW f \in Edited, Edit(i, f) PROVE ConnectorsInv'
<1> DEFINE l == IF f = "images" THEN [shop[i] EXCEPT !.images = @ \cup {edits'}]
                ELSE [shop[i] EXCEPT ![f] = edits']
<1>1. /\ edits < MaxEdits /\ edits' = edits + 1 /\ i \in Listed
      /\ UNCHANGED <<kind, last, access, revoked, call, faults, note>>
  BY DEF Edit
<1>2. TypeOK
  BY DEF ConnectorsInv
<1>3. edits' \in 0 .. MaxEdits /\ edits' \in Writers
  BY <1>1, <1>2, Numbers DEF TypeOK, Writers
<1>4. shop[i] \in Listing /\ f \in Parts
  BY <1>1, <1>2, ConnectorsAssumption DEF TypeOK, Listed, Parts, Fields
<1>5. l \in Listing
  BY <1>3, <1>4, EditTyped
<1>6. shop' = [shop EXCEPT ![i] = l]
  <2>1. CASE f = "images"
    BY <1>1, <1>2, <2>1 DEF Edit, TypeOK, Listed
  <2>2. CASE f # "images"
    BY <1>1, <1>2, <2>2 DEF Edit, TypeOK, Listed
  <2>. QED BY <2>1, <2>2
<1> HIDE DEF l
<1>7. /\ shop' \in [Ids -> Listing \cup {NoListing}] /\ shop'[i] = l
      /\ \A k \in Ids \ {i} : shop'[k] = shop[k]
  BY <1>2, <1>5, <1>6 DEF TypeOK
<1>8. Listed' = Listed
  BY <1>1, <1>5, <1>7, ListingIsThere DEF Listed
<1>9. InOrder' = InOrder
  BY <1>8 DEF InOrder
<1>10. TypeOK'
  BY <1>1, <1>2, <1>3, <1>7, CallsTyped DEF TypeOK
<1>11. revoked \in Nat
  BY <1>2, Numbers DEF TypeOK
<1>. QED BY <1>1, <1>8, <1>9, <1>10, <1>11, AllStay DEF ConnectorsInv

LEMMA RemoveListingOk ==
    ASSUME ConnectorsInv, NEW i \in Ids, RemoveListing(i) PROVE ConnectorsInv'
<1>1. /\ edits < MaxEdits /\ edits' = edits + 1 /\ shop' = [shop EXCEPT ![i] = NoListing]
      /\ UNCHANGED <<kind, last, access, revoked, call, faults>>
      /\ note' = [d \in Calls |-> [note[d] EXCEPT !.steady = FALSE,
            !.gone = @ \/ (Running(d) /\ call[d].id = i)]]
  BY DEF RemoveListing
<1>2. TypeOK
  BY DEF ConnectorsInv
<1>3. edits' \in 0 .. MaxEdits /\ revoked \in Nat
  <2>1. edits < MaxEdits /\ edits' = edits + 1
    BY <1>1
  <2>. QED BY <1>2, <2>1, Numbers DEF TypeOK
<1>4. /\ shop' \in [Ids -> Listing \cup {NoListing}]
      /\ \A k \in Ids \ {i} : shop'[k] = shop[k]
  BY <1>1, <1>2 DEF TypeOK
<1>5. \A k \in Listed : k # i => k \in Listed'
  BY <1>4 DEF Listed
<1>6. /\ note' \in [Calls -> [wrote : SUBSET Parts, gone : BOOLEAN, steady : BOOLEAN]]
      /\ \A d \in Calls : /\ note'[d].wrote = note[d].wrote /\ ~note'[d].steady
                          /\ note'[d].gone <=> note[d].gone \/ (Running(d) /\ call[d].id = i)
  <2> DEFINE N == [wrote : SUBSET Parts, gone : BOOLEAN, steady : BOOLEAN]
  <2>1. ASSUME NEW d \in Calls
        PROVE  /\ note'[d] \in N /\ note'[d].wrote = note[d].wrote /\ ~note'[d].steady
               /\ note'[d].gone <=> note[d].gone \/ (Running(d) /\ call[d].id = i)
    <3> DEFINE g == note[d].gone \/ (Running(d) /\ call[d].id = i)
    <3>1. note'[d] = [note[d] EXCEPT !.steady = FALSE, !.gone = g]
      BY <1>1
    <3>2. g \in BOOLEAN /\ note[d] \in N
      BY <1>2 DEF TypeOK
    <3>. HIDE DEF g
    <3>3. note'[d] \in N /\ note'[d].wrote = note[d].wrote /\ ~note'[d].steady
          /\ note'[d].gone = g
      BY <3>1, <3>2
    <3>. QED BY <3>3 DEF g
  <2>2. note' \in [Calls -> N]
    <3>1. note' = [d \in Calls |-> note'[d]]
      BY <1>1
    <3>. HIDE DEF N
    <3>. QED BY <2>1, <3>1
  <2>. QED BY <2>1, <2>2
<1>7. TypeOK'
  BY <1>1, <1>2, <1>3, <1>4, <1>6, CallsTyped DEF TypeOK
<1>8. call' = call /\ kind' = kind /\ revoked' = revoked /\ access' = access
  BY <1>1
<1>9. \A d \in Calls : Running(d) /\ call[d].id \in Listed
                         => call[d].id \in Listed' \/ note'[d].gone
  BY <1>5, <1>6
<1>10. \A d \in Calls : call'[d] # Idle => CallOk(d)'
  BY <1>3, <1>6, <1>8, <1>9, AllStay
<1>. QED BY <1>7, <1>10 DEF ConnectorsInv

LEMMA RevokeAccessOk ==
    ASSUME ConnectorsInv, RevokeAccess PROVE ConnectorsInv'
<1>1. /\ edits < MaxEdits /\ edits' = edits + 1 /\ access' = FALSE
      /\ UNCHANGED <<kind, shop, last, revoked, call, faults, note>>
  BY DEF RevokeAccess
<1>2. TypeOK
  BY DEF ConnectorsInv
<1>3. edits' \in 0 .. MaxEdits /\ revoked \in Nat
  BY <1>1, <1>2, Numbers DEF TypeOK
<1>4. Listed' = Listed /\ InOrder' = InOrder
  BY <1>1 DEF Listed, InOrder
<1>5. TypeOK'
  BY <1>1, <1>2, <1>3, CallsTyped DEF TypeOK
<1>. QED BY <1>1, <1>3, <1>4, <1>5, AllStay DEF ConnectorsInv

LEMMA StutterOk ==
    ASSUME ConnectorsInv, UNCHANGED vars PROVE ConnectorsInv'
<1>1. UNCHANGED <<kind, shop, last, access, revoked, call, edits, faults, note>>
  BY DEF vars
<1>2. TypeOK
  BY DEF ConnectorsInv
<1>3. revoked \in Nat
  BY <1>2, Numbers DEF TypeOK
<1>4. Listed' = Listed /\ InOrder' = InOrder
  BY <1>1 DEF Listed, InOrder
<1>5. TypeOK'
  BY <1>1, <1>2, CallsTyped DEF TypeOK
<1>. QED BY <1>1, <1>3, <1>4, <1>5, AllStay DEF ConnectorsInv

LEMMA RevokeTokenOk ==
    ASSUME ConnectorsInv, RevokeToken PROVE ConnectorsInv'
<1>1. /\ revoked < MaxRevoked /\ revoked' = revoked + 1
      /\ call' = [c \in Calls |->
            IF Holds(c) THEN [call[c] EXCEPT !.token = "stale"] ELSE call[c]]
      /\ UNCHANGED <<kind, shop, last, access, edits, faults, note>>
  BY DEF RevokeToken
<1>2. TypeOK
  BY DEF ConnectorsInv
<1>3. revoked \in Nat /\ revoked' \in 0 .. MaxRevoked
  BY <1>1, <1>2, Numbers DEF TypeOK
<1>4. Listed' = Listed /\ InOrder' = InOrder
  BY <1>1 DEF Listed, InOrder
<1>5. ASSUME NEW d \in Calls, Holds(d)
      PROVE  /\ call[d] # Idle /\ call'[d] \in Begun
             /\ call'[d].state = call[d].state /\ call'[d].op = call[d].op
             /\ call'[d].given = call[d].given /\ call'[d].id = call[d].id
             /\ call'[d].at = call[d].at /\ call'[d].seen = call[d].seen
             /\ call'[d].page = call[d].page /\ call'[d].got = call[d].got
             /\ (call'[d].more <=> call[d].more) /\ call'[d].listed = call[d].listed
             /\ call'[d].token = "stale" /\ (call'[d].again <=> call[d].again)
  <2> DEFINE r == [call[d] EXCEPT !.token = "stale"]
  <2>1. call[d] # Idle /\ call'[d] = r
    BY <1>1, <1>5 DEF Holds
  <2>2. call[d] \in Begun
    BY <1>2, <2>1 DEF TypeOK
  <2>3. /\ r \in Begun
        /\ r.state = call[d].state /\ r.op = call[d].op
        /\ r.given = call[d].given /\ r.id = call[d].id
        /\ r.at = call[d].at /\ r.seen = call[d].seen
        /\ r.page = call[d].page /\ r.got = call[d].got
        /\ (r.more <=> call[d].more) /\ r.listed = call[d].listed
        /\ r.token = "stale" /\ (r.again <=> call[d].again)
    BY <2>2 DEF Begun, Tokens
  <2>. QED BY <2>1, <2>3
<1>6. \A d \in Calls : ~Holds(d) => call'[d] = call[d]
  BY <1>1
<1>7. /\ call' \in [Calls -> Begun \cup {Idle}]
      /\ \A d \in Calls : call'[d] # Idle => call'[d].at \in 1 .. Len(Script(d)')
  <2>1. \A d \in Calls : call'[d] \in Begun \cup {Idle}
    BY <1>2, <1>5, <1>6 DEF TypeOK
  <2>2. ASSUME NEW d \in Calls, call'[d] # Idle PROVE call'[d].at \in 1 .. Len(Script(d)')
    <3>1. CASE Holds(d)
      BY <1>1, <1>2, <1>5, <3>1 DEF TypeOK, Script
    <3>2. CASE ~Holds(d)
      BY <1>1, <1>2, <1>6, <2>2, <3>2 DEF TypeOK, Script
    <3>. QED BY <3>1, <3>2
  <2>. QED BY <1>1, <2>1, <2>2
<1>8. TypeOK'
  BY <1>1, <1>2, <1>3, <1>7 DEF TypeOK
<1>9. ASSUME NEW d \in Calls, call'[d] # Idle PROVE CallOk(d)'
  <2>1. CASE ~Holds(d)
    <3>1. /\ call'[d] = call[d] /\ call[d] # Idle /\ CallOk(d)
          /\ revoked <= revoked' /\ revoked' \in Nat
      BY <1>1, <1>3, <1>6, <1>9, <2>1 DEF ConnectorsInv
    <3>. QED BY <1>1, <1>2, <1>4, <3>1, Stays
  <2>2. CASE Holds(d)
    <3>1. CallOk(d)
      BY <1>5, <2>2 DEF ConnectorsInv
    <3>2. Script(d)' = Script(d) /\ NamedBy(d)' = NamedBy(d) /\ Past(d)' = Past(d)
      BY <1>1, <1>5, <2>2 DEF Script, NamedBy, Past
    <3>3. WroteOk(d)' /\ IdOk(d)' /\ SeenOk(d)'
      BY <1>1, <1>4, <1>5, <2>2, <3>1, <3>2 DEF CallOk, WroteOk, IdOk, SeenOk
    <3>4. TokenOk(d)'
      <4>1. call[d].token = "good"
        BY <2>2 DEF Holds
      <4>. QED BY <1>1, <1>3, <1>5, <2>2, <3>1, <4>1 DEF CallOk, TokenOk, AuthReason
    <3>5. ListOk(d)'
      <4>2. PageOf(call[d].page)' = PageOf(call[d].page)
        BY <1>1, <1>4, <1>5, <2>2 DEF PageOf, PageSize
      <4>3. ToldMore(call[d].page, Len(InOrder), Len(call[d].got))'
               <=> ToldMore(call[d].page, Len(InOrder), Len(call[d].got))
        BY <1>1, <1>4, <1>5, <2>2 DEF More, ToldMore
      <4>. QED BY <1>1, <1>4, <1>5, <2>2, <3>1, <4>2, <4>3 DEF CallOk, ListOk, WithinCap
    <3>. QED BY <3>3, <3>4, <3>5 DEF CallOk
  <2>. QED BY <2>1, <2>2
<1>. QED BY <1>8, <1>9 DEF ConnectorsInv

\* At first no call is there.
LEMMA Initially == Init => ConnectorsInv
<1> SUFFICES ASSUME Init PROVE ConnectorsInv
  OBVIOUS
<1>1. /\ kind \in Kinds /\ last \in Sizes /\ access = TRUE /\ revoked = 0 /\ edits = 0 /\ faults = 0
      /\ shop = [i \in Ids |-> IF i <= last THEN Original ELSE NoListing]
      /\ call = [c \in Calls |-> Idle]
      /\ note = [c \in Calls |-> [wrote |-> {}, gone |-> FALSE, steady |-> TRUE]]
  BY DEF Init
<1>2. shop \in [Ids -> Listing \cup {NoListing}]
  BY <1>1, NewListings
<1>3. last \in 0 .. MaxListings
  BY <1>1, ConnectorsAssumption
<1>4. call \in [Calls -> Begun \cup {Idle}] /\ \A c \in Calls : call[c] = Idle
  BY <1>1
<1>5. note \in [Calls -> [wrote : SUBSET Parts, gone : BOOLEAN, steady : BOOLEAN]]
  BY <1>1
<1>6. revoked \in 0 .. MaxRevoked /\ edits \in 0 .. MaxEdits /\ faults \in 0 .. MaxFaults
  BY <1>1, Numbers
<1>7. access \in BOOLEAN
  BY <1>1
<1>. QED BY <1>1, <1>2, <1>3, <1>4, <1>5, <1>6, <1>7 DEF ConnectorsInv, TypeOK

\* The invariant is inductive.
LEMMA EveryStep == ConnectorsInv /\ [Next]_vars => ConnectorsInv'
<1> SUFFICES ASSUME ConnectorsInv, [Next]_vars PROVE ConnectorsInv'
  OBVIOUS
<1>1. ASSUME NEW c \in Calls, NEW op \in Ops, NEW i \in Wanted, NEW g \in SUBSET Optional,
             NEW token \in Tokens, Start(c, op, i, g, token)
      PROVE  ConnectorsInv'
  BY <1>1, StartOk
<1>2. ASSUME NEW c \in Calls, Writes(c) PROVE ConnectorsInv'
  BY <1>2, WritesOk
<1>3. ASSUME NEW c \in Calls, Reads(c) PROVE ConnectorsInv'
  BY <1>3, ReadsOk
<1>4. ASSUME NEW c \in Calls, FindsStock(c) PROVE ConnectorsInv'
  BY <1>4, FindsStockOk
<1>5. ASSUME NEW c \in Calls, NEW told \in BOOLEAN, Lists(c, told) PROVE ConnectorsInv'
  BY <1>5, ListsOk
<1>6. ASSUME NEW c \in Calls, NotFound(c) PROVE ConnectorsInv'
  BY <1>6, NotFoundOk
<1>7. ASSUME NEW c \in Calls, Refused(c) PROVE ConnectorsInv'
  BY <1>7, RefusedOk
<1>8. ASSUME NEW c \in Calls, TimesOut(c) PROVE ConnectorsInv'
  BY <1>8, TimesOutOk
<1>9. ASSUME NEW c \in Calls, Authenticate(c) PROVE ConnectorsInv'
  BY <1>9, AuthenticateOk
<1>10. ASSUME NEW c \in Calls, Reauthenticate(c) PROVE ConnectorsInv'
  BY <1>10, ReauthenticateOk
<1>11. ASSUME NEW c \in Calls, Denied(c) PROVE ConnectorsInv'
  BY <1>11, DeniedOk
<1>12. ASSUME NEW c \in Calls, Retry(c) PROVE ConnectorsInv'
  BY <1>12, RetryOk
<1>13. ASSUME NEW i \in Ids, RemoveListing(i) PROVE ConnectorsInv'
  BY <1>13, RemoveListingOk
<1>14. ASSUME NEW i \in Ids, NEW f \in Edited, Edit(i, f) PROVE ConnectorsInv'
  BY <1>14, EditOk
<1>15. CASE RevokeToken
  BY <1>15, RevokeTokenOk
<1>16. CASE RevokeAccess
  BY <1>16, RevokeAccessOk
<1>17. CASE UNCHANGED vars
  BY <1>17, StutterOk
<1>. QED
  BY <1>1, <1>2, <1>3, <1>4, <1>5, <1>6, <1>7, <1>8, <1>9, <1>10, <1>11, <1>12, <1>13,
     <1>14, <1>15, <1>16, <1>17 DEF Next

(* The inductive invariant holds of every method of every connector, for    *)
(* any calls, faults, revocations, edits and page size.                     *)
THEOREM ConnectorsInvariant == Spec => []ConnectorsInv
<1>1. Init => ConnectorsInv
  BY Initially
<1>2. ConnectorsInv /\ [Next]_vars => ConnectorsInv'
  BY EveryStep
<1>. QED BY <1>1, <1>2, PTL DEF Spec

(* A call is always at a request of its method, holds a token it was given  *)
(* and read listings that were there, and the shop holds whole listings.    *)
THEOREM ConnectorsTyped == Spec => []TypeOK
<1>1. ConnectorsInv => TypeOK
  BY DEF ConnectorsInv
<1>. QED BY <1>1, ConnectorsInvariant, PTL

(* SuccessIsApplied: a method that returned has written every field it      *)
(* names and its platform's payload carries, unless the listing was removed *)
(* meanwhile.                                                               *)
THEOREM SuccessApplied == Spec => []SuccessIsApplied
<1>1. ConnectorsInv => SuccessIsApplied
  BY DEF ConnectorsInv, CallOk, WroteOk, SuccessIsApplied, NamedBy
<1>. QED BY <1>1, ConnectorsInvariant, PTL

(* AuthErrorIsReal: on four platforms a ConnectorAuthError says that the    *)
(* credentials were withdrawn, on Allegro that or an expired token.  One    *)
(* token revoked early never surfaces on Shoper, whose _request gets        *)
(* another one first.                                                       *)
THEOREM AuthErrorsReal == Spec => []AuthErrorIsReal
<1>1. ConnectorsInv => AuthErrorIsReal
  BY DEF ConnectorsInv, CallOk, TokenOk, AuthReason, AuthErrorIsReal
<1>. QED BY <1>1, ConnectorsInvariant, PTL

(* ListsAll: the pages of get_products put together are the shop's          *)
(* listings, each once and in order, by any platform's test for another     *)
(* page, for any number of listings and any page size (up to IdoSell's      *)
(* largest, for IdoSell), when the answers tell the total.                  *)
THEOREM ListingsComplete == Spec => []ListsAll
<1>1. ConnectorsInv => ListsAll
  BY DEF ConnectorsInv, CallOk, ListOk, WithinCap, ListsAll
<1>. QED BY <1>1, ConnectorsInvariant, PTL

-------------------------------------------------------------------------------

\* What a targeted method makes of a listing it writes.
LEMMA WritesBack ==
    ASSUME ConnectorsInv, NEW c \in Calls, Running(c), Apply(c), NEW i \in Ids,
           call[c].op \in Targeted, i \in Listed
    PROVE  /\ \A f \in Fields \ Named(call[c].op, {}) :
                 shop'[i][f] = shop[i][f] \/ PutsBack(c, i, f)
           /\ \/ shop[i].images \subseteq shop'[i].images
              \/ /\ call[c].id = i /\ call[c].seen # NoListing
                 /\ call[c].seen.images \subseteq shop'[i].images
<1> DEFINE r == Request(c)
<1> DEFINE l == shop[i]
<1>1. /\ TypeOK /\ CallOk(c) /\ MethodOk(Script(c), kind, call[c].op, call[c].given)
      /\ call[c].at \in 1 .. Len(Script(c))
  BY Shape DEF ConnectorsInv, Running
<1>2. r.drop = {} /\ r.do \in {"put", "append"}
  <2>1. r.drop = {} /\ r.do # "post"
    BY <1>1 DEF MethodOk, Request
  <2>. QED BY <2>1 DEF Apply
<1>3. shop' = [shop EXCEPT ![call[c].id] = Written(c, @)] /\ call[c].id \in Ids
  BY <1>2 DEF Apply, Listed
<1>4. shop \in [Ids -> Listing \cup {NoListing}]
  BY <1>1 DEF TypeOK
<1>5. CASE call[c].id # i
  BY <1>3, <1>4, <1>5
<1>6. CASE call[c].id = i
  <2>1. shop'[i] = Written(c, l)
    BY <1>3, <1>4, <1>6
  <2>2. ASSUME NEW f \in Fields \ Named(call[c].op, {})
        PROVE  shop'[i][f] = shop[i][f] \/ PutsBack(c, i, f)
    <3>1. f \notin NamedBy(c) /\ f # "images"
      BY DEF Named, NamedBy, Targeted, Fields
    <3>2. Written(c, l)[f] = IF f \in r.set THEN call[c].seen[f] ELSE l[f]
      BY <1>2, <3>1 DEF Written, Fields, NamedBy
    <3>3. CASE f \in r.set
      <4>1. r.do # "append"
        BY <1>1, <3>1, <3>3 DEF MethodOk, Request
      <4>2. call[c].seen # NoListing
        BY <1>1, <1>2, <3>1, <3>3, <4>1, SeenFirst, ListingIsThere
      <4>. QED BY <1>6, <2>1, <3>2, <3>3, <4>2 DEF PutsBack
    <3>. QED BY <2>1, <3>2, <3>3
  <2>3. \/ shop[i].images \subseteq shop'[i].images
        \/ call[c].seen # NoListing /\ call[c].seen.images \subseteq shop'[i].images
    <3>0. call[c].op # "image" => "images" \notin r.set
      BY <1>1 DEF MethodOk, Request
    <3>1. Written(c, l).images = IF "images" \notin r.set THEN l.images
                                 ELSE IF r.do = "append" THEN l.images \cup {c}
                                 ELSE call[c].seen.images \cup {c}
      BY <1>2, <3>0 DEF Written
    <3>2. CASE "images" \in r.set /\ r.do # "append"
      <4>1. call[c].seen # NoListing
        BY <1>1, <1>2, <3>0, <3>2, SeenFirst, ListingIsThere
      <4>. QED BY <2>1, <3>1, <3>2, <4>1
    <3>3. CASE "images" \notin r.set \/ r.do = "append"
      BY <2>1, <3>1, <3>3
    <3>. QED BY <3>2, <3>3
  <2>. QED BY <1>6, <2>2, <2>3
<1>. QED BY <1>5, <1>6

\* No other step of a targeted call touches a listing.
LEMMA SiblingStep ==
    ConnectorsInv /\ [Next]_vars => [\A c \in Calls, i \in Ids : KeepsSiblings(c, i)]_vars
<1> SUFFICES ASSUME ConnectorsInv, Next, NEW c \in Calls, NEW i \in Ids,
                    call[c] # Idle, call'[c] # call[c], call[c].op \in Targeted,
                    i \in Listed, shop'[i] # NoListing
             PROVE  /\ \A f \in Fields \ Named(call[c].op, {}) :
                          shop'[i][f] = shop[i][f] \/ PutsBack(c, i, f)
                    /\ \/ shop[i].images \subseteq shop'[i].images
                       \/ /\ call[c].id = i /\ call[c].seen # NoListing
                          /\ call[c].seen.images \subseteq shop'[i].images
  BY DEF KeepsSiblings
<1>1. \A d \in Calls : \A v : call' = [call EXCEPT ![d] = v] => d = c
  BY DEF ConnectorsInv, TypeOK
<1>2. CASE shop' = shop
  BY <1>2
<1>3. ASSUME NEW d \in Calls, Writes(d) \/ TimesOut(d) PROVE d = c /\ Running(c) /\ Apply(c)
  BY <1>1, <1>3 DEF Writes, TimesOut, Accepted, Advance, Fails
<1>4. ASSUME NEW d \in Calls, Writes(d) \/ TimesOut(d)
      PROVE  Running(c) /\ Apply(c)
  BY <1>3, <1>4
<1>5. ASSUME shop' # shop PROVE \E d \in Calls : Writes(d) \/ TimesOut(d)
  BY <1>5 DEF Next, Start, Reads, FindsStock, Lists, NotFound, Refused, Authenticate,
              Reauthenticate, Denied, Retry, Edit, RemoveListing, RevokeToken, RevokeAccess
<1>. QED BY <1>2, <1>4, <1>5, WritesBack

(* SiblingsKept: update_price, update_stock, publish_offer and upload_image *)
(* clear no field they do not name, on any platform.                        *)
THEOREM SiblingsStay == Spec => SiblingsKept
<1>1. ConnectorsInv /\ [Next]_vars => [\A c \in Calls, i \in Ids : KeepsSiblings(c, i)]_vars
  BY SiblingStep
<1>. QED BY <1>1, ConnectorsInvariant, PTL DEF Spec, SiblingsKept
===============================================================================
