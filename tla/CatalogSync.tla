------------------------------ MODULE CatalogSync ------------------------------
(***************************************************************************)
(* Mirroring one marketplace's catalog.  A sync pages through the listings *)
(* by position, upserts them one transaction at a time under the product's *)
(* sku, and writes the connection's last_error when it is done.  The daily *)
(* dispatch and the merchant's Sync button start syncs that nothing keeps  *)
(* apart, and the merchant changes the catalog while they page through it. *)
(*                                                                         *)
(* The Product, Variant, Offer, Price and Stock of one sku are written in  *)
(* one transaction, the Product first: one row of this model.  The offer's *)
(* status is module ListingPublish's.                                      *)
(***************************************************************************)
EXTENDS Naturals, SequencesExt

CONSTANTS
    Listings,     \* the listings the platform has, had or will have
    Skus,         \* the skus a merchant gives them
    NoSku,        \* a listing without one
    Bad,          \* listings whose fields the database refuses
    Syncs,        \* sync_products runs that may overlap
    PageLimit,    \* page_limit
    MaxAttempts,  \* max_attempts
    MaxEdits,     \* how often the merchant changes the catalog
    MaxFaults,    \* failed page fetches and lost workers
    FirstCatalog, \* the catalog when the connection is made
    FirstSku,     \* and its skus
    Blanks,       \* what a listing may leave out
    FirstBlank,   \* and what each does at first
    Empty,        \* NULL
    NoRow         \* a sku without a Product

\* A listing without a sku gets a synthetic one made of its external id.
Keys == Skus \cup Listings

\* fatal_error, and what it leaves in last_error.
Errors == {"none", "exhausted", "permanent"}

\* The columns by how an upsert writes them.  "name" is always there; "price" (and stock)
\* and "text" (description, ean) only when the marketplace has a value, and "text" not
\* when the row is inserted.
Fields == {"name", "price", "text"}

Optional == {"price", "text"}

\* A value is known by the listing it comes from and by the edit that made it.
Values == (Listings \X (0 .. MaxEdits)) \cup {Empty}

Contents == [Fields -> Values]

Items == [listing : Listings, key : Keys, content : Contents]

Rows == [external : Listings, content : Contents]

ASSUME CatalogAssumption ==
    /\ NoSku \notin Skus
    /\ Skus \cap Listings = {}
    /\ Bad \subseteq Listings
    /\ PageLimit \in Nat \ {0}
    /\ MaxAttempts \in Nat \ {0}
    /\ {MaxEdits, MaxFaults} \subseteq Nat
    /\ FirstCatalog \in Seq(Listings) /\ IsInjective(FirstCatalog)
    /\ FirstSku \in [Listings -> Skus \cup {NoSku}]
    /\ Blanks \subseteq SUBSET Optional
    /\ FirstBlank \in [Listings -> Blanks]
    /\ NoRow \notin Rows
    /\ Empty \notin Listings \X (0 .. MaxEdits)

VARIABLES
    catalog,  \* the platform's listings, in the order it returns them
    sku,      \* the sku each listing has there
    version,  \* the edit its content is of
    blank,    \* the fields it has no value for
    edits,    \* changes the merchant has made
    faults,   \* faults so far
    rows,     \* the mirror: per key the external id and the content it has
    error,    \* the connection's last_error
    sync,     \* the syncs that run
    hist      \* what the properties remember while syncs run

vars == <<catalog, sku, version, blank, edits, faults, rows, error, sync, hist>>

platform == <<catalog, sku, version, blank, edits>>

Idle == [pc |-> "idle"]

Running(s) == sync[s].pc # "idle"

Syncing == \E s \in Syncs : Running(s)

NoHistory == [stayed  |-> [s \in Syncs |-> {}],
              skipped |-> [s \in Syncs |-> FALSE],
              alone   |-> [s \in Syncs |-> TRUE],
              oldest  |-> [l \in Listings |-> 0],
              spared  |-> {},
              errors  |-> {}]

Paging ==
    [pc : {"fetch", "select", "write", "finish"}, at : Nat, more : BOOLEAN,
     tries : 0 .. MaxAttempts - 1, page : {p \in Seq(Items) : Len(p) <= PageLimit},
     row : Rows \cup {NoRow}, failures : SUBSET Listings, fatal : Errors, loaded : Errors]

TypeOK ==
    /\ catalog \in Seq(Listings) /\ IsInjective(catalog)
    /\ sku \in [Listings -> Skus \cup {NoSku}]
    /\ version \in [Listings -> 0 .. MaxEdits]
    /\ blank \in [Listings -> Blanks]
    /\ edits \in 0 .. MaxEdits
    /\ faults \in 0 .. MaxFaults
    /\ rows \in [Keys -> Rows \cup {NoRow}]
    /\ error \in Errors
    /\ sync \in [Syncs -> Paging \cup {Idle}]
    /\ hist \in [stayed : [Syncs -> SUBSET Listings], skipped : [Syncs -> BOOLEAN],
                 alone : [Syncs -> BOOLEAN], oldest : [Listings -> 0 .. MaxEdits],
                 spared : SUBSET (Keys \X Fields), errors : SUBSET Errors]

Init ==
    /\ catalog = FirstCatalog
    /\ sku = FirstSku
    /\ version = [l \in Listings |-> 0]
    /\ blank = FirstBlank
    /\ edits = 0
    /\ faults = 0
    /\ rows = [k \in Keys |-> NoRow]
    /\ error = "none"
    /\ sync = [s \in Syncs |-> Idle]
    /\ hist = NoHistory

-----------------------------------------------------------------------------
(* The platform.  Nothing tells the mirror that the merchant was there.     *)

Listed == Range(catalog)

\* A removal under a page cursor shifts listings nobody fetched below it.
Skips(i) == [s \in Syncs |->
    hist.skipped[s] \/ (Running(s) /\ sync[s].more /\ i <= sync[s].at)]

Forget(l) == [s \in Syncs |-> hist.stayed[s] \ {l}]

MerchantActs == edits < MaxEdits /\ edits' = edits + 1

AddListing(l, i) ==
    /\ MerchantActs
    /\ l \notin Listed
    /\ catalog' = InsertAt(catalog, i, l)
    /\ UNCHANGED <<sku, version, blank, faults, rows, error, sync, hist>>

RemoveListing(i) ==
    /\ MerchantActs
    /\ catalog' = RemoveAt(catalog, i)
    /\ hist' = [hist EXCEPT !.stayed = Forget(catalog[i]), !.skipped = Skips(i)]
    /\ UNCHANGED <<sku, version, blank, faults, rows, error, sync>>

\* A field may be cleared, or filled, with the edit.
EditContent(l, b) ==
    /\ MerchantActs
    /\ l \in Listed
    /\ version' = [version EXCEPT ![l] = @ + 1]
    /\ blank' = [blank EXCEPT ![l] = b]
    /\ UNCHANGED <<catalog, sku, faults, rows, error, sync, hist>>

EditSku(l, k) ==
    /\ MerchantActs
    /\ l \in Listed /\ k # sku[l]
    /\ sku' = [sku EXCEPT ![l] = k]
    /\ hist' = [hist EXCEPT !.stayed = Forget(l)]
    /\ UNCHANGED <<catalog, version, blank, faults, rows, error, sync>>

-----------------------------------------------------------------------------
(* A sync.                                                                  *)

\* _effective_sku
EffectiveSku(l) == IF sku[l] = NoSku THEN l ELSE sku[l]

\* The unit of work loads a column once and updates it only when the value
\* assigned differs from the one it loaded.
Flushed(loaded, assigned, current) == IF assigned = loaded THEN current ELSE assigned

\* _sync_connection: the connection is loaded with the last_error it has.
StartSync(s) ==
    /\ sync[s] = Idle
    /\ sync' = [sync EXCEPT ![s] =
          [pc |-> "fetch", at |-> 0, more |-> TRUE, tries |-> 0, page |-> <<>>,
           row |-> NoRow, failures |-> {}, fatal |-> "none", loaded |-> error]]
    /\ hist' = [hist EXCEPT
          !.stayed[s] = Listed,
          !.skipped[s] = FALSE,
          !.alone = [t \in Syncs |->
              IF t = s THEN ~Syncing ELSE hist.alone[t] /\ ~Running(t)],
          !.oldest = IF Syncing THEN @ ELSE version]
    /\ UNCHANGED <<platform, faults, rows, error>>

Content(l) == [f \in Fields |-> IF f \in blank[l] THEN Empty ELSE <<l, version[l]>>]

Item(l) == [listing |-> l, key |-> EffectiveSku(l), content |-> Content(l)]

PageAt(at) == LET listed == SubSeq(catalog, at + 1, Min({at + PageLimit, Len(catalog)}))
              IN [i \in DOMAIN listed |-> Item(listed[i])]

\* Variant: a page that follows holds more than one listing.
MoreAfter_OffByOne(at) == {at + PageLimit + 1 < Len(catalog)}

\* get_products: a platform that reports its total tells whether a page follows,
\* PrestaShop and IdoSell go on after every full page.
MoreAfter(at) == {at + PageLimit < Len(catalog), at + PageLimit <= Len(catalog)}

\* What the items of a page leave as it is in the mirror.
Omitted(page) ==
    UNION {{page[i].key} \X {f \in Fields : page[i].content[f] = Empty} : i \in DOMAIN page}

AfterItem(page, more) ==
    IF page # <<>> THEN "select" ELSE IF more THEN "fetch" ELSE "finish"

\* Variant: every fetch is made with the first cursor.
FetchPage_SameCursor(s) ==
    /\ sync[s].pc = "fetch"
    /\ \E more \in MoreAfter(sync[s].at) :
          LET page == PageAt(sync[s].at) IN
          /\ hist' = [hist EXCEPT !.spared = @ \cup Omitted(page)]
          /\ sync' = [sync EXCEPT ![s].page = page,
                                  ![s].more = more,
                                  ![s].tries = 0,
                                  ![s].pc = AfterItem(page, more)]
    /\ UNCHANGED <<platform, faults, rows, error>>

FetchPage(s) ==
    /\ sync[s].pc = "fetch"
    /\ \E more \in MoreAfter(sync[s].at) :
          LET page == PageAt(sync[s].at) IN
          /\ hist' = [hist EXCEPT !.spared = @ \cup Omitted(page)]
          /\ sync' = [sync EXCEPT ![s].page = page,
                                  ![s].more = more,
                                  ![s].at = @ + PageLimit,
                                  ![s].tries = 0,
                                  ![s].pc = AfterItem(page, more)]
    /\ UNCHANGED <<platform, faults, rows, error>>

Fault == faults < MaxFaults /\ faults' = faults + 1

\* Variant: one attempt too many.
TransientError_OneMore(s) ==
    /\ sync[s].pc = "fetch"
    /\ Fault
    /\ IF sync[s].tries + 1 > MaxAttempts
       THEN sync' = [sync EXCEPT ![s].fatal = "exhausted", ![s].pc = "finish"]
       ELSE sync' = [sync EXCEPT ![s].tries = @ + 1]
    /\ UNCHANGED <<platform, rows, error, hist>>

\* retry_with_backoff re-raises at the last attempt.
TransientError(s) ==
    /\ sync[s].pc = "fetch"
    /\ Fault
    /\ IF sync[s].tries + 1 >= MaxAttempts
       THEN sync' = [sync EXCEPT ![s].fatal = "exhausted", ![s].pc = "finish"]
       ELSE sync' = [sync EXCEPT ![s].tries = @ + 1]
    /\ UNCHANGED <<platform, rows, error, hist>>

PermanentError(s) ==
    /\ sync[s].pc = "fetch"
    /\ Fault
    /\ sync' = [sync EXCEPT ![s].fatal = "permanent", ![s].pc = "finish"]
    /\ UNCHANGED <<platform, rows, error, hist>>

\* _upsert_product up to its first write: what the selects find under the sku.
SelectRow(s) ==
    /\ sync[s].pc = "select"
    /\ sync' = [sync EXCEPT ![s].row = rows[Head(sync[s].page).key],
                            ![s].pc = "write"]
    /\ UNCHANGED <<platform, faults, rows, error, hist>>

\* Variant: inserts without looking for the row of an earlier sync.
Refused_Blind(s) ==
    LET item == Head(sync[s].page) IN
    item.listing \in Bad \/ rows[item.key] # NoRow

\* The savepoint fails on a field the database refuses, and on a unique constraint when
\* another sync has inserted the row, or its price, since the select.
Refused(s) ==
    LET item == Head(sync[s].page)
        old  == sync[s].row
        now  == rows[item.key]
    IN \/ item.listing \in Bad
       \/ old = NoRow /\ now # NoRow
       \/ /\ old # NoRow
          /\ old.content["price"] = Empty /\ item.content["price"] # Empty
          /\ now.content["price"] # Empty

NewRow(item) ==
    [external |-> item.listing, content |-> [item.content EXCEPT !["text"] = Empty]]

Upserted(s) ==
    LET item == Head(sync[s].page)
        old  == sync[s].row
        now  == rows[item.key]
    IN IF old = NoRow
       THEN NewRow(item)
       ELSE [external |-> Flushed(old.external, item.listing, now.external),
             content  |-> [f \in Fields |->
                 IF item.content[f] = Empty THEN now.content[f]
                 ELSE Flushed(old.content[f], item.content[f], now.content[f])]]

\* Variant: a refused item ends the sync.
WriteRow_OrStop(s) ==
    /\ sync[s].pc = "write"
    /\ LET item == Head(sync[s].page)
           rest == Tail(sync[s].page)
       IN IF Refused(s)
          THEN /\ sync' = [sync EXCEPT ![s].pc = "finish"]
               /\ UNCHANGED rows
          ELSE /\ sync' = [sync EXCEPT ![s].page = rest,
                                       ![s].row = NoRow,
                                       ![s].pc = AfterItem(rest, sync[s].more)]
               /\ rows' = [rows EXCEPT ![item.key] = Upserted(s)]
    /\ UNCHANGED <<platform, faults, error, hist>>

\* A refused item is recorded and the page goes on.
WriteRow(s) ==
    /\ sync[s].pc = "write"
    /\ LET item == Head(sync[s].page)
           rest == Tail(sync[s].page)
       IN /\ sync' = [sync EXCEPT
                ![s].page = rest,
                ![s].row = NoRow,
                ![s].failures = IF Refused(s) THEN @ \cup {item.listing} ELSE @,
                ![s].pc = AfterItem(rest, sync[s].more)]
          /\ rows' = IF Refused(s) THEN rows
                     ELSE [rows EXCEPT ![item.key] = Upserted(s)]
          /\ hist' = IF Refused(s) \/ sync[s].row # NoRow THEN hist
                     ELSE [hist EXCEPT !.spared = @ \cup {<<item.key, "text">>}]
    /\ UNCHANGED <<platform, faults, error>>

\* Nothing is remembered once no sync runs.
Over(s, errors) ==
    IF \E t \in Syncs \ {s} : Running(t)
    THEN [hist EXCEPT !.stayed[s] = {}, !.skipped[s] = FALSE, !.alone[s] = TRUE,
                      !.errors = @ \cup errors]
    ELSE NoHistory

\* Variant: a sync that found the platform well leaves the old error.
FinishSync_KeepsError(s) ==
    /\ sync[s].pc = "finish"
    /\ error' = IF sync[s].fatal = "none" THEN error ELSE sync[s].fatal
    /\ hist' = Over(s, {sync[s].fatal})
    /\ sync' = [sync EXCEPT ![s] = Idle]
    /\ UNCHANGED <<platform, faults, rows>>

FinishSync(s) ==
    /\ sync[s].pc = "finish"
    /\ error' = Flushed(sync[s].loaded, sync[s].fatal, error)
    /\ hist' = Over(s, {sync[s].fatal})
    /\ sync' = [sync EXCEPT ![s] = Idle]
    /\ UNCHANGED <<platform, faults, rows>>

\* The worker dies: what was committed stays, the task is not redelivered.
LoseSync(s) ==
    /\ Running(s)
    /\ Fault
    /\ sync' = [sync EXCEPT ![s] = Idle]
    /\ hist' = Over(s, {})
    /\ UNCHANGED <<platform, rows, error>>

-----------------------------------------------------------------------------

Next ==
    \/ \E l \in Listings, i \in 1 .. Len(catalog) + 1 : AddListing(l, i)
    \/ \E i \in 1 .. Len(catalog) : RemoveListing(i)
    \/ \E l \in Listings, b \in Blanks : EditContent(l, b)
    \/ \E l \in Listings, k \in Skus \cup {NoSku} : EditSku(l, k)
    \/ \E s \in Syncs : StartSync(s)
    \/ \E s \in Syncs : FetchPage(s)
    \/ \E s \in Syncs : TransientError(s)
    \/ \E s \in Syncs : PermanentError(s)
    \/ \E s \in Syncs : SelectRow(s)
    \/ \E s \in Syncs : WriteRow(s)
    \/ \E s \in Syncs : FinishSync(s)
    \/ \E s \in Syncs : LoseSync(s)

Spec == Init /\ [][Next]_vars

\* A worker keeps running what it has taken, and beat starts a sync every day.
Step(s) == FetchPage(s) \/ SelectRow(s) \/ WriteRow(s) \/ FinishSync(s)

Fairness == \A s \in Syncs : WF_vars(StartSync(s)) /\ WF_vars(Step(s))

FairSpec == Spec /\ Fairness

-----------------------------------------------------------------------------
(* Properties.                                                              *)

\* A step in which sync_products returns.
Finishes(s) == sync[s].pc = "finish" /\ sync'[s] = Idle /\ faults' = faults

\* A sync that reaches its end, with other syncs beside it, items refused, and
\* listings added and edited under its cursor, has mirrored every listing that
\* stayed where it was, field by field with a value no older than the first of the
\* overlapping syncs: an item refused as a duplicate was written by the sync that
\* won.  Only a listing the database refuses, and a removal under the cursor, are
\* excused; and of the fields, one that an overlapping sync was sent without a value,
\* which keeps what the mirror had, and the text of a row inserted meanwhile.
MirrorsWhatStayed ==
    [][\A s \in Syncs :
          Finishes(s) /\ sync[s].fatal = "none" /\ ~hist.skipped[s]
          => \A l \in hist.stayed[s] \ Bad :
                LET key == EffectiveSku(l)
                IN /\ rows[key] # NoRow
                   /\ \A f \in {g \in Fields : <<key, g>> \notin hist.spared} :
                         LET value == rows[key].content[f]
                         IN value # Empty /\ value[2] >= hist.oldest[value[1]]]_vars

\* A listing is lost to the unique sku only when two syncs overlap: a sync that
\* runs alone refuses nothing the database would have taken.
AloneLosesNothing ==
    \A s \in Syncs :
        Running(s) /\ hist.alone[s] => sync[s].failures \subseteq Bad

\* What a sync leaves in last_error is its own outcome or that of a sync that
\* returned while syncs overlapped, although each writes the column only when its outcome differs
\* from the value it loaded: an old error never outlives the sync that found the
\* platform well.
OutcomeIsRecent ==
    [][\A s \in Syncs :
          Finishes(s) => error' \in hist.errors \cup {sync[s].fatal}]_vars

\* A sync that starts ends, while another pages beside it and the merchant changes
\* the catalog under both: the cursor moves past every page.
SyncsEnd == \A s \in Syncs : Running(s) ~> ~Running(s)

\* Once the merchant stops and the faults with him, the daily sync brings every
\* field a listing has to the row of its sku, as it is there now, whatever the
\* syncs that overlapped the edits had left.  A field he cleared stays as it was.
MirrorConverges ==
    <>[](\A l \in Listed \ Bad : \A f \in Fields \ blank[l] :
            \E m \in Listed :
                /\ EffectiveSku(m) = EffectiveSku(l)
                /\ rows[EffectiveSku(l)] # NoRow
                /\ rows[EffectiveSku(l)].content[f] = <<m, version[m]>>)
===============================================================================
