--------------------------- MODULE CatalogSyncProofs ---------------------------
(***************************************************************************)
(* Proofs about CatalogSync, for any catalog, page size and number of      *)
(* overlapping syncs.  A sync that pages by position while the merchant    *)
(* changes the catalog, and while others write the same rows, is described *)
(* by where each listing that stayed is: behind the cursor, on the page in *)
(* hand, or in the mirror with values no older than the syncs.             *)
(***************************************************************************)
EXTENDS CatalogSync, SequenceTheorems, TLAPS

\* A value no older than the first of the syncs that overlap.
Recent(value) == value # Empty /\ value[2] >= hist.oldest[value[1]]

\* Every field of the row is that recent but for those that are spared.
Fresh(k) ==
    /\ rows[k] # NoRow
    /\ \A f \in Fields : <<k, f>> \notin hist.spared => Recent(rows[k].content[f])

\* So is every field of an item; what it leaves out is spared.
Sent(item) ==
    \A f \in Fields :
        /\ item.content[f] = Empty => <<item.key, f>> \in hist.spared
        /\ item.content[f] # Empty => Recent(item.content[f])

\* What an upsert found is still there, or another sync has brought what is fresh.
Found(k, row) ==
    \/ Fresh(k)
    \/ row = NoRow /\ rows[k] = NoRow
    \/ row # NoRow /\ rows[k] # NoRow /\ rows[k].content = row.content

PageOk(s) ==
    /\ sync[s].pc \in {"select", "write"} <=> sync[s].page # <<>>
    /\ sync[s].pc = "fetch" => sync[s].more
    /\ sync[s].pc = "finish" /\ sync[s].fatal = "none" => ~sync[s].more
    /\ \A i \in DOMAIN sync[s].page : Sent(sync[s].page[i])
    /\ sync[s].pc = "write" => Found(sync[s].page[1].key, sync[s].row)

\* A listing that stayed is still to come, on the page, or mirrored.
Behind(s, l) == sync[s].more /\ \E i \in DOMAIN catalog : i > sync[s].at /\ catalog[i] = l

OnPage(s, l) ==
    \E i \in DOMAIN sync[s].page :
        sync[s].page[i].listing = l /\ sync[s].page[i].key = EffectiveSku(l)

Covers(s) ==
    ~hist.skipped[s] =>
        \A l \in hist.stayed[s] \ Bad :
            Behind(s, l) \/ OnPage(s, l) \/ Fresh(EffectiveSku(l))

\* Nobody else writes beside a sync that runs alone.
AloneOk(s) ==
    hist.alone[s] =>
        /\ \A t \in Syncs : Running(t) => t = s
        /\ sync[s].failures \subseteq Bad
        /\ sync[s].pc = "write" => sync[s].row = rows[sync[s].page[1].key]

\* The error that is stored is the one a sync started with, or came since.
ErrorOk(s) == error \in hist.errors \cup {sync[s].loaded}

SyncOk(s) == PageOk(s) /\ Covers(s) /\ AloneOk(s) /\ ErrorOk(s)

CatalogInv ==
    /\ TypeOK
    /\ \A l \in Listings : hist.oldest[l] <= version[l] /\ version[l] <= edits
    /\ \A s \in Syncs : Running(s) => SyncOk(s)

-------------------------------------------------------------------------------
(* Sequences.                                                               *)

LEMMA Inserted ==
    ASSUME NEW S, NEW q \in Seq(S), NEW i \in 1 .. Len(q) + 1, NEW e \in S
    PROVE  LET r == InsertAt(q, i, e)
           IN /\ r \in Seq(S) /\ Len(r) = Len(q) + 1
              /\ r[i] = e
              /\ \A j \in 1 .. Len(q) : r[IF j < i THEN j ELSE j + 1] = q[j]
              /\ \A j \in 1 .. Len(r) : j # i => r[j] = q[IF j < i THEN j ELSE j - 1]
<1> DEFINE a == SubSeq(q, 1, i - 1)
           b == SubSeq(q, i, Len(q))
           r == (a \o <<e>>) \o b
<1>1. /\ a \in Seq(S) /\ Len(a) = i - 1 /\ \A j \in 1 .. i - 1 : a[j] = q[j]
      /\ b \in Seq(S) /\ Len(b) = Len(q) - i + 1
      /\ \A j \in 1 .. Len(q) - i + 1 : b[j] = q[i + j - 1]
  OBVIOUS
<1>2. i \in Nat /\ Len(q) \in Nat
  OBVIOUS
<1> HIDE DEF a, b
<1>3. /\ r \in Seq(S) /\ Len(r) = Len(q) + 1 /\ r[i] = e
      /\ \A j \in 1 .. i - 1 : r[j] = a[j]
      /\ \A j \in i + 1 .. Len(q) + 1 : r[j] = b[j - i]
  <2> DEFINE p == a \o <<e>>
  <2>1. /\ p \in Seq(S) /\ Len(p) = i /\ p[i] = e
        /\ \A j \in 1 .. i - 1 : p[j] = a[j]
    <3>1. /\ a \in Seq(S) /\ <<e>> \in Seq(S) /\ Len(a) = i - 1 /\ Len(<<e>>) = 1
          /\ <<e>>[1] = e
      BY <1>1
    <3>2. /\ p \in Seq(S) /\ Len(p) = Len(a) + Len(<<e>>)
          /\ \A j \in 1 .. Len(a) + Len(<<e>>) :
                p[j] = IF j <= Len(a) THEN a[j] ELSE <<e>>[j - Len(a)]
      BY <3>1, ConcatProperties
    <3> HIDE DEF p
    <3>. QED BY <1>2, <3>1, <3>2
  <2> HIDE DEF p
  <2>2. r = p \o b
    BY DEF p
  <2> HIDE DEF r
  <2>3. b \in Seq(S) /\ Len(b) = Len(q) - i + 1 /\ Len(b) \in Nat
    BY <1>1, <1>2
  <2>4. /\ r \in Seq(S) /\ Len(r) = Len(p) + Len(b)
        /\ \A j \in 1 .. Len(p) + Len(b) :
              r[j] = IF j <= Len(p) THEN p[j] ELSE b[j - Len(p)]
    BY <2>1, <2>2, <2>3, ConcatProperties
  <2>5. ASSUME NEW j \in i + 1 .. Len(q) + 1
        PROVE  r[j] = b[j - i]
    <3>1. j \in 1 .. Len(p) + Len(b) /\ ~(j <= Len(p)) /\ j - Len(p) = j - i
      BY <1>2, <2>1, <2>3
    <3>. QED BY <2>4, <3>1
  <2>6. ASSUME NEW j \in 1 .. i
        PROVE  r[j] = p[j]
    <3>1. j \in 1 .. Len(p) + Len(b) /\ j <= Len(p)
      BY <1>2, <2>1, <2>3
    <3>. QED BY <2>4, <3>1
  <2>. QED BY <1>2, <2>1, <2>3, <2>4, <2>5, <2>6
<1> HIDE DEF r
<1>4. \A j \in 1 .. Len(q) + 1 : j # i => r[j] = q[IF j < i THEN j ELSE j - 1]
  BY <1>1, <1>2, <1>3
<1>5. \A j \in 1 .. Len(q) : r[IF j < i THEN j ELSE j + 1] = q[j]
  BY <1>1, <1>2, <1>3
<1>. QED BY <1>3, <1>4, <1>5 DEF InsertAt, r, a, b

LEMMA Removed ==
    ASSUME NEW S, NEW q \in Seq(S), NEW i \in 1 .. Len(q)
    PROVE  LET r == RemoveAt(q, i)
           IN /\ r \in Seq(S) /\ Len(r) = Len(q) - 1
              /\ \A j \in 1 .. Len(r) : r[j] = q[IF j < i THEN j ELSE j + 1]
<1> DEFINE a == SubSeq(q, 1, i - 1)
           b == SubSeq(q, i + 1, Len(q))
           r == a \o b
<1>1. /\ a \in Seq(S) /\ Len(a) = i - 1 /\ \A j \in 1 .. i - 1 : a[j] = q[j]
      /\ b \in Seq(S) /\ Len(b) = Len(q) - i
      /\ \A j \in 1 .. Len(q) - i : b[j] = q[i + j]
  OBVIOUS
<1>2. i \in Nat /\ Len(q) \in Nat
  OBVIOUS
<1> HIDE DEF a, b
<1>3. /\ r \in Seq(S) /\ Len(r) = Len(q) - 1
      /\ \A j \in 1 .. i - 1 : r[j] = a[j]
      /\ \A j \in i .. Len(q) - 1 : r[j] = b[j - i + 1]
  <2>1. a \in Seq(S) /\ b \in Seq(S) /\ Len(a) \in Nat /\ Len(b) \in Nat
    BY <1>1
  <2>2. /\ r \in Seq(S) /\ Len(r) = Len(a) + Len(b)
        /\ \A j \in 1 .. Len(a) + Len(b) :
              r[j] = IF j <= Len(a) THEN a[j] ELSE b[j - Len(a)]
    BY <2>1, ConcatProperties
  <2> HIDE DEF r
  <2>3. ASSUME NEW j \in i .. Len(q) - 1
        PROVE  r[j] = b[j - i + 1]
    <3>1. j \in 1 .. Len(a) + Len(b) /\ ~(j <= Len(a)) /\ j - Len(a) = j - i + 1
      BY <1>1, <1>2
    <3>. QED BY <2>2, <3>1
  <2>4. ASSUME NEW j \in 1 .. i - 1
        PROVE  r[j] = a[j]
    <3>1. j \in 1 .. Len(a) + Len(b) /\ j <= Len(a)
      BY <1>1, <1>2, <2>1
    <3>. QED BY <2>2, <3>1
  <2>5. Len(r) = Len(q) - 1
    BY <1>1, <1>2, <2>2
  <2>. QED BY <2>2, <2>3, <2>4, <2>5
<1> HIDE DEF r
<1>4. ASSUME NEW j \in 1 .. Len(q) - 1
      PROVE  r[j] = q[IF j < i THEN j ELSE j + 1]
  <2>1. CASE j < i
    <3>1. j \in 1 .. i - 1
      BY <1>2, <2>1
    <3>. QED BY <1>1, <1>3, <2>1, <3>1
  <2>2. CASE ~(j < i)
    <3>1. j \in i .. Len(q) - 1 /\ j - i + 1 \in 1 .. Len(q) - i /\ i + (j - i + 1) = j + 1
      BY <1>2, <2>2
    <3>. QED BY <1>1, <1>3, <2>2, <3>1
  <2>. QED BY <2>1, <2>2
<1>. QED BY <1>3, <1>4 DEF RemoveAt, r, a, b

LEMMA Tails ==
    ASSUME NEW S, NEW q \in Seq(S), q # <<>>
    PROVE  /\ Head(q) = q[1] /\ q[1] \in S /\ Len(q) \in Nat \ {0}
           /\ Tail(q) \in Seq(S) /\ Len(Tail(q)) = Len(q) - 1
           /\ \A j \in 1 .. Len(q) - 1 : Tail(q)[j] = q[j + 1]
  OBVIOUS

LEMMA Smaller ==
    ASSUME NEW a \in Nat, NEW b \in Nat
    PROVE  Min({a, b}) = IF a <= b THEN a ELSE b
<1> DEFINE m == IF a <= b THEN a ELSE b
<1>1. m \in {a, b} /\ \A y \in {a, b} : m <= y
  OBVIOUS
<1>2. \A x \in {a, b} : (\A y \in {a, b} : x <= y) => x = m
  BY <1>1
<1> HIDE DEF m
<1>. QED BY <1>1, <1>2 DEF Min

-------------------------------------------------------------------------------
(* The merchant.                                                            *)

LEMMA RunningPaging ==
    ASSUME TypeOK, NEW s \in Syncs
    PROVE  /\ Running(s) => sync[s] \in Paging
           /\ ~Running(s) => sync[s] = Idle
  BY DEF TypeOK, Running, Paging, Idle

\* The merchant's changes leave all alone that a sync relies on but where the
\* listings that stayed are.
LEMMA MerchantStep ==
    ASSUME CatalogInv, TypeOK', edits' = edits + 1,
           UNCHANGED <<faults, rows, error, sync>>,
           hist'.oldest = hist.oldest, hist'.errors = hist.errors, hist'.alone = hist.alone,
           hist'.spared = hist.spared,
           \A l \in Listings : version'[l] \in {version[l], version[l] + 1},
           \A s \in Syncs : Running(s) => Covers(s)'
    PROVE  CatalogInv'
<1>1. ASSUME NEW s \in Syncs, Running(s)
      PROVE  PageOk(s)' /\ AloneOk(s)' /\ ErrorOk(s)'
  <2>1. PageOk(s) /\ AloneOk(s) /\ ErrorOk(s)
    BY <1>1 DEF CatalogInv, SyncOk
  <2>2. \A k : Fresh(k)' <=> Fresh(k)
    BY DEF Fresh, Recent
  <2>3. \A item : Sent(item)' <=> Sent(item)
    BY DEF Sent, Recent
  <2>4. PageOk(s)'
    BY <2>1, <2>2, <2>3 DEF PageOk, Found
  <2>5. AloneOk(s)'
    BY <2>1 DEF AloneOk, Running
  <2>6. ErrorOk(s)'
    BY <2>1 DEF ErrorOk
  <2>. QED BY <2>4, <2>5, <2>6
<1>2. \A l \in Listings : version[l] \in Nat /\ hist.oldest[l] \in Nat /\ edits \in Nat
  BY DEF CatalogInv, TypeOK
<1>3. \A l \in Listings : hist'.oldest[l] <= version'[l] /\ version'[l] <= edits'
  BY <1>2 DEF CatalogInv
<1>. QED BY <1>1, <1>3 DEF CatalogInv, SyncOk, Running

LEMMA Edits ==
    ASSUME TypeOK, MerchantActs
    PROVE  edits' \in 0 .. MaxEdits /\ edits' = edits + 1
  BY CatalogAssumption DEF TypeOK, MerchantActs

LEMMA AddListingStep ==
    ASSUME CatalogInv, NEW l \in Listings, NEW i \in 1 .. Len(catalog) + 1, AddListing(l, i)
    PROVE  CatalogInv'
<1> USE DEF AddListing
<1>1. catalog \in Seq(Listings) /\ IsInjective(catalog) /\ l \notin Range(catalog)
  BY DEF CatalogInv, TypeOK, Listed
<1>2. /\ catalog' \in Seq(Listings) /\ Len(catalog') = Len(catalog) + 1
      /\ catalog'[i] = l
      /\ \A j \in 1 .. Len(catalog) : catalog'[IF j < i THEN j ELSE j + 1] = catalog[j]
      /\ \A j \in 1 .. Len(catalog') : j # i => catalog'[j] = catalog[IF j < i THEN j ELSE j - 1]
  BY <1>1, Inserted
<1>3. Len(catalog) \in Nat /\ DOMAIN catalog = 1 .. Len(catalog)
      /\ DOMAIN catalog' = 1 .. Len(catalog')
  BY <1>1, <1>2
<1>4. IsInjective(catalog')
  <2> DEFINE was(j) == IF j < i THEN j ELSE j - 1
  <2>1. \A j \in DOMAIN catalog' :
            j # i => was(j) \in DOMAIN catalog /\ catalog'[j] = catalog[was(j)]
    BY <1>2, <1>3
  <2>2. \A j \in DOMAIN catalog' : j # i => catalog'[j] # l
    BY <1>1, <2>1 DEF Range
  <2>3. ASSUME NEW a \in DOMAIN catalog', NEW b \in DOMAIN catalog', catalog'[a] = catalog'[b]
        PROVE  a = b
    <3>1. CASE a = i \/ b = i
      BY <1>2, <2>2, <2>3, <3>1
    <3>2. CASE a # i /\ b # i
      <4>1. was(a) = was(b)
        BY <1>1, <2>1, <2>3, <3>2 DEF IsInjective
      <4>. QED BY <1>3, <3>2, <4>1
    <3>. QED BY <3>1, <3>2
  <2>. QED BY <2>3 DEF IsInjective
<1>5. TypeOK'
  BY <1>2, <1>4, Edits DEF CatalogInv, TypeOK
<1>6. ASSUME NEW s \in Syncs, Running(s)
      PROVE  Covers(s)'
  <2>1. sync[s].at \in Nat
    BY <1>6, RunningPaging DEF CatalogInv, Paging
  <2>2. \A m : Behind(s, m) => Behind(s, m)'
    <3>1. ASSUME NEW m, NEW j \in DOMAIN catalog, j > sync[s].at, catalog[j] = m
          PROVE  \E k \in DOMAIN catalog' : k > sync[s].at /\ catalog'[k] = m
      <4> DEFINE k == IF j < i THEN j ELSE j + 1
      <4>1. k \in DOMAIN catalog' /\ k > sync[s].at
        BY <1>2, <1>3, <2>1, <3>1
      <4>2. catalog'[k] = m
        BY <1>2, <1>3, <3>1
      <4>. QED BY <4>1, <4>2
    <3>. QED BY <3>1 DEF Behind
  <2>3. Covers(s)
    BY <1>6 DEF CatalogInv, SyncOk
  <2>. QED BY <2>2, <2>3 DEF Covers, OnPage, EffectiveSku, Fresh, Recent
<1>. QED BY <1>5, <1>6, Edits, MerchantStep DEF CatalogInv

\* A removal below a cursor moves listings to where nobody looks again: skipped.
LEMMA RemoveListingStep ==
    ASSUME CatalogInv, NEW i \in 1 .. Len(catalog), RemoveListing(i)
    PROVE  CatalogInv'
<1> USE DEF RemoveListing
<1> DEFINE gone == catalog[i]
<1>1. catalog \in Seq(Listings) /\ IsInjective(catalog) /\ gone \in Listings
  BY DEF CatalogInv, TypeOK
<1>2. /\ catalog' \in Seq(Listings) /\ Len(catalog') = Len(catalog) - 1
      /\ \A j \in 1 .. Len(catalog') : catalog'[j] = catalog[IF j < i THEN j ELSE j + 1]
  BY <1>1, Removed
<1>3. Len(catalog) \in Nat /\ DOMAIN catalog = 1 .. Len(catalog)
      /\ DOMAIN catalog' = 1 .. Len(catalog')
  BY <1>1, <1>2
<1>4. IsInjective(catalog')
  <2> DEFINE was(j) == IF j < i THEN j ELSE j + 1
  <2>1. \A j \in DOMAIN catalog' : was(j) \in DOMAIN catalog /\ catalog'[j] = catalog[was(j)]
    BY <1>2, <1>3
  <2>2. ASSUME NEW a \in DOMAIN catalog', NEW b \in DOMAIN catalog', catalog'[a] = catalog'[b]
        PROVE  a = b
    <3>1. was(a) = was(b)
      BY <1>1, <2>1, <2>2 DEF IsInjective
    <3>. QED BY <1>3, <3>1
  <2>. QED BY <2>2 DEF IsInjective
<1> HIDE DEF gone
<1>5. /\ hist'.oldest = hist.oldest /\ hist'.errors = hist.errors /\ hist'.alone = hist.alone
      /\ hist'.spared = hist.spared
      /\ hist'.stayed = [s \in Syncs |-> hist.stayed[s] \ {gone}]
      /\ hist'.skipped = [s \in Syncs |-> hist.skipped[s]
                            \/ (Running(s) /\ sync[s].more /\ i <= sync[s].at)]
      /\ hist \in [stayed : [Syncs -> SUBSET Listings], skipped : [Syncs -> BOOLEAN],
                   alone : [Syncs -> BOOLEAN], oldest : [Listings -> 0 .. MaxEdits],
                   spared : SUBSET (Keys \X Fields), errors : SUBSET Errors]
  BY DEF CatalogInv, TypeOK, Forget, Skips, gone
<1>6. \A s \in Syncs : Running(s) => sync[s] \in Paging
  BY RunningPaging DEF CatalogInv
<1>7. TypeOK'
  <2>1. hist'.stayed \in [Syncs -> SUBSET Listings]
    BY <1>5
  <2>2. hist'.skipped \in [Syncs -> BOOLEAN]
    BY <1>5, <1>6 DEF Paging
  <2>3. hist' \in [stayed : [Syncs -> SUBSET Listings], skipped : [Syncs -> BOOLEAN],
                   alone : [Syncs -> BOOLEAN], oldest : [Listings -> 0 .. MaxEdits],
                   spared : SUBSET (Keys \X Fields), errors : SUBSET Errors]
    BY <1>5, <2>1, <2>2
  <2>. QED BY <1>2, <1>4, <2>3, Edits DEF CatalogInv, TypeOK
<1>8. ASSUME NEW s \in Syncs, Running(s)
      PROVE  Covers(s)'
  <2>1. sync[s].at \in Nat /\ sync[s].more \in BOOLEAN
    BY <1>6, <1>8 DEF Paging
  <2>2. ASSUME NEW m, Behind(s, m), m # gone, ~hist'.skipped[s]
        PROVE  Behind(s, m)'
    <3>1. sync[s].more /\ i > sync[s].at
      <4>1. sync[s].more
        BY <2>2 DEF Behind
      <4>2. ~(i <= sync[s].at)
        BY <1>5, <1>8, <2>2, <4>1
      <4>. QED BY <1>3, <2>1, <4>1, <4>2
    <3>2. PICK j \in DOMAIN catalog : j > sync[s].at /\ catalog[j] = m
      BY <2>2 DEF Behind
    <3>3. j # i
      BY <2>2, <3>2 DEF gone
    <3> DEFINE k == IF j < i THEN j ELSE j - 1
    <3>4. k \in DOMAIN catalog' /\ k > sync[s].at
      BY <1>2, <1>3, <2>1, <3>1, <3>2, <3>3
    <3>5. catalog'[k] = m
      BY <1>2, <1>3, <3>2, <3>3, <3>4
    <3>. QED BY <3>1, <3>4, <3>5 DEF Behind
  <2>3. Covers(s) /\ (hist.skipped[s] => hist'.skipped[s])
    BY <1>5, <1>8 DEF CatalogInv, SyncOk
  <2>4. hist'.stayed[s] = hist.stayed[s] \ {gone}
    BY <1>5
  <2>. QED BY <1>5, <2>2, <2>3, <2>4 DEF Covers, OnPage, EffectiveSku, Fresh, Recent
<1>. QED BY <1>5, <1>7, <1>8, Edits, MerchantStep DEF CatalogInv

LEMMA EditContentStep ==
    ASSUME CatalogInv, NEW l \in Listings, NEW b \in Blanks, EditContent(l, b)
    PROVE  CatalogInv'
<1> USE DEF EditContent
<1>1. edits' \in 0 .. MaxEdits /\ edits' = edits + 1
  BY Edits DEF CatalogInv
<1>2. version \in [Listings -> 0 .. MaxEdits] /\ version[l] <= edits
  BY DEF CatalogInv, TypeOK
<1>3. version[l] + 1 \in 0 .. MaxEdits
  <2>1. version[l] \in Nat /\ edits \in Nat /\ MaxEdits \in Nat
    BY <1>2, CatalogAssumption DEF CatalogInv, TypeOK
  <2>2. edits + 1 <= MaxEdits
    BY <1>1
  <2>. QED BY <1>2, <2>1, <2>2
<1>4. /\ version' \in [Listings -> 0 .. MaxEdits]
      /\ \A m \in Listings : version'[m] \in {version[m], version[m] + 1}
  BY <1>2, <1>3
<1>5. TypeOK'
  <2>1. blank' \in [Listings -> Blanks]
    BY DEF CatalogInv, TypeOK
  <2>. QED BY <1>1, <1>4, <2>1 DEF CatalogInv, TypeOK
<1>6. ASSUME NEW s \in Syncs, Running(s)
      PROVE  Covers(s)'
  BY <1>6 DEF CatalogInv, SyncOk, Covers, Behind, OnPage, EffectiveSku, Fresh, Recent
<1>. QED BY <1>1, <1>4, <1>5, <1>6, MerchantStep

LEMMA EditSkuStep ==
    ASSUME CatalogInv, NEW l \in Listings, NEW k \in Skus \cup {NoSku}, EditSku(l, k)
    PROVE  CatalogInv'
<1> USE DEF EditSku
<1>1. /\ hist'.oldest = hist.oldest /\ hist'.errors = hist.errors /\ hist'.alone = hist.alone
      /\ hist'.spared = hist.spared
      /\ hist'.stayed = [s \in Syncs |-> hist.stayed[s] \ {l}]
      /\ hist'.skipped = hist.skipped
      /\ hist' \in [stayed : [Syncs -> SUBSET Listings], skipped : [Syncs -> BOOLEAN],
                    alone : [Syncs -> BOOLEAN], oldest : [Listings -> 0 .. MaxEdits],
                    spared : SUBSET (Keys \X Fields), errors : SUBSET Errors]
  BY DEF CatalogInv, TypeOK, Forget
<1>2. TypeOK'
  BY <1>1, Edits DEF CatalogInv, TypeOK
<1>3. \A m \in Listings : m # l => EffectiveSku(m)' = EffectiveSku(m)
  BY DEF EffectiveSku, CatalogInv, TypeOK
<1>4. ASSUME NEW s \in Syncs, Running(s)
      PROVE  Covers(s)'
  <2>1. Covers(s) /\ hist.stayed[s] \subseteq Listings
    BY <1>4 DEF CatalogInv, SyncOk, TypeOK
  <2>2. hist'.stayed[s] = hist.stayed[s] \ {l}
    BY <1>1
  <2>3. ASSUME NEW m \in hist'.stayed[s] \ Bad, ~hist'.skipped[s]
        PROVE  Behind(s, m)' \/ OnPage(s, m)' \/ Fresh(EffectiveSku(m))'
    <3>1. m \in Listings /\ EffectiveSku(m)' = EffectiveSku(m)
      BY <1>3, <2>1, <2>2, <2>3
    <3>2. Behind(s, m) \/ OnPage(s, m) \/ Fresh(EffectiveSku(m))
      BY <1>1, <2>1, <2>2, <2>3 DEF Covers
    <3>3. Behind(s, m) => Behind(s, m)'
      BY DEF Behind
    <3>4. OnPage(s, m) => OnPage(s, m)'
      BY <3>1 DEF OnPage
    <3>5. Fresh(EffectiveSku(m)) => Fresh(EffectiveSku(m))'
      BY <1>1, <3>1 DEF Fresh, Recent
    <3>. QED BY <3>2, <3>3, <3>4, <3>5
  <2>. QED BY <2>3 DEF Covers
<1>. QED BY <1>1, <1>2, <1>4, Edits, MerchantStep DEF CatalogInv

-------------------------------------------------------------------------------
(* The sync.                                                                *)

\* What a step of one sync may change of what is remembered: more may be spared.
Remembers ==
    /\ hist'.stayed = hist.stayed /\ hist'.skipped = hist.skipped
    /\ hist'.alone = hist.alone /\ hist'.oldest = hist.oldest /\ hist'.errors = hist.errors
    /\ hist.spared \subseteq hist'.spared

\* A row that was fresh and stays as it is stays fresh.
LEMMA StaysFresh ==
    ASSUME Remembers, NEW k, rows'[k] = rows[k], Fresh(k)
    PROVE  Fresh(k)'
  BY DEF Remembers, Fresh, Recent

\* What a step of one sync has to keep for the invariant: its own part of it,
\* and every row that is no older than the syncs.
LEMMA SyncStep ==
    ASSUME CatalogInv, TypeOK', NEW s \in Syncs, Running(s), SyncOk(s)',
           UNCHANGED <<catalog, sku, version, blank, edits, error>>, Remembers,
           \A t \in Syncs \ {s} : sync'[t] = sync[t],
           \A k \in Keys : Fresh(k) => Fresh(k)',
           \A k \in Keys : rows'[k] = rows[k] \/ Fresh(k)'
    PROVE  CatalogInv'
<1>1. ASSUME NEW t \in Syncs \ {s}, Running(t)'
      PROVE  SyncOk(t)'
  <2>1. sync'[t] = sync[t] /\ Running(t) /\ SyncOk(t)
    BY <1>1 DEF CatalogInv, Running
  <2>2. sync[t] \in Paging
    BY <2>1, RunningPaging DEF CatalogInv
  <2>3. PageOk(t)'
    <3>1. \A k \in Keys : \A row : Found(k, row) => Found(k, row)'
      BY DEF Found, Fresh
    <3>2. sync[t].pc = "write" => sync[t].page[1].key \in Keys
      <4>1. sync[t].pc = "write" => sync[t].page # <<>>
        BY <2>1 DEF SyncOk, PageOk
      <4>2. sync[t].page \in Seq(Items)
        BY <2>2 DEF Paging
      <4>3. sync[t].pc = "write" => sync[t].page[1] \in Items
        BY <4>1, <4>2, Tails
      <4>. QED BY <4>3 DEF Items
    <3>3. \A i \in DOMAIN sync[t].page : Sent(sync[t].page[i])'
      <4>1. \A i \in DOMAIN sync[t].page : Sent(sync[t].page[i])
        BY <2>1 DEF SyncOk, PageOk
      <4>. QED BY <2>1, <4>1 DEF Sent, Recent, Remembers
    <3>. QED BY <2>1, <3>1, <3>2, <3>3 DEF SyncOk, PageOk
  <2>4. Covers(t)'
    <3>1. hist.stayed[t] \subseteq Listings /\ hist'.stayed[t] = hist.stayed[t]
          /\ hist'.skipped[t] = hist.skipped[t]
      BY DEF CatalogInv, TypeOK, Remembers
    <3>2. \A l \in Listings : EffectiveSku(l) \in Keys /\ EffectiveSku(l)' = EffectiveSku(l)
      BY DEF CatalogInv, TypeOK, EffectiveSku, Keys
    <3>3. \A l \in Listings : Fresh(EffectiveSku(l)) => Fresh(EffectiveSku(l))'
      BY <3>2 DEF Fresh, Recent
    <3>4. \A l : Behind(t, l)' = Behind(t, l)
      BY <2>1 DEF Behind
    <3>5. \A l \in Listings : OnPage(t, l) => OnPage(t, l)'
      BY <2>1, <3>2 DEF OnPage
    <3>6. Covers(t)
      BY <2>1 DEF SyncOk
    <3>. QED BY <3>1, <3>3, <3>4, <3>5, <3>6 DEF Covers
  <2>5. AloneOk(t)'
    BY <2>1 DEF SyncOk, AloneOk, Remembers
  <2>6. ErrorOk(t)'
    BY <2>1 DEF SyncOk, ErrorOk, Remembers
  <2>. QED BY <2>3, <2>4, <2>5, <2>6 DEF SyncOk
<1>. QED BY <1>1 DEF CatalogInv, Remembers

LEMMA Sequence ==
    ASSUME NEW S, NEW n \in Nat, NEW f \in [1 .. n -> S]
    PROVE  f \in Seq(S) /\ Len(f) = n
  OBVIOUS

\* A page holds the listings the platform has at its positions, as they are.
LEMMA Page ==
    ASSUME CatalogInv, NEW at \in Nat
    PROVE  /\ PageAt(at) \in Seq(Items) /\ Len(PageAt(at)) <= PageLimit
           /\ DOMAIN PageAt(at) = {j \in 1 .. PageLimit : at + j <= Len(catalog)}
           /\ \A j \in DOMAIN PageAt(at) : PageAt(at)[j] = Item(catalog[at + j])
<1>1. catalog \in Seq(Listings) /\ Len(catalog) \in Nat /\ PageLimit \in Nat
  BY CatalogAssumption DEF CatalogInv, TypeOK
<1> DEFINE m == Min({at + PageLimit, Len(catalog)})
           listed == SubSeq(catalog, at + 1, m)
           n == IF at <= m THEN m - at ELSE 0
<1>2. m = IF at + PageLimit <= Len(catalog) THEN at + PageLimit ELSE Len(catalog)
  BY <1>1, Smaller
<1> HIDE DEF m
<1>3. n \in Nat /\ n <= PageLimit
      /\ 1 .. n = {j \in 1 .. PageLimit : at + j <= Len(catalog)}
  BY <1>1, <1>2
<1>4. listed \in Seq(Listings) /\ DOMAIN listed = 1 .. n
      /\ \A j \in 1 .. n : listed[j] = catalog[at + j]
  BY <1>1, <1>2
<1> HIDE DEF listed, n
<1>5. \A l \in Listings : Item(l) \in Items
  <2>1. \A l \in Listings : EffectiveSku(l) \in Keys /\ <<l, version[l]>> \in Values
    BY DEF EffectiveSku, Keys, Values, CatalogInv, TypeOK
  <2>2. \A l \in Listings : Content(l) \in Contents
    BY <2>1 DEF Content, Contents, Values
  <2>. QED BY <2>1, <2>2 DEF Item, Items
<1>6. PageAt(at) = [j \in 1 .. n |-> Item(catalog[at + j])]
  <2>1. PageAt(at) = [j \in DOMAIN listed |-> Item(listed[j])]
    BY DEF PageAt, listed, m
  <2>2. \A j \in 1 .. n : Item(listed[j]) = Item(catalog[at + j])
    BY <1>4
  <2>. QED BY <1>4, <2>1, <2>2
<1>7. ASSUME NEW j \in 1 .. n
      PROVE  Item(catalog[at + j]) \in Items
  <2>1. at + j \in 1 .. Len(catalog)
    <3>1. j \in {k \in 1 .. PageLimit : at + k <= Len(catalog)}
      BY <1>3
    <3>. QED BY <1>1, <3>1
  <2>2. catalog[at + j] \in Listings
    BY <1>1, <2>1
  <2>. QED BY <1>5, <2>2
<1>8. PageAt(at) \in [1 .. n -> Items]
  BY <1>6, <1>7
<1>9. PageAt(at) \in Seq(Items) /\ Len(PageAt(at)) = n
  BY <1>3, <1>8, Sequence
<1>. QED BY <1>3, <1>6, <1>8, <1>9

LEMMA FetchPageStep ==
    ASSUME CatalogInv, NEW s \in Syncs, FetchPage(s)
    PROVE  CatalogInv'
<1> USE DEF FetchPage
<1> DEFINE at == sync[s].at
           page == PageAt(at)
<1>0. /\ hist' = [hist EXCEPT !.spared = @ \cup Omitted(page)]
      /\ UNCHANGED <<catalog, sku, version, blank, edits, error, rows, faults>>
  BY DEF platform
<1>1. /\ sync[s] \in Paging /\ Running(s) /\ SyncOk(s) /\ sync[s].pc = "fetch"
      /\ sync[s].page = <<>> /\ sync[s].more
  BY RunningPaging DEF CatalogInv, Running, SyncOk, PageOk
<1>2. at \in Nat /\ PageLimit \in Nat \ {0} /\ catalog \in Seq(Listings) /\ Len(catalog) \in Nat
  BY <1>1, CatalogAssumption DEF CatalogInv, TypeOK, Paging
<1>3. /\ page \in Seq(Items) /\ Len(page) <= PageLimit
      /\ DOMAIN page = {j \in 1 .. PageLimit : at + j <= Len(catalog)}
      /\ \A j \in DOMAIN page : page[j] = Item(catalog[at + j])
  BY <1>2, Page
<1> HIDE DEF page
<1>4. PICK more \in MoreAfter(at) :
        sync' = [sync EXCEPT ![s].page = page, ![s].more = more, ![s].at = @ + PageLimit,
                             ![s].tries = 0, ![s].pc = AfterItem(page, more)]
  BY DEF page
<1>5. more \in BOOLEAN /\ (at + PageLimit < Len(catalog) => more)
  <2>1. more = (at + PageLimit < Len(catalog)) \/ more = (at + PageLimit <= Len(catalog))
    BY ONLY <1>4, Zenon DEF MoreAfter
  <2> DEFINE less == at + PageLimit < Len(catalog)
             most == at + PageLimit <= Len(catalog)
  <2>2. less \in BOOLEAN /\ most \in BOOLEAN /\ (less => most)
    BY <1>2
  <2> HIDE DEF less, most
  <2>3. more = less \/ more = most
    BY <2>1 DEF less, most
  <2>4. more \in BOOLEAN /\ (less => more)
    BY ONLY <2>2, <2>3, Zenon
  <2>. QED BY <2>4 DEF less
<1>6. /\ sync'[s].page = page /\ sync'[s].more = more /\ sync'[s].at = at + PageLimit
      /\ sync'[s].tries = 0 /\ sync'[s].pc = AfterItem(page, more)
      /\ sync'[s].row = sync[s].row /\ sync'[s].failures = sync[s].failures
      /\ sync'[s].fatal = sync[s].fatal /\ sync'[s].loaded = sync[s].loaded
      /\ \A t \in Syncs \ {s} : sync'[t] = sync[t]
  BY <1>1, <1>4 DEF CatalogInv, TypeOK, Paging
<1>7. AfterItem(page, more) \in {"fetch", "select", "finish"}
      /\ (AfterItem(page, more) = "select" <=> page # <<>>)
      /\ (AfterItem(page, more) = "fetch" => more)
      /\ (AfterItem(page, more) = "finish" => ~more)
  BY <1>5 DEF AfterItem
<1>8. TypeOK'
  <2>1. 0 \in 0 .. MaxAttempts - 1
    BY CatalogAssumption
  <2>2. sync'[s] \in Paging
    <3>1. sync[s] \in [pc : {"fetch", "select", "write", "finish"}, at : Nat, more : BOOLEAN,
              tries : 0 .. MaxAttempts - 1, page : {p \in Seq(Items) : Len(p) <= PageLimit},
              row : Rows \cup {NoRow}, failures : SUBSET Listings, fatal : Errors,
              loaded : Errors]
      BY <1>1 DEF Paging
    <3>2. sync'[s] = [sync[s] EXCEPT !.page = page, !.more = more, !.at = at + PageLimit,
                                     !.tries = 0, !.pc = AfterItem(page, more)]
      BY <1>4 DEF CatalogInv, TypeOK
    <3>3. at + PageLimit \in Nat
      BY <1>2
    <3>. QED BY <1>3, <1>5, <1>7, <2>1, <3>1, <3>2, <3>3 DEF Paging
  <2>3. sync' \in [Syncs -> Paging \cup {Idle}]
    BY <1>4, <1>6, <2>2 DEF CatalogInv, TypeOK
  <2>4. Omitted(page) \in SUBSET (Keys \X Fields)
    <3>1. \A j \in DOMAIN page : page[j] \in Items
      <4>1. page \in Seq(Items)
        BY <1>3
      <4>2. DOMAIN page = 1 .. Len(page)
        BY ONLY <4>1
      <4>. QED BY ONLY <4>1, <4>2, ElementOfSeq
    <3>2. \A j \in DOMAIN page : page[j].key \in Keys
      BY <3>1 DEF Items
    <3>. QED BY <3>2 DEF Omitted
  <2>. QED BY <1>0, <2>3, <2>4 DEF CatalogInv, TypeOK
<1>9. PageOk(s)'
  <2>1. ASSUME NEW j \in DOMAIN page
        PROVE  \A f \in Fields :
                 /\ page[j].content[f] = Empty => <<page[j].key, f>> \in hist'.spared
                 /\ page[j].content[f] # Empty =>
                        page[j].content[f][2] >= hist'.oldest[page[j].content[f][1]]
    <3>1. catalog[at + j] \in Listings
      BY <1>2, <1>3
    <3> DEFINE l == catalog[at + j]
    <3>2. page[j].content = Content(l)
      <4>1. page[j] = Item(catalog[at + j])
        BY <1>3
      <4>. QED BY <4>1 DEF Item
    <3>3. version[l] \in 0 .. MaxEdits /\ hist.oldest[l] \in Nat /\ hist.oldest[l] <= version[l]
      BY <3>1 DEF CatalogInv, TypeOK
    <3> HIDE DEF l
    <3>4. hist'.oldest = hist.oldest /\ hist'.spared = hist.spared \cup Omitted(page)
      BY <1>0 DEF CatalogInv, TypeOK
    <3>5. ASSUME NEW f \in Fields
          PROVE  /\ page[j].content[f] = Empty => <<page[j].key, f>> \in Omitted(page)
                 /\ page[j].content[f] # Empty => page[j].content[f] = <<l, version[l]>>
      BY <2>1, <3>2 DEF Omitted, Content
    <3>6. ASSUME NEW f \in Fields, page[j].content[f] # Empty
          PROVE  page[j].content[f][2] >= hist'.oldest[page[j].content[f][1]]
      <4>1. page[j].content[f] = <<l, version[l]>>
        BY <3>5, <3>6
      <4>. QED BY <3>3, <3>4, <4>1
    <3>. QED BY <3>4, <3>5, <3>6
  <2>2. \A i \in DOMAIN sync'[s].page : Sent(sync[s].page[i])'
    BY <1>6, <2>1 DEF Sent, Recent
  <2>. QED BY <1>6, <1>7, <2>2 DEF PageOk
<1>13. Remembers
  BY <1>0 DEF Remembers, CatalogInv, TypeOK
<1>10. Covers(s)'
  <2>1. ASSUME NEW l \in hist.stayed[s] \ Bad, ~hist.skipped[s]
        PROVE  Behind(s, l)' \/ OnPage(s, l)' \/ Fresh(EffectiveSku(l))'
    <3>1. Behind(s, l) \/ Fresh(EffectiveSku(l))
      <4>1. ~OnPage(s, l)
        BY <1>1 DEF OnPage
      <4>. QED BY <1>1, <2>1, <4>1 DEF SyncOk, Covers
    <3>2. CASE Fresh(EffectiveSku(l))
      <4>1. EffectiveSku(l)' = EffectiveSku(l) /\ rows' = rows
        BY <1>0 DEF EffectiveSku
      <4>2. \A k : Fresh(k) => Fresh(k)'
        BY <1>0, <1>13, StaysFresh
      <4>. QED BY <3>2, <4>1, <4>2
    <3>3. CASE Behind(s, l)
      <4>1. PICK i \in DOMAIN catalog : i > at /\ catalog[i] = l
        BY <3>3 DEF Behind
      <4>2. i \in 1 .. Len(catalog) /\ i \in Nat
        BY <1>2, <4>1
      <4>3. CASE i <= at + PageLimit
        <5> DEFINE j == i - at
        <5>1. j \in DOMAIN page /\ at + j = i
          BY <1>2, <1>3, <4>1, <4>2, <4>3
        <5>2. page[j] = Item(l)
          BY <1>3, <4>1, <5>1
        <5>3. page[j].listing = l /\ page[j].key = EffectiveSku(l)
          BY <5>2 DEF Item
        <5>4. EffectiveSku(l)' = EffectiveSku(l)
          BY DEF EffectiveSku, platform
        <5> HIDE DEF j
        <5>. QED BY <1>6, <5>1, <5>3, <5>4 DEF OnPage
      <4>4. CASE ~(i <= at + PageLimit)
        <5>1. more /\ i > at + PageLimit
          BY <1>2, <1>5, <4>2, <4>4
        <5>. QED BY <1>6, <4>1, <5>1 DEF Behind, platform
      <4>. QED BY <4>3, <4>4
    <3>. QED BY <3>1, <3>2, <3>3
  <2>. QED BY <1>13, <2>1 DEF Covers, Remembers
<1>11. AloneOk(s)'
  <2>1. sync'[s].pc # "write"
    BY <1>6, <1>7
  <2>2. \A t \in Syncs : Running(t)' => t = s \/ Running(t)
    BY <1>6 DEF Running
  <2>. QED BY <1>1, <1>6, <1>13, <2>1, <2>2 DEF SyncOk, AloneOk, Remembers
<1>12. ErrorOk(s)'
  BY <1>0, <1>1, <1>6, <1>13 DEF SyncOk, ErrorOk, Remembers
<1>14. \A k \in Keys : Fresh(k) => Fresh(k)'
  BY <1>0, <1>13, StaysFresh
<1>. QED BY <1>0, <1>1, <1>6, <1>8, <1>9, <1>10, <1>11, <1>12, <1>13, <1>14, SyncStep DEF SyncOk

\* A step that changes neither the rows nor where the sync is covers what it did.
LEMMA SameView ==
    ASSUME NEW s \in Syncs, Covers(s), UNCHANGED <<catalog, sku, hist, rows>>,
           sync'[s].page = sync[s].page, sync'[s].more = sync[s].more, sync'[s].at = sync[s].at
    PROVE  Covers(s)'
<1>1. \A l : Behind(s, l)' = Behind(s, l)
  BY DEF Behind
<1>2. \A l : OnPage(s, l)' = OnPage(s, l)
  BY DEF OnPage, EffectiveSku
<1>3. \A l : Fresh(EffectiveSku(l))' = Fresh(EffectiveSku(l))
  BY DEF Fresh, Recent, EffectiveSku
<1>. QED BY <1>1, <1>2, <1>3 DEF Covers

Selecting(p, row) == [p EXCEPT !.row = row, !.pc = "write"]

LEMMA Selected ==
    ASSUME NEW p \in Paging, NEW row \in Rows \cup {NoRow}
    PROVE  LET q == Selecting(p, row)
           IN /\ q \in Paging
              /\ q.pc = "write" /\ q.row = row
              /\ q.page = p.page /\ q.more = p.more /\ q.at = p.at /\ q.fatal = p.fatal
              /\ q.failures = p.failures /\ q.loaded = p.loaded
  BY DEF Paging, Selecting

\* A failed fetch is tried again, or ends the sync with an error.
LEMMA FailedFetch ==
    ASSUME CatalogInv, NEW s \in Syncs, sync[s].pc = "fetch", Fault,
           UNCHANGED <<platform, rows, error, hist>>,
           NEW tries \in 0 .. MaxAttempts - 1, NEW fatal \in Errors,
           NEW pc \in {"fetch", "finish"}, pc = "finish" => fatal # "none",
           sync' = [sync EXCEPT ![s].tries = tries, ![s].fatal = fatal, ![s].pc = pc]
    PROVE  CatalogInv'
<1>1. /\ sync[s] \in Paging /\ Running(s) /\ SyncOk(s)
      /\ sync[s].page = <<>> /\ sync[s].more
  BY RunningPaging DEF CatalogInv, Running, SyncOk, PageOk
<1>2. UNCHANGED <<catalog, sku, version, blank, edits, error, hist, rows>>
  BY DEF platform
<1>3. /\ sync'[s] = [sync[s] EXCEPT !.tries = tries, !.fatal = fatal, !.pc = pc]
      /\ \A t \in Syncs \ {s} : sync'[t] = sync[t]
  BY DEF CatalogInv, TypeOK
<1>4. /\ sync'[s] \in Paging
      /\ sync'[s].page = <<>> /\ sync'[s].more = sync[s].more /\ sync'[s].at = sync[s].at
      /\ sync'[s].pc = pc /\ sync'[s].fatal = fatal /\ sync'[s].row = sync[s].row
      /\ sync'[s].failures = sync[s].failures /\ sync'[s].loaded = sync[s].loaded
  <2> DEFINE q == [sync[s] EXCEPT !.tries = tries, !.fatal = fatal, !.pc = pc]
  <2>1. /\ q \in Paging
        /\ q.pc = pc /\ q.fatal = fatal
        /\ q.page = sync[s].page /\ q.more = sync[s].more /\ q.at = sync[s].at
        /\ q.row = sync[s].row
        /\ q.failures = sync[s].failures /\ q.loaded = sync[s].loaded
    <3>1. tries \in 0 .. MaxAttempts - 1 /\ fatal \in Errors /\ pc \in {"fetch", "finish"}
      OBVIOUS
    <3>2. sync[s] \in Paging
      BY <1>1
    <3>. QED BY ONLY <3>1, <3>2 DEF Paging
  <2>2. sync'[s] = q
    BY <1>3
  <2> HIDE DEF q
  <2>. QED BY <1>1, <2>1, <2>2
<1>5. TypeOK'
  <2>1. sync' \in [Syncs -> Paging \cup {Idle}]
    BY <1>3, <1>4 DEF CatalogInv, TypeOK
  <2>2. faults' \in 0 .. MaxFaults
    BY CatalogAssumption DEF CatalogInv, TypeOK, Fault
  <2>. QED BY <1>2, <2>1, <2>2 DEF CatalogInv, TypeOK
<1>6. PageOk(s)'
  <2>1. sync'[s].page = <<>> /\ DOMAIN sync'[s].page = {} /\ sync'[s].more
    <3>1. sync'[s].page = <<>>
      BY <1>4
    <3>0. DOMAIN <<>> = {}
      OBVIOUS
    <3>2. sync'[s].more
      BY <1>1, <1>4, Zenon
    <3>. QED BY ONLY <3>0, <3>1, <3>2
  <2>2. sync'[s].pc \in {"fetch", "finish"} /\ (sync'[s].pc = "finish" => sync'[s].fatal # "none")
    BY <1>4
  <2>. QED BY <2>1, <2>2 DEF PageOk
<1>7. Covers(s)'
  BY <1>1, <1>2, <1>4, SameView DEF SyncOk
<1>8. AloneOk(s)'
  <2>1. \A t \in Syncs : Running(t)' => t = s \/ Running(t)
    BY <1>3 DEF Running
  <2>. QED BY <1>1, <1>2, <1>4, <2>1 DEF SyncOk, AloneOk
<1>9. ErrorOk(s)'
  BY <1>1, <1>2, <1>4 DEF SyncOk, ErrorOk
<1>10. Remembers
  BY <1>2 DEF Remembers
<1>11. \A k \in Keys : Fresh(k) => Fresh(k)'
  BY <1>2, <1>10, StaysFresh
<1>. QED BY <1>1, <1>2, <1>3, <1>5, <1>6, <1>7, <1>8, <1>9, <1>10, <1>11, SyncStep DEF SyncOk

LEMMA TransientErrorStep ==
    ASSUME CatalogInv, NEW s \in Syncs, TransientError(s)
    PROVE  CatalogInv'
<1> USE DEF TransientError
<1>1. /\ sync \in [Syncs -> Paging \cup {Idle}] /\ sync[s] \in Paging
  BY RunningPaging DEF CatalogInv, TypeOK, Running
<1>2. /\ sync[s].tries \in 0 .. MaxAttempts - 1 /\ sync[s].fatal \in Errors
      /\ sync[s].pc = "fetch"
  BY <1>1 DEF Paging
<1>3. CASE sync[s].tries + 1 >= MaxAttempts
  <2>1. sync' = [sync EXCEPT ![s].tries = sync[s].tries, ![s].fatal = "exhausted",
                             ![s].pc = "finish"]
    BY <1>1, <1>3 DEF Paging
  <2>2. "exhausted" \in Errors /\ "exhausted" # "none"
    BY DEF Errors
  <2>. QED BY <1>2, <2>1, <2>2, FailedFetch
<1>4. CASE ~(sync[s].tries + 1 >= MaxAttempts)
  <2>1. sync' = [sync EXCEPT ![s].tries = sync[s].tries + 1, ![s].fatal = sync[s].fatal,
                             ![s].pc = "fetch"]
    <3> DEFINE q == [sync[s] EXCEPT !.tries = sync[s].tries + 1]
               r == [sync[s] EXCEPT !.tries = sync[s].tries + 1, !.fatal = sync[s].fatal,
                                    !.pc = "fetch"]
    <3>1. q = r
      BY <1>1, <1>2 DEF Paging
    <3>2. sync' = [sync EXCEPT ![s] = q]
      BY <1>4
    <3>3. sync' = [sync EXCEPT ![s] = r]
      BY ONLY <3>1, <3>2
    <3>. QED BY ONLY <3>3
  <2>2. sync[s].tries + 1 \in 0 .. MaxAttempts - 1
    BY <1>2, <1>4, CatalogAssumption
  <2>. QED BY <1>2, <2>1, <2>2, FailedFetch
<1>. QED BY <1>3, <1>4

LEMMA PermanentErrorStep ==
    ASSUME CatalogInv, NEW s \in Syncs, PermanentError(s)
    PROVE  CatalogInv'
<1> USE DEF PermanentError
<1>1. /\ sync \in [Syncs -> Paging \cup {Idle}] /\ sync[s] \in Paging
  BY RunningPaging DEF CatalogInv, TypeOK, Running
<1>2. sync[s].tries \in 0 .. MaxAttempts - 1
  BY <1>1 DEF Paging
<1>3. sync' = [sync EXCEPT ![s].tries = sync[s].tries, ![s].fatal = "permanent",
                           ![s].pc = "finish"]
  BY <1>1 DEF Paging
<1>4. "permanent" \in Errors /\ "permanent" # "none"
  BY DEF Errors
<1>. QED BY <1>2, <1>3, <1>4, FailedFetch

LEMMA SelectRowStep ==
    ASSUME CatalogInv, NEW s \in Syncs, SelectRow(s)
    PROVE  CatalogInv'
<1> USE DEF SelectRow
<1>1. /\ sync[s] \in Paging /\ Running(s) /\ SyncOk(s)
      /\ sync[s].page # <<>> /\ sync[s].page \in Seq(Items)
  BY RunningPaging DEF CatalogInv, Running, SyncOk, PageOk, Paging
<1>2. Head(sync[s].page) = sync[s].page[1] /\ sync[s].page[1].key \in Keys
  <2>1. Head(sync[s].page) = sync[s].page[1] /\ sync[s].page[1] \in Items
    BY <1>1, Tails
  <2>. QED BY <2>1 DEF Items
<1> DEFINE row == rows[sync[s].page[1].key]
<1>3. row \in Rows \cup {NoRow}
  BY <1>2 DEF CatalogInv, TypeOK
<1> HIDE DEF row
<1>4. UNCHANGED <<catalog, sku, version, blank, edits, error, hist, rows, faults>>
  BY DEF platform
<1>5. /\ sync'[s] = [sync[s] EXCEPT !.row = row, !.pc = "write"]
      /\ \A t \in Syncs \ {s} : sync'[t] = sync[t]
  BY <1>2 DEF CatalogInv, TypeOK, row
<1>6. /\ sync'[s] \in Paging
      /\ sync'[s].page = sync[s].page /\ sync'[s].more = sync[s].more
      /\ sync'[s].at = sync[s].at /\ sync'[s].pc = "write" /\ sync'[s].row = row
      /\ sync'[s].fatal = sync[s].fatal
      /\ sync'[s].failures = sync[s].failures /\ sync'[s].loaded = sync[s].loaded
  <2> DEFINE q == Selecting(sync[s], row)
  <2>1. /\ q \in Paging
        /\ q.pc = "write" /\ q.row = row
        /\ q.page = sync[s].page /\ q.more = sync[s].more /\ q.at = sync[s].at
        /\ q.fatal = sync[s].fatal
        /\ q.failures = sync[s].failures /\ q.loaded = sync[s].loaded
    <3>1. sync[s] \in Paging /\ row \in Rows \cup {NoRow}
      BY <1>1, <1>3
    <3>. HIDE DEF Paging
    <3>. QED BY <3>1, Selected
  <2>2. sync'[s] = q
    BY <1>5 DEF Selecting
  <2> HIDE DEF q
  <2>. QED BY <2>1, <2>2
<1>7. TypeOK'
  <2>1. sync' \in [Syncs -> Paging \cup {Idle}]
    BY <1>5, <1>6 DEF CatalogInv, TypeOK
  <2>. QED BY <1>4, <2>1 DEF CatalogInv, TypeOK
<1>13. Remembers
  BY <1>4 DEF Remembers
<1>8. PageOk(s)'
  <2>1. Found(sync[s].page[1].key, row)
    BY DEF Found, row
  <2>2. \A i \in DOMAIN sync'[s].page : Sent(sync[s].page[i])'
    BY <1>1, <1>4, <1>6 DEF SyncOk, PageOk, Sent, Recent
  <2>3. Found(sync[s].page[1].key, sync[s].row)'
    BY <1>4, <1>6, <2>1 DEF Found, Fresh, Recent
  <2>. QED BY <1>1, <1>6, <2>2, <2>3 DEF SyncOk, PageOk
<1>9. Covers(s)'
  BY <1>1, <1>4, <1>6, SameView DEF SyncOk
<1>10. AloneOk(s)'
  <2>1. \A t \in Syncs : Running(t)' => t = s \/ Running(t)
    BY <1>5 DEF Running
  <2>. QED BY <1>1, <1>4, <1>6, <2>1 DEF SyncOk, AloneOk, row
<1>11. ErrorOk(s)'
  BY <1>1, <1>4, <1>6 DEF SyncOk, ErrorOk
<1>12. \A k \in Keys : Fresh(k) => Fresh(k)'
  BY <1>4, <1>13, StaysFresh
<1>. QED BY <1>1, <1>4, <1>5, <1>7, <1>8, <1>9, <1>10, <1>11, <1>12, <1>13, SyncStep DEF SyncOk

\* What an upsert finds is fresh or as it was; it writes what the item has, which is
\* recent, over it.
LEMMA UpsertIsFresh ==
    ASSUME CatalogInv, NEW s \in Syncs, NEW item \in Items, item = Head(sync[s].page),
           NEW old \in Rows \cup {NoRow}, old = sync[s].row, Sent(item), Found(item.key, old),
           ~Refused(s)
    PROVE  /\ Upserted(s) \in Rows
           /\ \A f \in Fields :
                 \/ <<item.key, f>> \in hist.spared
                 \/ old = NoRow /\ f = "text"
                 \/ Recent(Upserted(s).content[f])
<1> DEFINE now == rows[item.key]
<1>1. /\ item.key \in Keys /\ item.listing \in Listings /\ item.content \in Contents
      /\ now \in Rows \cup {NoRow}
  BY DEF Items, CatalogInv, TypeOK
<1>2. /\ item.listing \notin Bad
      /\ old = NoRow => now = NoRow
  BY DEF Refused
<1>3. Upserted(s) = IF old = NoRow
                    THEN NewRow(item)
                    ELSE [external |-> Flushed(old.external, item.listing, now.external),
                          content  |-> [f \in Fields |->
                              IF item.content[f] = Empty THEN now.content[f]
                              ELSE Flushed(old.content[f], item.content[f], now.content[f])]]
  BY DEF Upserted
<1>4. \/ /\ now # NoRow
         /\ \A f \in Fields : <<item.key, f>> \notin hist.spared => Recent(now.content[f])
      \/ old = NoRow /\ now = NoRow
      \/ old # NoRow /\ now # NoRow /\ now.content = old.content
  BY DEF Found, Fresh
<1> HIDE DEF now
<1>5. CASE old = NoRow
  <2>1. /\ NewRow(item).external = item.listing
        /\ NewRow(item).content = [item.content EXCEPT !["text"] = Empty]
        /\ DOMAIN NewRow(item) = {"external", "content"}
    BY DEF NewRow
  <2>2. [item.content EXCEPT !["text"] = Empty] \in Contents
    BY <1>1 DEF Contents, Values
  <2>3. NewRow(item) \in Rows
    BY <1>1, <2>2 DEF NewRow, Rows
  <2>4. \A f \in Fields : f # "text" => NewRow(item).content[f] = item.content[f]
    BY <1>1, <2>1 DEF Contents
  <2>. QED BY <1>3, <1>5, <2>3, <2>4 DEF Sent
<1>6. CASE old # NoRow
  <2>1. now \in Rows /\ old \in Rows
    BY <1>1, <1>4, <1>6
  <2> DEFINE value(f) == IF item.content[f] = Empty THEN now.content[f]
                         ELSE Flushed(old.content[f], item.content[f], now.content[f])
             content == [f \in Fields |-> value(f)]
             external == Flushed(old.external, item.listing, now.external)
  <2>2. /\ now.external \in Listings /\ now.content \in [Fields -> Values]
        /\ item.content \in [Fields -> Values]
    BY <1>1, <2>1 DEF Rows, Contents
  <2>3. \A f \in Fields : value(f) \in Values
    BY <2>2 DEF Flushed
  <2>4. external \in Listings
    BY <1>1, <2>2 DEF Flushed
  <2>5. ASSUME NEW f \in Fields, <<item.key, f>> \notin hist.spared
        PROVE  Recent(value(f))
    <3>1. item.content[f] # Empty /\ Recent(item.content[f])
      BY <2>5 DEF Sent
    <3>2. Recent(now.content[f]) \/ now.content[f] = old.content[f]
      BY <1>4, <1>6, <2>5
    <3>. QED BY <3>1, <3>2 DEF Flushed
  <2>6. Upserted(s) = [external |-> external, content |-> content]
    BY <1>3, <1>6
  <2> HIDE DEF value, external
  <2>7. content \in Contents /\ \A f \in Fields : content[f] = value(f)
    BY <2>3 DEF Contents
  <2> HIDE DEF content
  <2>. QED BY <2>4, <2>5, <2>6, <2>7 DEF Rows
<1>. QED BY <1>5, <1>6

\* An item that is not one the database refuses leaves its row no older than
\* the syncs: written here, or by the sync that won.
LEMMA RowBecomesFresh ==
    ASSUME CatalogInv, NEW s \in Syncs, WriteRow(s), NEW item, item = sync[s].page[1]
    PROVE  /\ item \in Items /\ Head(sync[s].page) = item
           /\ Remembers /\ hist'.spared \in SUBSET (Keys \X Fields)
           /\ rows' \in [Keys -> Rows \cup {NoRow}]
           /\ \A k \in Keys : k # item.key => rows'[k] = rows[k]
           /\ rows'[item.key] = rows[item.key] \/ Fresh(item.key)'
           /\ Fresh(item.key) => Fresh(item.key)'
           /\ item.listing \notin Bad => Fresh(item.key)'
<1> DEFINE old == sync[s].row
           now == rows[item.key]
<1>1. /\ sync[s] \in Paging /\ PageOk(s) /\ sync[s].pc = "write"
      /\ sync[s].page # <<>> /\ sync[s].page \in Seq(Items) /\ old \in Rows \cup {NoRow}
  BY RunningPaging DEF CatalogInv, Running, SyncOk, PageOk, Paging, WriteRow
<1>2. item \in Items /\ Head(sync[s].page) = item
  BY <1>1, Tails
<1>3. Sent(item) /\ Found(item.key, old)
  <2>1. 1 \in DOMAIN sync[s].page
    BY <1>1, Tails
  <2>. QED BY <1>1, <2>1 DEF PageOk
<1>4. /\ item.key \in Keys /\ item.listing \in Listings
      /\ now \in Rows \cup {NoRow} /\ rows \in [Keys -> Rows \cup {NoRow}]
  BY <1>2 DEF Items, CatalogInv, TypeOK
<1>5. /\ rows' = IF Refused(s) THEN rows ELSE [rows EXCEPT ![item.key] = Upserted(s)]
      /\ hist' = IF Refused(s) \/ old # NoRow THEN hist
                 ELSE [hist EXCEPT !.spared = @ \cup {<<item.key, "text">>}]
  BY <1>2 DEF WriteRow
<1>6. /\ Refused(s) <=> \/ item.listing \in Bad
                        \/ old = NoRow /\ now # NoRow
                        \/ /\ old # NoRow
                           /\ old.content["price"] = Empty /\ item.content["price"] # Empty
                           /\ now.content["price"] # Empty
  BY <1>2 DEF Refused
<1>7. Remembers /\ hist'.spared \in SUBSET (Keys \X Fields)
  <2>1. /\ hist.spared \in SUBSET (Keys \X Fields) /\ "text" \in Fields
        /\ DOMAIN hist = {"stayed", "skipped", "alone", "oldest", "spared", "errors"}
    BY DEF CatalogInv, TypeOK, Fields
  <2>. QED BY <1>4, <1>5, <2>1 DEF Remembers
<1>8. Fresh(item.key) \/ (old = NoRow /\ now = NoRow)
                      \/ (old # NoRow /\ now # NoRow /\ now.content = old.content)
  BY <1>3 DEF Found
<1> HIDE DEF old, now
<1>9. CASE Refused(s)
  <2>1. rows' = rows /\ hist' = hist
    BY <1>5, <1>9
  <2>2. item.listing \notin Bad => Fresh(item.key)
    BY <1>6, <1>8, <1>9
  <2>3. Fresh(item.key)' = Fresh(item.key)
    BY <1>4, <2>1 DEF Fresh, Recent
  <2>. QED BY <1>2, <1>4, <1>7, <2>1, <2>2, <2>3
<1>10. CASE ~Refused(s)
  <2> DEFINE new == Upserted(s)
  <2>1. /\ new \in Rows
        /\ \A f \in Fields : \/ <<item.key, f>> \in hist.spared
                             \/ old = NoRow /\ f = "text"
                             \/ Recent(new.content[f])
    BY <1>1, <1>2, <1>3, <1>10, UpsertIsFresh DEF old
  <2>2. /\ rows'[item.key] = new
        /\ rows' \in [Keys -> Rows \cup {NoRow}]
        /\ \A k \in Keys : k # item.key => rows'[k] = rows[k]
    BY <1>4, <1>5, <1>10, <2>1
  <2>3. new # NoRow
    BY <2>1, CatalogAssumption
  <2> HIDE DEF new
  <2>4. old = NoRow => <<item.key, "text">> \in hist'.spared
    BY <1>5, <1>10 DEF CatalogInv, TypeOK
  <2>5. ASSUME NEW f \in Fields, <<item.key, f>> \notin hist'.spared
        PROVE  rows'[item.key].content[f] # Empty
               /\ rows'[item.key].content[f][2] >= hist'.oldest[rows'[item.key].content[f][1]]
    <3>1. Recent(new.content[f])
      BY <1>7, <2>1, <2>4, <2>5 DEF Remembers
    <3>2. hist'.oldest = hist.oldest
      BY <1>7 DEF Remembers
    <3>. QED BY <2>2, <3>1, <3>2 DEF Recent
  <2>6. Fresh(item.key)'
    BY <2>2, <2>3, <2>5 DEF Fresh, Recent
  <2>. QED BY <1>2, <1>7, <2>2, <2>6
<1>. QED BY <1>9, <1>10

LEMMA WriteRowStep ==
    ASSUME CatalogInv, NEW s \in Syncs, WriteRow(s)
    PROVE  CatalogInv'
<1>1. /\ sync[s] \in Paging /\ Running(s) /\ SyncOk(s) /\ sync[s].pc = "write"
      /\ sync[s].page # <<>> /\ sync[s].page \in Seq(Items) /\ Len(sync[s].page) <= PageLimit
      /\ sync[s].more \in BOOLEAN /\ sync[s].failures \in SUBSET Listings
  BY RunningPaging DEF CatalogInv, Running, SyncOk, PageOk, Paging, WriteRow
<1>2. PICK item : item = sync[s].page[1]
  OBVIOUS
<1>3. /\ item \in Items /\ Head(sync[s].page) = item
      /\ Remembers /\ hist'.spared \in SUBSET (Keys \X Fields)
      /\ rows' \in [Keys -> Rows \cup {NoRow}]
      /\ \A k \in Keys : k # item.key => rows'[k] = rows[k]
      /\ rows'[item.key] = rows[item.key] \/ Fresh(item.key)'
      /\ Fresh(item.key) => Fresh(item.key)'
      /\ item.listing \notin Bad => Fresh(item.key)'
  BY <1>2, RowBecomesFresh
<1>4. item.listing \in Listings /\ item.key \in Keys
  BY <1>3 DEF Items
<1>5. UNCHANGED <<catalog, sku, version, blank, edits, error, faults>>
  BY DEF WriteRow, platform
<1>6. \A k \in Keys : (Fresh(k) => Fresh(k)') /\ (rows'[k] = rows[k] \/ Fresh(k)')
  <2>1. ASSUME NEW k \in Keys, k # item.key
        PROVE  Fresh(k) => Fresh(k)'
    BY <1>3, <2>1, StaysFresh
  <2>. QED BY <1>3, <2>1
<1> DEFINE rest == Tail(sync[s].page)
           failures == IF Refused(s) THEN sync[s].failures \cup {item.listing}
                                     ELSE sync[s].failures
           pc == AfterItem(rest, sync[s].more)
           q == [sync[s] EXCEPT !.page = rest, !.row = NoRow, !.failures = failures, !.pc = pc]
<1>7. /\ rest \in Seq(Items) /\ Len(rest) = Len(sync[s].page) - 1 /\ Len(rest) <= PageLimit
      /\ Len(sync[s].page) \in Nat \ {0} /\ DOMAIN rest = 1 .. Len(sync[s].page) - 1
      /\ DOMAIN sync[s].page = 1 .. Len(sync[s].page)
      /\ \A j \in 1 .. Len(sync[s].page) - 1 : rest[j] = sync[s].page[j + 1]
  <2>1. PageLimit \in Nat
    BY CatalogAssumption
  <2>. QED BY <1>1, <2>1, Tails
<1>8. sync'[s] = q /\ \A t \in Syncs \ {s} : sync'[t] = sync[t]
  BY <1>3 DEF WriteRow, CatalogInv, TypeOK
<1> HIDE DEF rest
<1>9. /\ pc \in {"fetch", "select", "finish"}
      /\ (pc = "select" <=> rest # <<>>)
      /\ (pc = "fetch" => sync[s].more)
      /\ (pc = "finish" => ~sync[s].more)
  BY <1>1 DEF AfterItem
<1>10. failures \in SUBSET Listings
  BY <1>1, <1>4
<1> HIDE DEF failures, pc
<1>11. /\ q \in Paging
       /\ q.pc = pc /\ q.row = NoRow /\ q.page = rest /\ q.failures = failures
       /\ q.more = sync[s].more /\ q.at = sync[s].at
       /\ q.fatal = sync[s].fatal /\ q.loaded = sync[s].loaded
  <2>1. NoRow \in Rows \cup {NoRow}
    OBVIOUS
  <2>2. sync[s] \in Paging /\ rest \in Seq(Items) /\ Len(rest) <= PageLimit
        /\ pc \in {"fetch", "select", "finish"}
    BY <1>1, <1>7, <1>9
  <2>. QED BY ONLY <1>10, <2>1, <2>2 DEF Paging
<1> HIDE DEF q
<1>12. /\ sync'[s] \in Paging
       /\ sync'[s].pc = pc /\ sync'[s].row = NoRow /\ sync'[s].page = rest
       /\ sync'[s].failures = failures
       /\ sync'[s].more = sync[s].more /\ sync'[s].at = sync[s].at
       /\ sync'[s].fatal = sync[s].fatal /\ sync'[s].loaded = sync[s].loaded
  BY ONLY <1>8, <1>11
<1>13. TypeOK'
  <2>1. sync' \in [Syncs -> Paging \cup {Idle}]
    BY <1>8, <1>12 DEF CatalogInv, TypeOK, WriteRow
  <2>2. hist' \in [stayed : [Syncs -> SUBSET Listings], skipped : [Syncs -> BOOLEAN],
                   alone : [Syncs -> BOOLEAN], oldest : [Listings -> 0 .. MaxEdits],
                   spared : SUBSET (Keys \X Fields), errors : SUBSET Errors]
    <3>1. hist' = hist \/ hist' = [hist EXCEPT !.spared = @ \cup {<<item.key, "text">>}]
      BY <1>3 DEF WriteRow
    <3>2. /\ hist \in [stayed : [Syncs -> SUBSET Listings], skipped : [Syncs -> BOOLEAN],
                       alone : [Syncs -> BOOLEAN], oldest : [Listings -> 0 .. MaxEdits],
                       spared : SUBSET (Keys \X Fields), errors : SUBSET Errors]
          /\ <<item.key, "text">> \in Keys \X Fields
      BY <1>4 DEF Fields, CatalogInv, TypeOK
    <3>3. hist.spared \cup {<<item.key, "text">>} \in SUBSET (Keys \X Fields)
      BY <3>2
    <3>. QED BY ONLY <3>1, <3>2, <3>3
  <2>. QED BY <1>3, <1>5, <2>1, <2>2 DEF CatalogInv, TypeOK
<1>14. PageOk(s)'
  <2>1. ASSUME NEW j \in DOMAIN rest
        PROVE  Sent(rest[j])
    <3>1. j + 1 \in DOMAIN sync[s].page /\ rest[j] = sync[s].page[j + 1]
      BY <1>7
    <3>. QED BY <1>1, <3>1 DEF SyncOk, PageOk
  <2>2. \A i \in DOMAIN sync'[s].page : Sent(sync[s].page[i])'
    BY <1>3, <1>12, <2>1 DEF Sent, Recent, Remembers
  <2>. QED BY <1>9, <1>12, <2>2 DEF PageOk
<1>15. Covers(s)'
  <2>1. /\ hist.stayed[s] \subseteq Listings
        /\ hist'.stayed = hist.stayed /\ hist'.skipped = hist.skipped
    BY <1>3 DEF CatalogInv, TypeOK, Remembers
  <2>2. \A l \in Listings : EffectiveSku(l) \in Keys /\ EffectiveSku(l)' = EffectiveSku(l)
    BY <1>5 DEF CatalogInv, TypeOK, EffectiveSku, Keys
  <2>3. ASSUME NEW l \in hist.stayed[s] \ Bad, ~hist.skipped[s]
        PROVE  Behind(s, l)' \/ OnPage(s, l)' \/ Fresh(EffectiveSku(l))'
    <3>1. Behind(s, l) \/ OnPage(s, l) \/ Fresh(EffectiveSku(l))
      BY <1>1, <2>3 DEF SyncOk, Covers
    <3>2. PICK k \in Keys : k = EffectiveSku(l) /\ EffectiveSku(l)' = k
      BY <2>1, <2>2, <2>3
    <3>3. CASE Behind(s, l)
      BY <1>5, <1>12, <3>3 DEF Behind
    <3>4. CASE Fresh(EffectiveSku(l))
      <4>1. Fresh(k)'
        BY <1>6, <3>2, <3>4
      <4>. QED BY <3>2, <4>1 DEF Fresh
    <3>5. CASE OnPage(s, l)
      <4>1. PICK i \in DOMAIN sync[s].page :
              sync[s].page[i].listing = l /\ sync[s].page[i].key = k
        BY <3>2, <3>5 DEF OnPage
      <4>2. CASE i = 1
        <5>1. Fresh(k)'
          BY <1>2, <1>3, <2>3, <4>1, <4>2
        <5>. QED BY <3>2, <5>1 DEF Fresh
      <4>3. CASE i # 1
        <5>1. i - 1 \in DOMAIN rest /\ rest[i - 1] = sync[s].page[i]
          BY <1>7, <4>1, <4>3
        <5>. QED BY <1>12, <3>2, <4>1, <5>1 DEF OnPage
      <4>. QED BY <4>2, <4>3
    <3>. QED BY <3>1, <3>3, <3>4, <3>5
  <2>. QED BY <2>1, <2>3 DEF Covers
<1>16. AloneOk(s)'
  <2>1. \A t \in Syncs : Running(t)' => t = s \/ Running(t)
    BY <1>8 DEF Running
  <2>2. ASSUME hist.alone[s]
        PROVE  failures \subseteq Bad
    <3>1. sync[s].failures \subseteq Bad /\ sync[s].row = rows[item.key]
      BY <1>1, <1>2, <2>2 DEF SyncOk, AloneOk
    <3>2. Refused(s) => item.listing \in Bad
      BY <1>3, <3>1 DEF Refused
    <3>. QED BY <3>1, <3>2 DEF failures
  <2>3. sync'[s].pc # "write"
    BY <1>9, <1>12
  <2>. QED BY <1>1, <1>3, <1>12, <2>1, <2>2, <2>3 DEF SyncOk, AloneOk, Remembers
<1>17. ErrorOk(s)'
  BY <1>1, <1>3, <1>5, <1>12 DEF SyncOk, ErrorOk, Remembers
<1>. QED BY <1>1, <1>3, <1>5, <1>6, <1>8, <1>13, <1>14, <1>15, <1>16, <1>17, SyncStep DEF SyncOk

-------------------------------------------------------------------------------
(* Where a sync begins and ends.                                            *)

LEMMA StartSyncStep ==
    ASSUME CatalogInv, NEW s \in Syncs, StartSync(s)
    PROVE  CatalogInv'
<1> DEFINE begun == [pc |-> "fetch", at |-> 0, more |-> TRUE, tries |-> 0, page |-> <<>>,
                     row |-> NoRow, failures |-> {}, fatal |-> "none", loaded |-> error]
<1>1. UNCHANGED <<catalog, sku, version, blank, edits, error, rows, faults>>
  BY DEF StartSync, platform
<1>2. sync'[s] = begun /\ \A t \in Syncs \ {s} : sync'[t] = sync[t]
  BY DEF StartSync, CatalogInv, TypeOK
<1>3. begun \in Paging
  <2>1. 0 \in 0 .. MaxAttempts - 1 /\ 0 \in Nat /\ PageLimit \in Nat
    BY CatalogAssumption
  <2>2. <<>> \in Seq(Items) /\ Len(<<>>) <= PageLimit
    BY <2>1
  <2>3. error \in Errors /\ "none" \in Errors
    BY DEF CatalogInv, TypeOK, Errors
  <2>. QED BY <2>1, <2>2, <2>3 DEF Paging
<1>4. /\ sync'[s].pc = "fetch" /\ sync'[s].at = 0 /\ sync'[s].more = TRUE
      /\ sync'[s].page = <<>> /\ sync'[s].failures = {} /\ sync'[s].loaded = error
  BY <1>2
<1>5. sync' \in [Syncs -> Paging \cup {Idle}]
  BY <1>2, <1>3 DEF StartSync, CatalogInv, TypeOK
<1> HIDE DEF begun
<1>6. ~Running(s) /\ Running(s)' /\ \A t \in Syncs \ {s} : Running(t)' <=> Running(t)
  BY <1>2, <1>4 DEF Running, StartSync, Idle
<1>7. Listed \in SUBSET Listings
  BY DEF Listed, Range, CatalogInv, TypeOK
<1>8. /\ hist'.stayed = [hist.stayed EXCEPT ![s] = Listed]
      /\ hist'.skipped = [hist.skipped EXCEPT ![s] = FALSE]
      /\ hist'.alone = [t \in Syncs |-> IF t = s THEN ~Syncing ELSE hist.alone[t] /\ ~Running(t)]
      /\ hist'.oldest = IF Syncing THEN hist.oldest ELSE version
      /\ hist'.errors = hist.errors
      /\ hist'.spared = hist.spared
  BY DEF StartSync, CatalogInv, TypeOK
<1>9. TypeOK'
  <2> DEFINE H == [stayed : [Syncs -> SUBSET Listings], skipped : [Syncs -> BOOLEAN],
                   alone : [Syncs -> BOOLEAN], oldest : [Listings -> 0 .. MaxEdits],
                   spared : SUBSET (Keys \X Fields), errors : SUBSET Errors]
  <2>1. /\ hist \in H /\ version \in [Listings -> 0 .. MaxEdits]
        /\ hist.stayed \in [Syncs -> SUBSET Listings] /\ hist.skipped \in [Syncs -> BOOLEAN]
        /\ hist.alone \in [Syncs -> BOOLEAN] /\ hist.oldest \in [Listings -> 0 .. MaxEdits]
    BY DEF CatalogInv, TypeOK
  <2>2. hist'.stayed \in [Syncs -> SUBSET Listings]
    BY <1>7, <1>8, <2>1
  <2>3. hist'.skipped \in [Syncs -> BOOLEAN]
    BY <1>8, <2>1
  <2>4. hist'.alone \in [Syncs -> BOOLEAN]
    <3>1. \A t \in Syncs : Running(t) \in BOOLEAN
      BY DEF Running
    <3>. QED BY <1>8, <2>1, <3>1 DEF Syncing
  <2>5. hist'.oldest \in [Listings -> 0 .. MaxEdits]
    BY <1>8, <2>1
  <2>6. hist' = [hist EXCEPT !.stayed = hist'.stayed, !.skipped = hist'.skipped,
                             !.alone = hist'.alone, !.oldest = hist'.oldest]
    BY <1>8, <2>1 DEF StartSync
  <2>7. hist' \in H
    BY ONLY <2>1, <2>2, <2>3, <2>4, <2>5, <2>6
  <2>. QED BY <1>1, <1>5, <2>7 DEF CatalogInv, TypeOK
<1>10. \A l \in Listings : hist'.oldest[l] <= version'[l] /\ version'[l] <= edits'
  BY <1>1, <1>8 DEF CatalogInv, TypeOK
<1>11. ASSUME NEW t \in Syncs \ {s}, Running(t)
       PROVE  SyncOk(t)'
  <2>1. SyncOk(t) /\ Syncing /\ sync'[t] = sync[t]
    BY <1>2, <1>11 DEF CatalogInv, Syncing
  <2>2. /\ hist'.stayed[t] = hist.stayed[t] /\ hist'.skipped[t] = hist.skipped[t]
        /\ hist'.oldest = hist.oldest /\ hist'.errors = hist.errors /\ ~hist'.alone[t]
        /\ hist'.spared = hist.spared
    BY <1>8, <1>11, <2>1 DEF CatalogInv, TypeOK
  <2>3. PageOk(t)'
    BY <1>1, <2>1, <2>2 DEF SyncOk, PageOk, Found, Fresh, Sent, Recent
  <2>4. Covers(t)'
    <3>1. \A l : Behind(t, l)' = Behind(t, l)
      BY <1>1, <2>1 DEF Behind
    <3>2. \A l : OnPage(t, l)' = OnPage(t, l)
      BY <1>1, <2>1 DEF OnPage, EffectiveSku
    <3>3. \A l : Fresh(EffectiveSku(l))' = Fresh(EffectiveSku(l))
      BY <1>1, <2>2 DEF Fresh, Recent, EffectiveSku
    <3>. QED BY <2>1, <2>2, <3>1, <3>2, <3>3 DEF SyncOk, Covers
  <2>5. AloneOk(t)' /\ ErrorOk(t)'
    BY <1>1, <2>1, <2>2 DEF SyncOk, AloneOk, ErrorOk
  <2>. QED BY <2>3, <2>4, <2>5 DEF SyncOk
<1>12. SyncOk(s)'
  <2>1. hist'.stayed[s] = Listed /\ hist'.alone[s] = ~Syncing
    BY <1>8 DEF CatalogInv, TypeOK
  <2>2. PageOk(s)'
    <3>1. sync'[s].more
      BY <1>4
    <3>2. DOMAIN <<>> = {}
      OBVIOUS
    <3>. QED BY <1>4, <3>1, <3>2 DEF PageOk
  <2>3. Covers(s)'
    <3>1. \A l \in Listed : Behind(s, l)'
      <4>1. DOMAIN catalog \subseteq Nat \ {0}
        BY DEF CatalogInv, TypeOK
      <4>2. ASSUME NEW l, NEW i \in DOMAIN catalog, catalog[i] = l
            PROVE  Behind(s, l)'
        BY <1>1, <1>4, <4>1, <4>2 DEF Behind
      <4>. QED BY <4>2 DEF Listed, Range
    <3>. QED BY <2>1, <3>1 DEF Covers
  <2>4. AloneOk(s)'
    BY <1>4, <1>6, <2>1 DEF AloneOk, Syncing
  <2>5. ErrorOk(s)'
    BY <1>1, <1>4 DEF ErrorOk
  <2>. QED BY <2>2, <2>3, <2>4, <2>5 DEF SyncOk
<1>. QED BY <1>6, <1>9, <1>10, <1>11, <1>12 DEF CatalogInv

\* Nothing is remembered once no sync runs; what is remembered of the others stays.
LEMMA EndStep ==
    ASSUME CatalogInv, NEW s \in Syncs, Running(s), NEW errors \in SUBSET Errors,
           UNCHANGED <<platform, rows>>, faults' \in 0 .. MaxFaults,
           sync' = [sync EXCEPT ![s] = Idle], hist' = Over(s, errors),
           error' \in {error} \cup errors
    PROVE  CatalogInv'
<1>1. UNCHANGED <<catalog, sku, version, blank, edits, rows>>
  BY DEF platform
<1>2. sync'[s] = Idle /\ \A t \in Syncs \ {s} : sync'[t] = sync[t]
  BY DEF CatalogInv, TypeOK
<1>3. ~Running(s)' /\ \A t \in Syncs \ {s} : Running(t)' <=> Running(t)
  BY <1>2 DEF Running, Idle
<1>4. sync' \in [Syncs -> Paging \cup {Idle}] /\ error' \in Errors
  BY DEF CatalogInv, TypeOK
<1> DEFINE H == [stayed : [Syncs -> SUBSET Listings], skipped : [Syncs -> BOOLEAN],
                 alone : [Syncs -> BOOLEAN], oldest : [Listings -> 0 .. MaxEdits],
                 spared : SUBSET (Keys \X Fields), errors : SUBSET Errors]
<1>5. /\ hist \in H
      /\ hist.stayed \in [Syncs -> SUBSET Listings] /\ hist.skipped \in [Syncs -> BOOLEAN]
      /\ hist.alone \in [Syncs -> BOOLEAN] /\ hist.oldest \in [Listings -> 0 .. MaxEdits]
      /\ hist.errors \in SUBSET Errors
  BY DEF CatalogInv, TypeOK
<1>6. CASE \E t \in Syncs \ {s} : Running(t)
  <2>1. hist' = [hist EXCEPT !.stayed[s] = {}, !.skipped[s] = FALSE, !.alone[s] = TRUE,
                             !.errors = @ \cup errors]
    BY <1>6 DEF Over
  <2>2. hist' \in H
    <3> DEFINE stayed == [hist.stayed EXCEPT ![s] = {}]
               skipped == [hist.skipped EXCEPT ![s] = FALSE]
               alone == [hist.alone EXCEPT ![s] = TRUE]
               seen == hist.errors \cup errors
    <3>1. /\ stayed \in [Syncs -> SUBSET Listings] /\ skipped \in [Syncs -> BOOLEAN]
          /\ alone \in [Syncs -> BOOLEAN] /\ seen \in SUBSET Errors
      BY <1>5
    <3>2. hist' = [hist EXCEPT !.stayed = stayed, !.skipped = skipped, !.alone = alone,
                               !.errors = seen]
      BY <1>5, <2>1
    <3> HIDE DEF stayed, skipped, alone, seen
    <3>. QED BY ONLY <1>5, <3>1, <3>2
  <2>3. TypeOK'
    BY <1>1, <1>4, <2>2 DEF CatalogInv, TypeOK
  <2>4. /\ hist'.oldest = hist.oldest /\ hist'.errors = hist.errors \cup errors
        /\ hist'.spared = hist.spared
        /\ \A t \in Syncs \ {s} : /\ hist'.stayed[t] = hist.stayed[t]
                                 /\ hist'.skipped[t] = hist.skipped[t]
                                 /\ hist'.alone[t] = hist.alone[t]
    BY <1>5, <2>1
  <2>5. ASSUME NEW t \in Syncs \ {s}, Running(t)
        PROVE  SyncOk(t)'
    <3>1. SyncOk(t) /\ sync'[t] = sync[t] /\ ~hist.alone[t]
      BY <1>2, <2>5 DEF CatalogInv, SyncOk, AloneOk
    <3>2. PageOk(t)'
      <4>1. \A i \in DOMAIN sync'[t].page : Sent(sync[t].page[i])'
        BY <2>4, <3>1 DEF SyncOk, PageOk, Sent, Recent
      <4>2. sync[t].pc = "write" => Found(sync[t].page[1].key, sync[t].row)'
        BY <1>1, <2>4, <3>1 DEF SyncOk, PageOk, Found, Fresh, Recent
      <4>. QED BY <3>1, <4>1, <4>2 DEF SyncOk, PageOk
    <3>3. Covers(t)'
      <4>1. \A l : Behind(t, l)' = Behind(t, l)
        BY <1>1, <3>1 DEF Behind
      <4>2. \A l : OnPage(t, l)' = OnPage(t, l)
        BY <1>1, <3>1 DEF OnPage, EffectiveSku
      <4>3. \A l : Fresh(EffectiveSku(l))' = Fresh(EffectiveSku(l))
        BY <1>1, <2>4 DEF Fresh, Recent, EffectiveSku
      <4>. QED BY <2>4, <3>1, <4>1, <4>2, <4>3 DEF SyncOk, Covers
    <3>4. AloneOk(t)'
      BY <2>4, <3>1 DEF AloneOk
    <3>5. ErrorOk(t)'
      BY <2>4, <3>1 DEF SyncOk, ErrorOk
    <3>. QED BY <3>2, <3>3, <3>4, <3>5 DEF SyncOk
  <2>. QED BY <1>1, <1>3, <2>3, <2>4, <2>5 DEF CatalogInv
<1>7. CASE ~\E t \in Syncs \ {s} : Running(t)
  <2>1. hist' = NoHistory
    BY <1>7 DEF Over
  <2>2. NoHistory \in H
    BY CatalogAssumption DEF NoHistory
  <2>3. TypeOK'
    BY <1>1, <1>4, <2>1, <2>2 DEF CatalogInv, TypeOK
  <2>4. \A l \in Listings : hist'.oldest[l] <= version'[l] /\ version'[l] <= edits'
    <3>1. \A l \in Listings : hist'.oldest[l] = 0
      BY <2>1 DEF NoHistory
    <3>. QED BY <1>1, <3>1 DEF CatalogInv, TypeOK
  <2>. QED BY <1>3, <1>7, <2>3, <2>4 DEF CatalogInv
<1>. QED BY <1>6, <1>7

LEMMA FinishSyncStep ==
    ASSUME CatalogInv, NEW s \in Syncs, FinishSync(s)
    PROVE  CatalogInv'
<1>1. sync[s].fatal \in Errors /\ Running(s)
  BY RunningPaging DEF CatalogInv, Running, Paging, FinishSync
<1>2. error' \in {error} \cup {sync[s].fatal}
  BY DEF FinishSync, Flushed
<1>3. PICK errors \in SUBSET Errors : errors = {sync[s].fatal}
  BY <1>1
<1>4. faults' \in 0 .. MaxFaults
  BY DEF FinishSync, CatalogInv, TypeOK
<1>. QED BY <1>1, <1>2, <1>3, <1>4, EndStep DEF FinishSync

LEMMA LoseSyncStep ==
    ASSUME CatalogInv, NEW s \in Syncs, LoseSync(s)
    PROVE  CatalogInv'
<1>1. faults' \in 0 .. MaxFaults
  BY CatalogAssumption DEF LoseSync, Fault, CatalogInv, TypeOK
<1>2. {} \in SUBSET Errors
  OBVIOUS
<1>. QED BY <1>1, <1>2, EndStep DEF LoseSync

-------------------------------------------------------------------------------
(* The invariant.                                                           *)

LEMMA CatalogInit == Init => CatalogInv
<1> SUFFICES ASSUME Init PROVE CatalogInv
  OBVIOUS
<1> USE CatalogAssumption DEF Init
<1>1. /\ 0 \in 0 .. MaxEdits /\ 0 \in 0 .. MaxFaults /\ "none" \in Errors
  BY DEF Errors
<1>2. hist \in [stayed : [Syncs -> SUBSET Listings], skipped : [Syncs -> BOOLEAN],
                alone : [Syncs -> BOOLEAN], oldest : [Listings -> 0 .. MaxEdits],
                spared : SUBSET (Keys \X Fields), errors : SUBSET Errors]
  BY <1>1 DEF NoHistory
<1>3. TypeOK
  BY <1>1, <1>2 DEF TypeOK
<1>4. \A s \in Syncs : ~Running(s)
  BY DEF Running, Idle
<1>5. \A l \in Listings : hist.oldest[l] <= version[l] /\ version[l] <= edits
  BY DEF NoHistory
<1>. QED BY <1>3, <1>4, <1>5 DEF CatalogInv

LEMMA CatalogNext == CatalogInv /\ [Next]_vars => CatalogInv'
<1> SUFFICES ASSUME CatalogInv, [Next]_vars
             PROVE  CatalogInv'
  OBVIOUS
<1>1. CASE \E l \in Listings, i \in 1 .. Len(catalog) + 1 : AddListing(l, i)
  BY <1>1, AddListingStep
<1>2. CASE \E i \in 1 .. Len(catalog) : RemoveListing(i)
  BY <1>2, RemoveListingStep
<1>3. CASE \E l \in Listings, b \in Blanks : EditContent(l, b)
  BY <1>3, EditContentStep
<1>4. CASE \E l \in Listings, k \in Skus \cup {NoSku} : EditSku(l, k)
  BY <1>4, EditSkuStep
<1>5. CASE \E s \in Syncs : StartSync(s)
  BY <1>5, StartSyncStep
<1>6. CASE \E s \in Syncs : FetchPage(s)
  BY <1>6, FetchPageStep
<1>7. CASE \E s \in Syncs : TransientError(s)
  BY <1>7, TransientErrorStep
<1>8. CASE \E s \in Syncs : PermanentError(s)
  BY <1>8, PermanentErrorStep
<1>9. CASE \E s \in Syncs : SelectRow(s)
  BY <1>9, SelectRowStep
<1>10. CASE \E s \in Syncs : WriteRow(s)
  BY <1>10, WriteRowStep
<1>11. CASE \E s \in Syncs : FinishSync(s)
  BY <1>11, FinishSyncStep
<1>12. CASE \E s \in Syncs : LoseSync(s)
  BY <1>12, LoseSyncStep
<1>13. CASE UNCHANGED vars
  <2>1. UNCHANGED <<catalog, sku, version, blank, edits, faults, rows, error, sync, hist>>
    BY <1>13 DEF vars
  <2>2. TypeOK' /\ \A s \in Syncs : Running(s)' <=> Running(s)
    BY <2>1 DEF CatalogInv, TypeOK, Running
  <2>3. ASSUME NEW s \in Syncs, Running(s)
        PROVE  SyncOk(s)'
    <3>1. SyncOk(s)
      BY <2>3 DEF CatalogInv
    <3>2. PageOk(s)'
      BY <2>1, <3>1 DEF SyncOk, PageOk, Found, Fresh, Sent, Recent
    <3>3. Covers(s)'
      BY <2>1, <3>1, SameView DEF SyncOk
    <3>4. AloneOk(s)' /\ ErrorOk(s)'
      BY <2>1, <2>2, <3>1 DEF SyncOk, AloneOk, ErrorOk
    <3>. QED BY <3>2, <3>3, <3>4 DEF SyncOk
  <2>. QED BY <2>1, <2>2, <2>3 DEF CatalogInv
<1>. QED BY <1>1, <1>2, <1>3, <1>4, <1>5, <1>6, <1>7, <1>8, <1>9, <1>10, <1>11, <1>12, <1>13
         DEF Next

\* The inductive invariant: where every listing that stayed is, what an upsert
\* found under its sku, and which errors may stand in last_error.
THEOREM CatalogInvariant == Spec => []CatalogInv
<1>. QED BY CatalogInit, CatalogNext, PTL DEF Spec

\* Every variable, and what the properties remember, keeps its type.
THEOREM CatalogTyped == Spec => []TypeOK
<1>1. CatalogInv => TypeOK
  BY DEF CatalogInv
<1>. QED BY <1>1, CatalogInvariant, PTL

\* A sync that runs alone refuses only what the database refuses: no listing is
\* lost to the unique sku, however the merchant changes the catalog meanwhile.
THEOREM AloneLosesNone == Spec => []AloneLosesNothing
<1>1. CatalogInv => AloneLosesNothing
  BY DEF CatalogInv, SyncOk, AloneOk, AloneLosesNothing
<1>. QED BY <1>1, CatalogInvariant, PTL

\* A sync that returns without a fatal error has mirrored every listing that
\* stayed where it was, each field that was sent with a value no older than the syncs
\* that overlap it, for any number of pages, syncs and changes of the merchant.
THEOREM StayedIsMirrored == Spec => MirrorsWhatStayed
<1>1. ASSUME CatalogInv, NEW s \in Syncs, Finishes(s), sync[s].fatal = "none", ~hist.skipped[s],
             NEW l \in hist.stayed[s] \ Bad
      PROVE  Fresh(EffectiveSku(l))
  <2>1. SyncOk(s) /\ sync[s].pc = "finish"
    BY <1>1 DEF CatalogInv, Finishes, Running
  <2>2. ~Behind(s, l)
    BY <1>1, <2>1 DEF SyncOk, PageOk, Behind
  <2>3. sync[s].page = <<>>
    BY <2>1 DEF SyncOk, PageOk
  <2>4. ~OnPage(s, l)
    BY <2>3 DEF OnPage
  <2>. QED BY <1>1, <2>1, <2>2, <2>4 DEF SyncOk, Covers
<1>2. CatalogInv /\ [Next]_vars =>
        [\A s \in Syncs :
           Finishes(s) /\ sync[s].fatal = "none" /\ ~hist.skipped[s]
           => \A l \in hist.stayed[s] \ Bad :
                 LET key == EffectiveSku(l)
                 IN /\ rows[key] # NoRow
                    /\ \A f \in {g \in Fields : <<key, g>> \notin hist.spared} :
                          LET value == rows[key].content[f]
                          IN value # Empty /\ value[2] >= hist.oldest[value[1]]]_vars
  BY <1>1 DEF Fresh, Recent
<1>. QED BY <1>2, CatalogInvariant, PTL DEF Spec, MirrorsWhatStayed

\* The sync that returns is the one whose FinishSync this step is.
LEMMA Returns ==
    ASSUME CatalogInv, NEW s \in Syncs, [Next]_vars, Finishes(s)
    PROVE  FinishSync(s)
<1>1. /\ sync[s].pc = "finish" /\ sync'[s].pc = "idle" /\ faults' = faults
      /\ faults \in Nat /\ sync \in [Syncs -> Paging \cup {Idle}]
  BY DEF Finishes, Idle, CatalogInv, TypeOK
<1>2. sync' # sync
  BY <1>1
<1>3. ~Fault
  BY <1>1 DEF Fault
<1>4. \E t \in Syncs : FinishSync(t) \/ StartSync(t) \/ FetchPage(t) \/ SelectRow(t) \/ WriteRow(t)
  BY <1>2, <1>3 DEF Next, vars, AddListing, RemoveListing, EditContent, EditSku, TransientError,
                    PermanentError, LoseSync
<1>5. PICK t \in Syncs :
          FinishSync(t) \/ StartSync(t) \/ FetchPage(t) \/ SelectRow(t) \/ WriteRow(t)
  BY <1>4
<1>6. t = s
  BY <1>1, <1>5 DEF FinishSync, StartSync, FetchPage, SelectRow, WriteRow
<1>7. ~StartSync(s)
  BY <1>1 DEF StartSync, Idle
<1>8. ~FetchPage(s) /\ ~SelectRow(s) /\ ~WriteRow(s)
  BY <1>1 DEF FetchPage, SelectRow, WriteRow
<1>. QED BY <1>5, <1>6, <1>7, <1>8

\* A sync leaves its own outcome in last_error or one that came since it
\* started: never the error it found there.
THEOREM OutcomesRecent == Spec => OutcomeIsRecent
<1>1. ASSUME CatalogInv, [Next]_vars, NEW s \in Syncs, Finishes(s)
      PROVE  error' \in hist.errors \cup {sync[s].fatal}
  <2>1. FinishSync(s)
    BY <1>1, Returns
  <2>2. error \in hist.errors \cup {sync[s].loaded}
    <3>1. Running(s)
      BY <2>1 DEF FinishSync, Running
    <3>. QED BY <1>1, <3>1 DEF CatalogInv, SyncOk, ErrorOk
  <2>3. error' = IF sync[s].fatal = sync[s].loaded THEN error ELSE sync[s].fatal
    BY <2>1 DEF FinishSync, Flushed
  <2>. QED BY <2>2, <2>3
<1>2. CatalogInv /\ [Next]_vars =>
        [\A s \in Syncs : Finishes(s) => error' \in hist.errors \cup {sync[s].fatal}]_vars
  BY <1>1
<1>. QED BY <1>2, CatalogInvariant, PTL DEF Spec, OutcomeIsRecent
================================================================================
