------------------------------ MODULE Connectors ------------------------------
(***************************************************************************)
(* CommerceConnector and its six implementations.  A method is a script of *)
(* HTTP requests against one shop: a request is answered, refused, lost or *)
(* denied on its own, and between two requests the merchant edits the same *)
(* listings in the platform's panel, the other call goes on, or a token    *)
(* expires or is revoked.  The caller retries what the interface says is   *)
(* safe to retry.                                                          *)
(*                                                                         *)
(* What a field of a listing holds is who wrote it: 0 at first, the number *)
(* of a merchant's edit, or the call; Dropped once a request cleared it    *)
(* (a status: made it a draft).                                            *)
(***************************************************************************)
EXTENDS Naturals, Sequences, FiniteSetsExt

CONSTANTS
    Kinds,       \* the platforms
    Calls,       \* method calls, each on a connector of its own
    Ops,         \* the methods that are called
    Givens,      \* which of its optional fields a product carries when it is sent
    Sizes,       \* how many listings the shop has at first
    Wanted,      \* the listings that calls are about, gone or not
    Limit,       \* page size asked for
    PageCap,     \* the largest page IdoSell gives
    MaxListings, \* listings the shop may ever have
    MaxTries,    \* times a call is made before its caller gives up
    Edited,      \* fields the merchant changes
    MaxEdits,    \* changes the merchant makes
    MaxFaults,   \* requests refused or lost
    MaxRevoked,  \* tokens that expire or are revoked
    Dropped,     \* the value of a field that a request cleared
    NoListing    \* an id without a listing

Platforms == {"woocommerce", "allegro", "shoper", "prestashop", "idosell", "mock"}

\* CommerceConnector
Operations == {"list", "read", "create", "update", "price", "stock",
               "categories", "image", "publish"}

Ids == 1 .. MaxListings

\* What a ConnectorProduct need not carry.
Optional == {"price", "stock", "description", "images"}

\* live is the publication status.
Fields == {"price", "stock", "name", "description", "live"}

Parts == Fields \cup {"images"}

Writers == Calls \cup (0 .. MaxEdits)

Listing == [price : Writers \cup {Dropped}, stock : Writers \cup {Dropped},
            name : Writers \cup {Dropped}, description : Writers \cup {Dropped},
            live : Writers \cup {Dropped}, images : SUBSET Writers]

ASSUME ConnectorsAssumption ==
    /\ Kinds \subseteq Platforms
    /\ Ops \subseteq Operations
    /\ Givens \subseteq SUBSET Optional
    /\ Edited \subseteq Parts
    /\ Sizes \subseteq 0 .. MaxListings
    /\ Wanted \subseteq 1 .. MaxListings
    /\ NoListing \notin Listing
    /\ {MaxListings, MaxEdits, MaxFaults, MaxRevoked} \subseteq Nat
    /\ {Limit, PageCap, MaxTries} \subseteq Nat \ {0}

VARIABLES
    kind,   \* the platform of this shop
    shop,   \* its listings
    last,   \* the highest id it has given out
    access, \* it accepts the credentials
    revoked, \* tokens that expired or were revoked so far (Shoper, Allegro)
    call,   \* the method calls
    edits, faults,
    note    \* what the properties remember of a call

vars == <<kind, shop, last, access, revoked, call, edits, faults, note>>

Blank == [price |-> Dropped, stock |-> Dropped, name |-> Dropped,
          description |-> Dropped, live |-> Dropped, images |-> {}]

Listed == {i \in Ids : shop[i] # NoListing}

Ascending(S) ==
    [n \in 1 .. Cardinality(S) |-> CHOOSE i \in S : Cardinality(S \cap (1 .. i)) = n]

\* As every platform returns them.
InOrder == Ascending(Listed)

-----------------------------------------------------------------------------
(* Requests.  set is what a request sends, drop what the platform clears    *)
(* because it was not sent.                                                 *)

Requests ==
    [do : {"get", "look", "fetch", "page", "stockid", "raise", "post", "put", "append"},
     set : SUBSET Parts, drop : SUBSET Parts]

Read(what) == [do |-> what, set |-> {}, drop |-> {}]

\* get reads the listing; look and fetch read something else.
Get == Read("get")
Look == Read("look")
Fetch == Read("fetch")
Page == Read("page")
StockId == Read("stockid")
Raise == Read("raise")

Post(set) == [do |-> "post", set |-> set, drop |-> {}]

Put(set) == [do |-> "put", set |-> set, drop |-> {}]

\* Appending an image is a request of its own where the platform has one.
Append1 == [do |-> "append", set |-> {"images"}, drop |-> {}]

\* What a product consists of: a payload carries what was given.
Full(g) == {"name", "live"} \cup g

\* What a payload leaves out by its class's account: an Allegro offer is sent as
\* a draft and without its description; the images of Shoper and PrestaShop are a
\* resource of their own.
Unsent(k, op) ==
    CASE op \notin {"create", "update"} -> {}
      [] op \in {"create", "update"} /\ k = "allegro" -> {"description", "live"}
      [] op \in {"create", "update"} /\ k \in {"shoper", "prestashop"} -> {"images"}
      [] OTHER -> {}

\* The fields a method is meant to change.
Named(op, g) == CASE op \in {"create", "update"} -> Full(g)
                  [] op \in {"price", "stock"} -> {op}
                  [] op = "publish" -> {"live"}
                  [] op = "image" -> {"images"}
                  [] OTHER -> {}

WooCommerce(op, g) ==
    CASE op = "list" -> <<Page>>
      [] op = "read" -> <<Get>>
      [] op = "create" -> <<Post(Full(g))>>
      [] op = "categories" -> <<Look>>
      [] op = "image" -> <<Get, Put({"images"})>>
      [] OTHER -> <<Put(Named(op, g))>>

\* What of a product an offer's payload carries, beside INACTIVE.
Offer(g) == {"name"} \cup (g \ {"description"})

\* An update makes a live offer a draft again; the image goes to Allegro's own
\* host first.
Allegro(op, g) ==
    CASE op = "list" -> <<Page>>
      [] op = "read" -> <<Get>>
      [] op = "create" -> <<Post(Offer(g))>>
      [] op = "update" -> <<[do |-> "put", set |-> Offer(g), drop |-> {"live"}]>>
      [] op = "categories" -> <<Look>>
      [] op = "image" -> <<Look, Get, Put({"images"})>>
      [] OTHER -> <<Put(Named(op, g))>>

\* A Shoper PUT replaces the nested objects it names, stock and translations.
ShoperObjects == {{"price", "stock"}, {"name", "description", "live"}}

ShoperPut(set) ==
    [do |-> "put", set |-> set,
     drop |-> (UNION {o \in ShoperObjects : o \cap set # {}}) \ set]

\* Variant: the changed field is sent as a bare fragment, as elsewhere.
ReadWrite_Fragment(field) == <<ShoperPut({field})>>

\* The object a field lives in is read and written whole.
ReadWrite(field) ==
    <<Get, ShoperPut(UNION {o \in ShoperObjects : field \in o})>>

Shoper(op, g) ==
    CASE op = "list" -> <<Page>>
      [] op = "read" -> <<Get>>
      [] op = "create" -> <<Post(Full(g) \ {"images"}), Get>>
      [] op = "update" -> <<ShoperPut(Full(g) \ {"images"}), Get>>
      [] op \in {"price", "stock"} -> ReadWrite(op)
      [] op = "categories" -> <<Look>>
      [] op = "image" -> <<Append1>>
      [] op = "publish" -> ReadWrite("live")

\* Variant: the record is found and not written.
SetStock_FindOnly(g) == IF "stock" \in g THEN <<StockId>> ELSE <<>>

\* _set_stock: the quantity lives in a record of its own, found first.
SetStock(g) == IF "stock" \in g THEN <<StockId, Put({"stock"})>> ELSE <<>>

\* A product's own record, without its quantity.
ProductFields(g) == Full(g) \ {"stock", "images"}

PrestaShop(op, g) ==
    CASE op = "list" -> <<Page, Look>>
      [] op = "read" -> <<Get, Look>>
      [] op = "create" -> <<Post(ProductFields(g))>> \o SetStock(g) \o <<Get, Look>>
      [] op = "update" -> <<Put(ProductFields(g))>> \o SetStock(g) \o <<Get, Look>>
      [] op = "stock" -> <<Get>> \o SetStock({"stock"})
      [] op = "categories" -> <<Look>>
      [] op = "image" -> <<Fetch, Append1>>
      [] OTHER -> <<Put(Named(op, g))>>

\* Reads only: no payload of IdoSell's could be confirmed.
IdoSell(op, g) ==
    CASE op = "list" -> <<Page>>
      [] op = "read" -> <<Get>>
      [] op = "categories" -> <<Look>>
      [] OTHER -> <<Raise>>

\* In memory, one step each; an update puts the product in place of the old.
Mock(op, g) ==
    CASE op = "list" -> <<Page>>
      [] op = "read" -> <<Get>>
      [] op = "create" -> <<Post(Full(g))>>
      [] op = "update" -> <<[do |-> "put", set |-> Full(g),
                             drop |-> Parts \ Full(g)]>>
      [] op = "categories" -> <<Look>>
      [] op = "image" -> <<Append1>>
      [] OTHER -> <<Put(Named(op, g))>>

Method(k, op, g) ==
    CASE k = "woocommerce" -> WooCommerce(op, g)
      [] k = "allegro"     -> Allegro(op, g)
      [] k = "shoper"      -> Shoper(op, g)
      [] k = "prestashop"  -> PrestaShop(op, g)
      [] k = "idosell"     -> IdoSell(op, g)
      [] k = "mock"        -> Mock(op, g)

Script(c) == Method(kind, call[c].op, call[c].given)

-----------------------------------------------------------------------------
(* Paging: whether another page follows page n (from 0) of got listings out *)
(* of total, which the platform told or did not.                            *)

\* IdoSell is asked for as many and gives fewer.
PageSize == IF kind = "idosell" THEN Min({Limit, PageCap}) ELSE Limit

Pages(total) == (total + Limit - 1) \div Limit

\* An answer without the number of pages is taken for the last.
WooCommerceMore(n, total, got, told) == n + 1 < IF told THEN Pages(total) ELSE n + 1

ShoperMore(n, total, got, told) == n + 1 < IF told THEN Pages(total) ELSE n + 1

\* Without a total, what came so far is all there is.
AllegroMore(n, total, got, told) ==
    n * Limit + Limit < IF told THEN total ELSE n * Limit + got

\* Variant: a page that is exactly full is taken for the last.
PrestaShopMore_Strict(n, total, got, told) == got > Limit

\* No total is relied on: a full page means there may be another.
PrestaShopMore(n, total, got, told) == got = Limit

IdoSellMore(n, total, got, told) == got = Limit

MockMore(n, total, got, told) == n * Limit + Limit < total

More(n, total, got, told) ==
    CASE kind = "woocommerce" -> WooCommerceMore(n, total, got, told)
      [] kind = "allegro"     -> AllegroMore(n, total, got, told)
      [] kind = "shoper"      -> ShoperMore(n, total, got, told)
      [] kind = "prestashop"  -> PrestaShopMore(n, total, got, told)
      [] kind = "idosell"     -> IdoSellMore(n, total, got, told)
      [] kind = "mock"        -> MockMore(n, total, got, told)

\* The platforms whose answers may come without it.
Counting == {"woocommerce", "shoper", "allegro"}

-----------------------------------------------------------------------------
\* The access token a connector holds: Shoper's gets its own, Allegro's is given
\* one.
Tokens == {"none", "good", "stale"}

Idle == [state |-> "idle"]

\* A method call; seen, got and more are what it read so far.
Begun == [state : {"running", "ok", "auth", "missing", "error"}, op : Ops, given : SUBSET Optional,
          id : Ids, at : Nat, seen : Listing \cup {NoListing}, token : Tokens,
          again : BOOLEAN, tries : 1 .. MaxTries, page : Nat, got : Seq(Ids),
          more : BOOLEAN, listed : Seq(Ids)]

TypeOK ==
    /\ kind \in Kinds
    /\ shop \in [Ids -> Listing \cup {NoListing}]
    /\ last \in 0 .. MaxListings
    /\ access \in BOOLEAN
    /\ revoked \in 0 .. MaxRevoked
    /\ edits \in 0 .. MaxEdits /\ faults \in 0 .. MaxFaults
    /\ call \in [Calls -> Begun \cup {Idle}]
    /\ \A c \in Calls : call[c] # Idle => call[c].at \in 1 .. Len(Script(c))
    /\ note \in [Calls -> [wrote : SUBSET Parts, gone : BOOLEAN, steady : BOOLEAN]]

Original == [price |-> 0, stock |-> 0, name |-> 0, description |-> 0,
             live |-> 0, images |-> {0}]

Init ==
    /\ kind \in Kinds
    /\ last \in Sizes
    /\ shop = [i \in Ids |-> IF i <= last THEN Original ELSE NoListing]
    /\ access = TRUE
    /\ revoked = 0
    /\ call = [c \in Calls |-> Idle]
    /\ edits = 0
    /\ faults = 0
    /\ note = [c \in Calls |-> [wrote |-> {}, gone |-> FALSE, steady |-> TRUE]]

\* Only these two are called with a product.
Given(op) == IF op \in {"create", "update"} THEN Givens ELSE {{}}

\* An AllegroConnector is made with a token issued before, once one expired an
\* old one perhaps.
TokensAtFirst ==
    IF kind # "allegro" THEN {"none"}
    ELSE IF revoked = 0 THEN {"good"} ELSE {"good", "stale"}

Start(c, op, id, g, token) ==
    /\ call[c] = Idle
    /\ g \in Given(op) /\ token \in TokensAtFirst
    /\ call' = [call EXCEPT ![c] =
          [state |-> "running", op |-> op, given |-> g, id |-> id, at |-> 1,
           seen |-> NoListing, token |-> token, again |-> FALSE, tries |-> 1,
           page |-> 0, got |-> <<>>, more |-> FALSE, listed |-> <<>>]]
    /\ note' = [note EXCEPT ![c].steady = TRUE]
    /\ UNCHANGED <<kind, shop, last, access, revoked, edits, faults>>

-----------------------------------------------------------------------------
(* One request.                                                             *)

Running(c) == call[c] # Idle /\ call[c].state = "running"

Request(c) == Script(c)[call[c].at]

\* The shop sees the request and the credentials it carries pass.
Accepted(c) ==
    /\ Running(c) /\ Request(c).do # "raise"
    /\ kind # "mock" /\ Request(c).do # "fetch" =>
          access /\ (kind \in {"shoper", "allegro"} => call[c].token = "good")

\* Only a request about one listing can miss it.
Present(c) ==
    Request(c).do \in {"get", "put", "append"} => call[c].id \in Listed

\* What a call holds while it runs goes with it, its connector stays.
Returned(rec, state) ==
    [rec EXCEPT !.state = state, !.at = 1, !.more = FALSE, !.got = <<>>,
                !.seen = NoListing, !.again = FALSE,
                !.token = IF state = "error" THEN @ ELSE "none"]

\* The next request, the next page, or the method returns.
Advance(c, by, rec) ==
    LET at == call[c].at + by
        done == at > Len(Script(c))
        next == [rec EXCEPT !.again = FALSE]
    IN call' = [call EXCEPT ![c] =
          IF ~done THEN [next EXCEPT !.at = at]
          ELSE IF call[c].op # "list" THEN Returned(next, "ok")
          ELSE LET read == [next EXCEPT !.listed = @ \o rec.got, !.got = <<>>,
                                        !.at = 1, !.page = @ + 1]
               IN IF rec.more THEN read ELSE Returned(read, "ok")]

\* What a put makes of the listing: the named fields are the call's, the
\* others it sends are as it read them.  An image list is replaced.
Written(c, l) ==
    LET r == Request(c)
        named == Named(call[c].op, call[c].given)
        value(f) == IF f \in r.drop THEN Dropped
                    ELSE IF f \notin r.set THEN l[f]
                    ELSE IF f \in named THEN c ELSE call[c].seen[f]
    IN [price |-> value("price"), stock |-> value("stock"),
        name |-> value("name"), description |-> value("description"),
        live |-> value("live"),
        images |-> IF "images" \in r.drop THEN {}
                   ELSE IF "images" \notin r.set THEN l.images
                   ELSE IF r.do = "append" THEN l.images \cup {c}
                   ELSE IF call[c].op = "image" THEN call[c].seen.images \cup {c}
                   ELSE {c}]

Unsteady == [d \in Calls |-> [note[d] EXCEPT !.steady = FALSE]]

\* The platform carries a writing request out.
Apply(c) ==
    LET r == Request(c)
        set == r.set \cap Named(call[c].op, call[c].given)
    IN /\ \/ /\ r.do = "post"
             /\ last < MaxListings
             /\ last' = last + 1
             /\ shop' = [shop EXCEPT ![last + 1] = Written(c, Blank)]
             /\ note' = [Unsteady EXCEPT ![c].wrote = @ \cup set]
          \/ /\ r.do \in {"put", "append"}
             /\ call[c].id \in Listed
             /\ shop' = [shop EXCEPT ![call[c].id] = Written(c, @)]
             /\ note' = [note EXCEPT ![c].wrote = @ \cup set]
             /\ UNCHANGED last
       /\ UNCHANGED <<kind, access, revoked, edits>>

Writes(c) ==
    /\ Accepted(c)
    /\ Apply(c)
    /\ Advance(c, 1, IF Request(c).do = "post" THEN [call[c] EXCEPT !.id = last']
                     ELSE call[c])
    /\ UNCHANGED faults

Reads(c) ==
    /\ Accepted(c) /\ Present(c)
    /\ \/ /\ Request(c).do = "get"
          /\ Advance(c, 1, [call[c] EXCEPT !.seen = shop[call[c].id]])
       \/ /\ Request(c).do \in {"look", "fetch"}
          /\ Advance(c, 1, call[c])
    /\ UNCHANGED <<kind, shop, last, access, revoked, edits, faults, note>>

\* Without a stock record _set_stock returns and nothing is set.
FindsStock(c) ==
    /\ Accepted(c) /\ Request(c).do = "stockid"
    /\ Advance(c, IF call[c].id \in Listed THEN 1 ELSE 2, call[c])
    /\ UNCHANGED <<kind, shop, last, access, revoked, edits, faults, note>>

PageOf(n) ==
    SubSeq(InOrder, n * PageSize + 1, Min({n * PageSize + PageSize, Len(InOrder)}))

\* A page of the listing, with or without the total.
Lists(c, told) ==
    /\ Accepted(c) /\ Request(c).do = "page"
    /\ told \/ kind \in Counting
    /\ LET n == call[c].page
       IN Advance(c, 1, [call[c] EXCEPT !.got = PageOf(n),
                              !.more = More(n, Len(InOrder), Len(PageOf(n)), told)])
    /\ note' = IF told THEN note ELSE [note EXCEPT ![c].steady = FALSE]
    /\ UNCHANGED <<kind, shop, last, access, revoked, edits, faults>>

Fails(c, state) ==
    call' = [call EXCEPT ![c] = Returned(@, state)]

\* ConnectorNotFoundError.
NotFound(c) ==
    /\ Accepted(c) /\ ~Present(c)
    /\ Fails(c, "missing")
    /\ UNCHANGED <<kind, shop, last, access, revoked, edits, faults, note>>

Faulty(c) == kind # "mock" /\ faults < MaxFaults /\ faults' = faults + 1

\* 429, another status from 400 up, or a write IdoSell's class will not guess.
Refused(c) ==
    /\ Running(c)
    /\ \/ Request(c).do = "raise" /\ UNCHANGED faults
       \/ Request(c).do # "raise" /\ Faulty(c)
    /\ Fails(c, "error")
    /\ UNCHANGED <<kind, shop, last, access, revoked, edits, note>>

\* The answer is lost, after the platform did what was asked.
TimesOut(c) ==
    /\ Accepted(c) /\ Faulty(c)
    /\ Apply(c)
    /\ Fails(c, "error")

\* Shoper's _request gets a token when it has none or the clock says so...
Authenticate(c) ==
    /\ kind = "shoper" /\ Running(c) /\ ~call[c].again /\ access
    /\ call' = [call EXCEPT ![c].token = "good"]
    /\ UNCHANGED <<kind, shop, last, access, revoked, edits, faults, note>>

Stale(c) == call[c].token = "stale"

\* ... and once more when the shop answers 401 with the one it has.
Reauthenticate(c) ==
    /\ kind = "shoper" /\ Running(c) /\ Stale(c) /\ ~call[c].again /\ access
    /\ call' = [call EXCEPT ![c].token = "good", ![c].again = TRUE]
    /\ UNCHANGED <<kind, shop, last, access, revoked, edits, faults, note>>

\* Variant: a 401 is taken at its word.
Denied_AtOnce(c) ==
    /\ Running(c) /\ Request(c).do \notin {"raise", "fetch"} /\ kind # "mock"
    /\ ~access \/ Stale(c)
    /\ Fails(c, "auth")
    /\ UNCHANGED <<kind, shop, last, access, revoked, edits, faults, note>>

\* ConnectorAuthError; Allegro's at once.
Denied(c) ==
    /\ Running(c) /\ Request(c).do \notin {"raise", "fetch"} /\ kind # "mock"
    /\ ~access \/ (Stale(c) /\ (kind = "shoper" => call[c].again))
    /\ Fails(c, "auth")
    /\ UNCHANGED <<kind, shop, last, access, revoked, edits, faults, note>>

\* The caller calls again: a list from the cursor it has, the others anew.
Retry(c) ==
    /\ call[c] # Idle /\ call[c].state = "error" /\ call[c].tries < MaxTries
    /\ call' = [call EXCEPT ![c].state = "running", ![c].tries = @ + 1]
    /\ note' = [note EXCEPT ![c].wrote = {}]
    /\ UNCHANGED <<kind, shop, last, access, revoked, edits, faults>>

-----------------------------------------------------------------------------
(* The merchant in the platform's panel, and the platform.                  *)

Edit(i, f) ==
    /\ edits < MaxEdits
    /\ i \in Listed \cap Wanted
    /\ edits' = edits + 1
    /\ shop' = IF f = "images" THEN [shop EXCEPT ![i].images = @ \cup {edits'}]
               ELSE [shop EXCEPT ![i][f] = edits']
    /\ UNCHANGED <<kind, last, access, revoked, call, faults, note>>

RemoveListing(i) ==
    /\ edits < MaxEdits
    /\ i \in Listed
    /\ edits' = edits + 1
    /\ shop' = [shop EXCEPT ![i] = NoListing]
    /\ note' = [d \in Calls |-> [note[d] EXCEPT !.steady = FALSE,
          !.gone = @ \/ (Running(d) /\ call[d].id = i)]]
    /\ UNCHANGED <<kind, last, access, revoked, call, faults>>

Holds(c) == call[c] # Idle /\ call[c].token = "good"

RevokeToken ==
    /\ revoked < MaxRevoked
    /\ \E c \in Calls : Holds(c)
    /\ revoked' = revoked + 1
    /\ call' = [c \in Calls |->
          IF Holds(c) THEN [call[c] EXCEPT !.token = "stale"] ELSE call[c]]
    /\ UNCHANGED <<kind, shop, last, access, edits, faults, note>>

RevokeAccess ==
    /\ edits < MaxEdits
    /\ kind # "mock" /\ access
    /\ edits' = edits + 1
    /\ access' = FALSE
    /\ UNCHANGED <<kind, shop, last, revoked, call, faults, note>>

Next ==
    \/ \E c \in Calls, op \in Ops, i \in Wanted, g \in SUBSET Optional, token \in Tokens :
          Start(c, op, i, g, token)
    \/ \E c \in Calls :
          \/ Writes(c) \/ Reads(c) \/ FindsStock(c) \/ \E told \in BOOLEAN : Lists(c, told)
          \/ NotFound(c) \/ Refused(c) \/ TimesOut(c)
          \/ Authenticate(c) \/ Reauthenticate(c) \/ Denied(c) \/ Retry(c)
    \/ \E i \in Ids : RemoveListing(i) \/ \E f \in Edited : Edit(i, f)
    \/ RevokeToken \/ RevokeAccess

Spec == Init /\ [][Next]_vars

-----------------------------------------------------------------------------
Targeted == {"price", "stock", "publish", "image"}

PutsBack(c, i, f) ==
    /\ call[c].id = i /\ call[c].seen # NoListing
    /\ shop'[i][f] = call[c].seen[f]

KeepsSiblings(c, i) ==
    (/\ call[c] # Idle /\ call'[c] # call[c] /\ call[c].op \in Targeted
     /\ i \in Listed /\ shop'[i] # NoListing)
    => /\ \A f \in Fields \ Named(call[c].op, {}) :
             shop'[i][f] = shop[i][f] \/ PutsBack(c, i, f)
       /\ \/ shop[i].images \subseteq shop'[i].images
          \/ /\ call[c].id = i /\ call[c].seen # NoListing
             /\ call[c].seen.images \subseteq shop'[i].images

(* update_price, update_stock, publish_offer and upload_image never clear a *)
(* field they do not name: a listing's other fields change in such a call's *)
(* step only to what the call itself read before (Shoper's nested objects,  *)
(* the rewritten image list of WooCommerce and Allegro).                    *)
SiblingsKept == [][\A c \in Calls, i \in Ids : KeepsSiblings(c, i)]_vars

(* A method that returned has written every field it names, however many    *)
(* requests and retries that took, unless the listing was removed meanwhile *)
(* (PrestaShop's _set_stock then returns without a word).  What a class     *)
(* says its payload has no place for (Unsent) is not promised.              *)
SuccessIsApplied ==
    \A c \in Calls : call[c] # Idle /\ call[c].state = "ok" =>
        \/ Named(call[c].op, call[c].given) \ Unsent(kind, call[c].op) \subseteq note[c].wrote
        \/ note[c].gone

(* ConnectorAuthError means the credentials.  Shoper's connector gets its   *)
(* own tokens and one that was revoked early never surfaces, at any point   *)
(* of a method; Allegro's has the one it was made with, and its error means *)
(* that one expired: the caller has to refresh it.                          *)
AuthErrorIsReal ==
    \A c \in Calls : call[c] # Idle /\ call[c].state = "auth" =>
        \/ ~access
        \/ kind = "shoper" /\ revoked > 1
        \/ kind = "allegro" /\ revoked > 0

(* Reading get_products to its last page returns every listing once, with   *)
(* failed pages retried and the last page full, when no listing came or     *)
(* went since, the answers of WooCommerce, Shoper and Allegro told the      *)
(* total, and IdoSell was not asked for more than it gives on a page.       *)
ListsAll ==
    \A c \in Calls :
        /\ call[c] # Idle /\ call[c].state = "ok" /\ call[c].op = "list"
        /\ note[c].steady
        /\ kind = "idosell" => Limit <= PageCap
        => call[c].listed = InOrder
===============================================================================
