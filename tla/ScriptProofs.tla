---------------------------- MODULE ScriptProofs -----------------------------
(***************************************************************************)
(* Theorems of the two programs a scheduler starts beside the shop: the    *)
(* catalogue import (ZohoSync), for any records, pages, categories and     *)
(* incidents, and the queue of sync jobs (SyncQueue), for any number of    *)
(* processes, types and jobs.                                              *)
(***************************************************************************)
EXTENDS ZohoSync, SyncQueue, FiniteSetTheorems, TLAPS

(***************************************************************************)
(* The catalogue import.                                                   *)
(***************************************************************************)
\* A page in hands: records as they were read, of SKUs asked for by their
\* record's web flag.  A record that was taken over has not changed since.
PageFits ==
  run.at \in {"page"} \union Handling \union Writing =>
    /\ \A s \in DOMAIN run.todo :
         /\ run.todo[s] \in Listings[s]
         /\ run.todo[s].web
         /\ s \notin run.off
         /\ s \in synced => zoho[s] = run.todo[s]
    /\ \A s \in run.off : s \in synced => ~ zoho[s].web

\* A record in hands.
RecordFits ==
  run.at \in Handling \union Writing =>
    /\ run.sku \notin DOMAIN run.todo /\ run.sku \notin run.off
    /\ run.listing.web
    /\ run.listing.category \in Categories /\ run.listing.department \in Categories
    /\ run.sku \in synced => zoho[run.sku] = run.listing
    /\ run.at = "category" => run.listing.department \in DOMAIN categories

\* Nobody else is sold as this product.
Only(slug) == \A s \in DOMAIN variants : variants[s] = slug => s = run.sku

\* What the statements before this one have made of the product.
ProductFits ==
  run.at \in Writing =>
    /\ run.at \in {"clear", "value"} => run.listing.value # None
    /\ run.sku \in DOMAIN variants => variants[run.sku] = run.slug
    /\ InHand.published
    /\ InHand.category = run.listing.category
    /\ run.sku \in synced /\ Only(run.slug) => InHand.images = run.listing.images
    /\ run.at \notin {"clear", "value"} /\ run.listing.value # None =>
         InHand.values[run.listing.category] = run.listing.value
    /\ run.at \in {"collect", "stock", "images"} => run.sku \in DOMAIN variants
    /\ run.at = "collect" =>
         /\ run.left \subseteq run.listing.collections
         /\ run.listing.collections \subseteq InHand.collections \union run.left
    /\ run.at \in {"stock", "images"} => InHand.collections = run.listing.collections
    /\ run.at = "images" =>
         /\ run.sku \in stocks
         /\ run.left \subseteq run.listing.images
         /\ ~ run.lost => run.listing.images \subseteq InHand.images \union run.left

\* The roots that have their numbers, and the children of one that have.
Roots == Children(None) \ run.roots
Numbers(root) == Children(root) \ run.children

\* The root whose children are being written.
Current(root) ==
  /\ root \in Roots
  /\ run.children \subseteq Children(root)
  /\ categories[root].tree = run.tid
  /\ run.left + 2 * Cardinality(run.children) = 2 * Cardinality(Children(root)) + 2
  /\ run.left >= 2
  /\ \A c \in Numbers(root) : categories[c].rght < run.left

RootsFit ==
  /\ \A r \in Roots :
       /\ categories[r].tree \in 1 .. run.tid
       /\ categories[r].lft = 1
       /\ categories[r].rght = 2 * Cardinality(Children(r)) + 2
  /\ \A q, r \in Roots : categories[q].tree = categories[r].tree => q = r

ChildrenFit ==
  \A r \in Roots : \A c \in Numbers(r) :
    /\ categories[c].tree = categories[r].tree
    /\ categories[c].lft >= 2
    /\ categories[c].rght = categories[c].lft + 1
    /\ categories[c].rght < categories[r].rght
    /\ \A d \in Numbers(r) :
         c # d => \/ categories[c].rght < categories[d].lft
                  \/ categories[d].rght < categories[c].lft

NumbersFit ==
  run.at = "number" =>
    /\ run.roots \subseteq Children(None)
    /\ RootsFit
    /\ ChildrenFit
    /\ \/ Roots = {} /\ run.children = {}
       \/ \E root \in Roots : Current(root)

Nested ==
  TwoLevels =>
    \A c, d \in DOMAIN categories :
      c # d => IF categories[c].parent = d THEN Inside(c, d)
               ELSE categories[d].parent = c \/ Apart(c, d)

TreeFits ==
  /\ IsFiniteSet(DOMAIN categories)
  /\ NumbersFit
  /\ run.at = "bust" \/ (run.at = "idle" /\ ~ stopped) => Nested

CacheFits ==
  /\ run.at = "bust" => /\ query = "stale" => raced
                        /\ cache = "stale" => run.keys \/ raced
  /\ run.at = "idle" /\ ~ stopped /\ "stale" \in {cache, query} => raced

\* What is on sale is sold as some SKU, is in hand, or a run has died.
Bought == \A slug \in DOMAIN products :
       products[slug].published /\ slug \notin Range(variants) =>
         InProduct(slug) \/ died

ImportIInv == /\ TypeOK /\ PageFits /\ RecordFits /\ ProductFits
        /\ TreeFits /\ CacheFits /\ Bought /\ TakenOverStays

-----------------------------------------------------------------------------
(* Where the run is, and what it has in hands there.                       *)

Places == {"idle", "fetch", "tree", "page", "number", "bust"} \union Handling \union Writing

LEMMA ProcessFields ==
  ASSUME NEW p \in Process
  PROVE  /\ p.at \in Places
         /\ p.at = "idle" => p = Idle
         /\ p.at \in {"fetch", "tree"} => p \in Between
         /\ p.at = "page" => p \in OnPage
         /\ p.at \in Handling \union Writing => p \in OnRecord
         /\ p.at = "number" => p \in OnTree
         /\ p.at = "bust" => p \in AtKeys
BY DEF Process, Idle, Between, OnPage, OnRecord, OnTree, AtKeys, Handling, Writing, Places

LEMMA ListingFields ==
  ASSUME NEW sku \in Skus, NEW listing \in Listings[sku]
  PROVE  /\ listing \in Listing
         /\ listing \in UNION Range(Listings)
BY ZohoAssumption DEF ZohoAssumption, Range

\* A record in hands is one there may be for its SKU.
LEMMA RecordInHands ==
  ASSUME TypeOK, run.at \in Handling \union Writing
  PROVE  /\ run \in OnRecord
         /\ run.sku \in Skus
         /\ run.listing \in Listings[run.sku]
         /\ run.listing \in Listing
         /\ run.at \in Writing => /\ run.slug \in DOMAIN products
                                  /\ InHand \in ProductRow
<1>1. run \in OnRecord
  BY ProcessFields DEF TypeOK
<1>2. run.sku \in Skus /\ run.listing \in Listings[run.sku]
  BY <1>1 DEF TypeOK, OnRecord
<1> QED BY <1>1, <1>2, ListingFields DEF TypeOK, InHand

\* What Write leaves besides the two tables.
LEMMA WriteTypes ==
  ASSUME NEW P, NEW C, Write(P, C), {cache, query} \subseteq Answers
  PROVE  products' = P /\ categories' = C /\ {cache', query'} \subseteq Answers
BY DEF Write, Outdated, Answers

\* One statement on the product in hand.
LEMMA ChangeTypes ==
  ASSUME TypeOK, run.at \in Writing, NEW product \in ProductRow, Change(product)
  PROVE  /\ DOMAIN products' = DOMAIN products
         /\ products'[run.slug] = product
         /\ \A slug \in DOMAIN products : slug # run.slug => products'[slug] = products[slug]
         /\ \A slug \in DOMAIN products' : products'[slug] \in ProductRow
         /\ categories' = categories
         /\ {cache', query'} \subseteq Answers
<1>1. run.slug \in DOMAIN products
  BY DEF TypeOK
<1>2. /\ products' = [products EXCEPT ![run.slug] = product] /\ categories' = categories
      /\ {cache', query'} \subseteq Answers
  BY WriteTypes DEF Change, TypeOK
<1> QED BY <1>1, <1>2 DEF TypeOK

-----------------------------------------------------------------------------
(* Typing.                                                                 *)

\* The run goes on with the record in hands.
Continues(at) ==
  /\ run' \in OnRecord
  /\ run'.at = at
  /\ UNCHANGED <<run.sku, run.listing, run.todo, run.off, run.seen, run.more>>

LEMMA AtContinues ==
  ASSUME run \in OnRecord, NEW at \in Handling \union Writing
  PROVE  /\ run' = At(at) => Continues(at) /\ UNCHANGED <<run.slug, run.left, run.lost>>
         /\ \A slug \in Slugs :
              run' = [At(at) EXCEPT !.slug = slug] =>
                Continues(at) /\ run'.slug = slug /\ UNCHANGED <<run.left, run.lost>>
         /\ \A left \in SUBSET (Collections \union Images) :
              run' = [At(at) EXCEPT !.left = left] =>
                Continues(at) /\ run'.left = left /\ UNCHANGED <<run.slug, run.lost>>
BY DEF At, Continues, OnRecord

LEMMA LeftContinues ==
  ASSUME run \in OnRecord, NEW x \in run.left
  PROVE  /\ run' = [run EXCEPT !.left = @ \ {x}] =>
              Continues(run.at) /\ run'.left = run.left \ {x} /\ UNCHANGED <<run.slug, run.lost>>
         /\ run' = [run EXCEPT !.left = @ \ {x}, !.lost = TRUE] =>
              /\ Continues(run.at) /\ run'.left = run.left \ {x} /\ run'.lost
              /\ run'.slug = run.slug
BY DEF Continues, OnRecord

\* The types of the process are kept by going on.
LEMMA ContinuesTypes ==
  ASSUME TypeOK, run.at \in Handling \union Writing, NEW at, Continues(at),
         at \in Writing => run'.slug \in DOMAIN products'
  PROVE  /\ run' \in Process
         /\ run'.at \in Handling \union Writing => run'.listing \in Listings[run'.sku]
         /\ run'.at \in Writing => run'.slug \in DOMAIN products'
BY DEF TypeOK, Continues, Process

OtherTypes ==
  /\ zoho' \in Records /\ recent' \subseteq Skus
  /\ variants' \in [DOMAIN variants' -> DOMAIN products']
  /\ DOMAIN variants' \subseteq Skus
  /\ stocks' \subseteq DOMAIN variants'
  /\ incidents' \in 0 .. MaxIncidents
  /\ died' \in BOOLEAN /\ stopped' \in BOOLEAN /\ raced' \in BOOLEAN
  /\ synced' \subseteq Skus

TablesTyped ==
  /\ DOMAIN products' \subseteq Slugs
  /\ \A slug \in DOMAIN products' : products'[slug] \in ProductRow
  /\ DOMAIN categories' \subseteq Categories
  /\ \A c \in DOMAIN categories' :
       categories'[c] \in [parent : DOMAIN categories' \union {None},
                           lft : Nat, rght : Nat, tree : Nat]
  /\ {cache', query'} \subseteq Answers

RunTyped ==
  /\ run' \in Process
  /\ run'.at \in Handling \union Writing => run'.listing \in Listings[run'.sku]
  /\ run'.at \in Writing => run'.slug \in DOMAIN products'

LEMMA TypedParts == OtherTypes /\ TablesTyped /\ RunTyped => TypeOK'
BY DEF OtherTypes, TablesTyped, RunTyped, TypeOK

\* A statement on the product in hand that leaves the variants and stocks.
LEMMA ChangeStep ==
  ASSUME TypeOK, run.at \in Writing, NEW product \in ProductRow, Change(product),
         NEW at \in Writing, Continues(at), run'.slug = run.slug,
         UNCHANGED <<zoho, recent, variants, stocks, died, stopped, raced>>,
         incidents' \in 0 .. MaxIncidents, synced' \subseteq Skus
  PROVE  TypeOK'
<1>1. TablesTyped /\ DOMAIN products' = DOMAIN products
  BY ChangeTypes DEF TablesTyped, TypeOK
<1>2. OtherTypes
  BY <1>1 DEF OtherTypes, TypeOK
<1>3. RunTyped
  BY <1>1, ContinuesTypes DEF RunTyped, TypeOK
<1> QED BY <1>1, <1>2, <1>3, TypedParts

\* Nothing is written.
LEMMA QuietStep ==
  ASSUME TypeOK, UNCHANGED <<shop, died, raced, recent, zoho>>, run' \in Process,
         run'.at \in Writing => run' = run,
         run'.at \in Handling => run'.listing \in Listings[run'.sku],
         {cache', query'} \subseteq Answers, incidents' \in 0 .. MaxIncidents,
         stopped' \in BOOLEAN, synced' \subseteq Skus
  PROVE  TypeOK'
BY DEF TypeOK, shop

LEMMA InitTypeOK == Init => TypeOK
<1> SUFFICES ASSUME Init PROVE TypeOK
  OBVIOUS
<1>1. run \in Process /\ run.at \notin Handling \union Writing
  BY DEF Init, Process, Idle, Handling, Writing
<1>2. /\ DOMAIN products = {} /\ DOMAIN categories = {} /\ DOMAIN variants = {}
      /\ variants \in [{} -> {}]
  BY DEF Init
<1>3. /\ 0 \in 0 .. MaxIncidents /\ {cache, query} \subseteq Answers
  BY ZohoAssumption DEF ZohoAssumption, Init, Answers
<1>4. died \in BOOLEAN /\ stopped \in BOOLEAN /\ raced \in BOOLEAN
  BY DEF Init
<1> QED BY <1>1, <1>2, <1>3, <1>4 DEF Init, TypeOK

\* What happens outside the run.
Outside ==
  \/ \E sku \in Skus : Edit(sku) \/ Forget(sku)
  \/ Ask \/ Keep \/ Expire

LEMMA OutsideTypes ==
  ASSUME TypeOK, Outside
  PROVE  TypeOK' /\ UNCHANGED <<shop, run, died, stopped, raced>>
<1>1. ASSUME NEW sku \in Skus, Edit(sku)
      PROVE  TypeOK' /\ UNCHANGED <<shop, run, died, stopped, raced>>
  <2>1. PICK listing \in Listings[sku] : zoho' = [zoho EXCEPT ![sku] = listing]
    BY <1>1 DEF Edit
  <2>2. zoho' \in Records
    <3>1. listing \in UNION Range(Listings)
      BY ListingFields
    <3> QED BY <2>1, <3>1 DEF TypeOK, Records
  <2>3. incidents' \in 0 .. MaxIncidents
    BY <1>1, ZohoAssumption DEF Edit, Incident, TypeOK, ZohoAssumption
  <2> QED BY <1>1, <2>2, <2>3 DEF Edit, TypeOK, shop
<1>2. ASSUME NEW sku \in Skus, Forget(sku)
      PROVE  TypeOK' /\ UNCHANGED <<shop, run, died, stopped, raced>>
  <2>1. incidents' \in 0 .. MaxIncidents
    BY <1>2, ZohoAssumption DEF Forget, Incident, TypeOK, ZohoAssumption
  <2> QED BY <1>2, <2>1 DEF Forget, TypeOK, shop, ghosts
<1>3. CASE Ask
  <2>1. incidents' \in 0 .. MaxIncidents
    BY <1>3, ZohoAssumption DEF Ask, Incident, TypeOK, ZohoAssumption
  <2> QED BY <1>3, <2>1 DEF Ask, TypeOK, shop, ghosts, Answers
<1>4. CASE Keep \/ Expire
  BY <1>4 DEF Keep, Expire, TypeOK, shop, ghosts, Answers
<1> QED BY <1>1, <1>2, <1>3, <1>4 DEF Outside

LEMMA RestrictType ==
  ASSUME NEW f, NEW S \in SUBSET Skus, S \subseteq DOMAIN f,
         \A s \in S : f[s] \in UNION Range(Listings)
  PROVE  /\ Restrict(f, S) \in Pages
         /\ DOMAIN Restrict(f, S) = S
         /\ \A s \in S : Restrict(f, S)[s] = f[s]
<1>1. Restrict(f, S) \in [S -> UNION Range(Listings)]
  BY DEF Restrict
<1> QED BY <1>1 DEF Pages, Restrict

LEMMA PageFields ==
  ASSUME NEW todo \in Pages
  PROVE  DOMAIN todo \subseteq Skus /\ \A s \in DOMAIN todo : todo[s] \in UNION Range(Listings)
BY DEF Pages

LEMMA FetchTypes ==
  ASSUME TypeOK, FetchPage
  PROVE  /\ run' \in OnPage
         /\ DOMAIN run'.todo \cap run'.off = {}
         /\ \A s \in DOMAIN run'.todo : run'.todo[s] = zoho[s] /\ zoho[s].web
         /\ \A s \in run'.off : s \in Skus /\ ~ zoho[s].web
<1>1. PICK page \in SUBSET (recent \ run.seen) :
        run' = [at   |-> "page",
                seen |-> run.seen \union page,
                more |-> MoreRecords((recent \ run.seen) \ page),
                todo |-> Restrict(zoho, {s \in page : zoho[s].web}),
                off  |-> {s \in page : ~ zoho[s].web}]
  BY DEF FetchPage
<1>2. run \in Between /\ page \subseteq Skus
  BY ProcessFields DEF FetchPage, TypeOK
<1>3. zoho \in [Skus -> UNION Range(Listings)]
  BY DEF TypeOK, Records
<1>4. PICK web \in SUBSET Skus : web = {s \in page : zoho[s].web}
  BY <1>2
<1>5. Restrict(zoho, web) \in Pages /\ DOMAIN Restrict(zoho, web) = web
      /\ \A s \in web : Restrict(zoho, web)[s] = zoho[s]
  BY <1>3, RestrictType
<1>6. PICK more \in BOOLEAN : more = MoreRecords((recent \ run.seen) \ page)
  BY DEF MoreRecords
<1>7. PICK off \in SUBSET Skus : off = {s \in page : ~ zoho[s].web}
  BY <1>2
<1>8. run' = [at |-> "page", seen |-> run.seen \union page, more |-> more,
              todo |-> Restrict(zoho, web), off |-> off]
  BY <1>1, <1>4, <1>6, <1>7
<1>9. run' \in OnPage
  BY <1>2, <1>5, <1>8 DEF OnPage, Between
<1> QED BY <1>4, <1>5, <1>7, <1>8, <1>9

\* The record that is picked is on the page no more.
Picked(sku) ==
  /\ run' \in OnRecord
  /\ run'.at = "department" /\ run'.sku = sku /\ run'.listing = run.todo[sku]
  /\ DOMAIN run'.todo = DOMAIN run.todo \ {sku}
  /\ \A s \in DOMAIN run'.todo : run'.todo[s] = run.todo[s]
  /\ run'.off = run.off
  /\ run'.listing.category # None /\ run'.listing.department # None

\* Or passed over.
Skipped(sku) ==
  /\ run' \in OnPage
  /\ DOMAIN run'.todo = DOMAIN run.todo \ {sku}
  /\ \A s \in DOMAIN run'.todo : run'.todo[s] = run.todo[s]
  /\ run'.off = run.off

LEMMA NothingBroken == run.at \notin Writing => Broken = {}
BY DEF Broken, InProduct

LEMMA PickTypes ==
  ASSUME TypeOK, NEW sku \in Skus, PickProduct(sku)
  PROVE  /\ run.at = "page" /\ run \in OnPage /\ sku \in DOMAIN run.todo
         /\ \/ run' = Idle /\ stopped' = TRUE
            \/ Skipped(sku) /\ stopped' = stopped
            \/ Picked(sku) /\ stopped' = stopped
         /\ synced' = synced
         /\ UNCHANGED <<zoho, recent, shop, cache, query, incidents, died, raced>>
<1>1. run.at = "page" /\ run \in OnPage /\ sku \in DOMAIN run.todo
  BY ProcessFields DEF TypeOK, PickProduct
<1>2. run.todo \in Pages /\ \A s \in DOMAIN run.todo : run.todo[s] \in UNION Range(Listings)
  BY <1>1, PageFields DEF OnPage
<1>3. Broken = {}
  BY <1>1, NothingBroken DEF Writing
<1>4. synced' = synced
  BY <1>3 DEF PickProduct, Stop
<1>5. PICK rest : /\ rest = Restrict(run.todo, DOMAIN run.todo \ {sku})
                  /\ rest \in Pages /\ DOMAIN rest = DOMAIN run.todo \ {sku}
                  /\ \A s \in DOMAIN rest : rest[s] = run.todo[s]
  <2>1. DOMAIN run.todo \ {sku} \in SUBSET Skus
    BY <1>2, PageFields
  <2> QED BY <1>2, <2>1, RestrictType
<1>6. CASE Stop
  BY <1>1, <1>4, <1>6 DEF PickProduct, Stop
<1>7. CASE run' = [run EXCEPT !.todo = rest] /\ stopped' = stopped
  <2>1. Skipped(sku)
    BY <1>1, <1>5, <1>7 DEF Skipped, OnPage
  <2> QED BY <1>1, <1>4, <1>7, <2>1 DEF PickProduct
<1>8. CASE /\ run' = [at |-> "department", seen |-> run.seen, more |-> run.more,
                      todo |-> rest, off |-> run.off, sku |-> sku, listing |-> run.todo[sku],
                      slug |-> None, left |-> {}, lost |-> FALSE]
           /\ run.todo[sku].category # None /\ run.todo[sku].department # None
           /\ stopped' = stopped
  <2>1. Picked(sku)
    BY <1>1, <1>2, <1>5, <1>8 DEF Picked, OnPage, OnRecord, Handling, Writing
  <2> QED BY <1>1, <1>4, <1>8, <2>1 DEF PickProduct
<1> QED BY <1>5, <1>6, <1>7, <1>8 DEF PickProduct

\* A category's row is there after it is written, with the types of the table.
LEMMA UpsertTypes ==
  ASSUME TypeOK, NEW slug \in Categories, NEW parent \in DOMAIN categories \union {None},
         Write(products, Upserted(slug, parent))
  PROVE  /\ TablesTyped /\ products' = products
         /\ DOMAIN categories' = DOMAIN categories \union {slug}
         /\ \A c \in DOMAIN categories : categories'[c] = categories[c]
<1>1. /\ products' = products /\ categories' = Upserted(slug, parent)
      /\ {cache', query'} \subseteq Answers
  BY WriteTypes DEF TypeOK
<1>2. CASE slug \in DOMAIN categories
  BY <1>1, <1>2 DEF Upserted, TypeOK, TablesTyped
<1>3. CASE slug \notin DOMAIN categories
  <2> DEFINE row == [parent |-> parent, lft |-> 0, rght |-> 0, tree |-> 0]
  <2>1. categories' = [c \in DOMAIN categories \union {slug} |->
                         IF c = slug THEN row ELSE categories[c]]
    BY <1>1, <1>3 DEF Upserted, With
  <2>2. /\ DOMAIN categories' = DOMAIN categories \union {slug}
        /\ categories'[slug] = row
        /\ \A c \in DOMAIN categories : categories'[c] = categories[c]
    BY <1>3, <2>1
  <2>3. \A c \in DOMAIN categories :
          categories[c] \in [parent : DOMAIN categories' \union {None},
                             lft : Nat, rght : Nat, tree : Nat]
    BY <2>2 DEF TypeOK
  <2>4. row \in [parent : DOMAIN categories' \union {None}, lft : Nat, rght : Nat, tree : Nat]
    BY <2>2
  <2> HIDE DEF row
  <2>5. TablesTyped
    BY <1>1, <2>2, <2>3, <2>4 DEF TablesTyped, TypeOK
  <2> QED BY <1>1, <2>2, <2>5
<1> QED BY <1>2, <1>3

LEMMA DepartmentTypes ==
  ASSUME TypeOK, RecordFits, UpsertDepartment
  PROVE  /\ TypeOK' /\ Continues("category") /\ run.at = "department"
         /\ DOMAIN categories' = DOMAIN categories \union {run.listing.department}
         /\ UNCHANGED <<zoho, products, variants, stocks, ghosts>>
<1> USE DEF Handling, Writing
<1>1. run.at = "department" /\ run \in OnRecord /\ run.listing.department \in Categories
  BY RecordInHands DEF UpsertDepartment, RecordFits
<1>2. /\ TablesTyped /\ products' = products
      /\ DOMAIN categories' = DOMAIN categories \union {run.listing.department}
  BY <1>1, UpsertTypes DEF UpsertDepartment
<1>3. Continues("category")
  BY <1>1, AtContinues DEF UpsertDepartment
<1>4. RunTyped
  BY <1>1, <1>3, ContinuesTypes DEF RunTyped
<1>5. OtherTypes
  BY <1>2 DEF OtherTypes, UpsertDepartment, TypeOK, ghosts
<1> QED BY <1>1, <1>2, <1>3, <1>4, <1>5, TypedParts DEF UpsertDepartment, ghosts

LEMMA CategoryTypes ==
  ASSUME TypeOK, RecordFits, UpsertCategory
  PROVE  /\ TypeOK' /\ Continues("product") /\ run.at = "category"
         /\ DOMAIN categories' = DOMAIN categories \union {run.listing.category}
         /\ UNCHANGED <<zoho, products, variants, stocks, ghosts>>
<1> USE DEF Handling, Writing
<1>1. /\ run.at = "category" /\ run \in OnRecord /\ run.listing.category \in Categories
      /\ run.listing.department \in DOMAIN categories
  BY RecordInHands DEF UpsertCategory, RecordFits
<1>2. /\ TablesTyped /\ products' = products
      /\ DOMAIN categories' = DOMAIN categories \union {run.listing.category}
  BY <1>1, UpsertTypes DEF UpsertCategory
<1>3. Continues("product")
  BY <1>1, AtContinues DEF UpsertCategory
<1>4. RunTyped
  BY <1>1, <1>3, ContinuesTypes DEF RunTyped
<1>5. OtherTypes
  BY <1>2 DEF OtherTypes, UpsertCategory, TypeOK, ghosts
<1> QED BY <1>1, <1>2, <1>3, <1>4, <1>5, TypedParts DEF UpsertCategory, ghosts

\* The product's row says of the record what one statement can.
SavedAs(slug) ==
  LET old == IF slug \in DOMAIN products THEN products[slug] ELSE Fresh
  IN  [published |-> TRUE, category |-> run.listing.category, values |-> old.values,
       collections |-> old.collections, images |-> old.images]

LEMMA ProductTypes ==
  ASSUME TypeOK, RecordFits, SaveProduct
  PROVE  /\ TypeOK' /\ run.at = "product"
         /\ Continues(IF run.listing.value = None THEN "variant" ELSE "clear")
         /\ run'.slug = SlugFor(run.sku)
         /\ DOMAIN products' = DOMAIN products \union {run'.slug}
         /\ products'[run'.slug] = SavedAs(run'.slug)
         /\ \A slug \in DOMAIN products : slug # run'.slug => products'[slug] = products[slug]
         /\ UNCHANGED <<zoho, variants, stocks, categories, ghosts>>
<1> USE DEF Handling, Writing
<1>1. /\ run.at = "product" /\ run \in OnRecord /\ run.listing.category \in Categories
      /\ run.sku \in Skus /\ run.listing \in Listing
  BY RecordInHands DEF SaveProduct, RecordFits
<1>2. PICK slug : slug = SlugFor(run.sku)
  OBVIOUS
<1>3. slug \in Slugs
  BY <1>1, <1>2 DEF SlugFor, TypeOK, Listing
<1>4. SavedAs(slug) \in ProductRow
  BY <1>1 DEF SavedAs, ProductRow, Fresh, TypeOK
<1>5. /\ products' = With(products, slug, SavedAs(slug)) /\ categories' = categories
      /\ {cache', query'} \subseteq Answers
  BY <1>2, WriteTypes DEF SaveProduct, SavedAs, TypeOK
<1>6. /\ DOMAIN products' = DOMAIN products \union {slug}
      /\ products'[slug] = SavedAs(slug)
      /\ \A k \in DOMAIN products : k # slug => products'[k] = products[k]
  BY <1>5 DEF With
<1>7. PICK at \in {"variant", "clear"} :
        at = IF run.listing.value = None THEN "variant" ELSE "clear"
  OBVIOUS
<1>8. Continues(at) /\ run'.slug = slug
  BY <1>1, <1>2, <1>3, <1>7, AtContinues DEF SaveProduct
<1>9. TablesTyped
  BY <1>3, <1>4, <1>5, <1>6 DEF TablesTyped, TypeOK
<1>10. RunTyped
  BY <1>1, <1>6, <1>8, ContinuesTypes DEF RunTyped
<1>11. OtherTypes
  BY <1>6 DEF OtherTypes, SaveProduct, TypeOK, ghosts
<1>12. TypeOK'
  BY <1>9, <1>10, <1>11, TypedParts
<1> QED BY <1>1, <1>2, <1>5, <1>6, <1>7, <1>8, <1>12 DEF SaveProduct, ghosts

LEMMA VariantTypes ==
  ASSUME TypeOK, SaveVariant
  PROVE  /\ TypeOK' /\ run.at = "variant" /\ Continues("collect")
         /\ run'.slug = run.slug /\ run'.left = run.listing.collections
         /\ DOMAIN variants' = DOMAIN variants \union {run.sku}
         /\ \A s \in DOMAIN variants : variants'[s] = variants[s]
         /\ run.sku \notin DOMAIN variants => variants'[run.sku] = run.slug
         /\ UNCHANGED <<zoho, products, stocks, categories, ghosts>>
<1> USE DEF Handling, Writing
<1>1. /\ run.at = "variant" /\ run \in OnRecord /\ run.sku \in Skus
      /\ run.slug \in DOMAIN products /\ run.listing \in Listing
  BY RecordInHands DEF SaveVariant
<1>2. Continues("collect") /\ run'.slug = run.slug /\ run'.left = run.listing.collections
  <2>1. run.listing.collections \in SUBSET (Collections \union Images)
    BY <1>1 DEF Listing
  <2> QED BY <1>1, <2>1, AtContinues DEF SaveVariant
<1>3. /\ DOMAIN variants' = DOMAIN variants \union {run.sku}
      /\ \A s \in DOMAIN variants : variants'[s] = variants[s]
      /\ run.sku \notin DOMAIN variants => variants'[run.sku] = run.slug
      /\ variants' \in [DOMAIN variants' -> DOMAIN products]
  <2>1. CASE run.sku \in DOMAIN variants
    BY <2>1 DEF SaveVariant, TypeOK
  <2>2. CASE run.sku \notin DOMAIN variants
    <3>1. variants' = [s \in DOMAIN variants \union {run.sku} |->
                         IF s = run.sku THEN run.slug ELSE variants[s]]
      BY <2>2 DEF SaveVariant, With
    <3> QED BY <1>1, <2>2, <3>1 DEF TypeOK
  <2> QED BY <2>1, <2>2
<1>4. RunTyped
  BY <1>1, <1>2, ContinuesTypes DEF RunTyped, SaveVariant
<1>5. OtherTypes
  BY <1>1, <1>3 DEF OtherTypes, SaveVariant, TypeOK, ghosts
<1>6. TablesTyped
  BY DEF TablesTyped, SaveVariant, TypeOK
<1> QED BY <1>1, <1>2, <1>3, <1>4, <1>5, <1>6, TypedParts DEF SaveVariant, ghosts

\* One statement made this of the product in hand, and of nothing else.
Written(product) ==
  /\ DOMAIN products' = DOMAIN products
  /\ products'[run.slug] = product
  /\ \A slug \in DOMAIN products : slug # run.slug => products'[slug] = products[slug]
  /\ UNCHANGED <<zoho, variants, categories>>

LEMMA InHandFields ==
  ASSUME TypeOK, run.at \in Writing
  PROVE  /\ \A value \in Values \union {None} : \A c \in Categories :
              [InHand EXCEPT !.values[c] = value] \in ProductRow
         /\ \A S \in SUBSET Collections : [InHand EXCEPT !.collections = S] \in ProductRow
         /\ \A S \in SUBSET Images : [InHand EXCEPT !.images = S] \in ProductRow
         /\ InHand \in ProductRow
BY RecordInHands DEF ProductRow

LEMMA ClearTypes ==
  ASSUME TypeOK, RecordFits, ClearValue
  PROVE  /\ TypeOK' /\ run.at = "clear" /\ Continues("value")
         /\ run'.slug = run.slug
         /\ Written([InHand EXCEPT !.values[run.listing.category] = None])
         /\ UNCHANGED <<stocks, ghosts>>
<1> USE DEF Handling, Writing
<1>1. run.at = "clear" /\ run \in OnRecord /\ run.listing.category \in Categories
  BY RecordInHands DEF ClearValue, RecordFits
<1>2. PICK product \in ProductRow :
        product = [InHand EXCEPT !.values[run.listing.category] = None]
  BY <1>1, InHandFields
<1>3. Continues("value") /\ run'.slug = run.slug
  BY <1>1, AtContinues DEF ClearValue
<1>4. Written(product)
  BY <1>1, <1>2, ChangeTypes DEF ClearValue, Written
<1>5. TypeOK'
  BY <1>1, <1>2, <1>3, ChangeStep DEF ClearValue, ghosts, TypeOK
<1> QED BY <1>1, <1>2, <1>3, <1>4, <1>5 DEF ClearValue

LEMMA ValueTypes ==
  ASSUME TypeOK, RecordFits, SetValue
  PROVE  /\ TypeOK' /\ run.at = "value" /\ Continues("variant")
         /\ run'.slug = run.slug
         /\ Written([InHand EXCEPT !.values[run.listing.category] = run.listing.value])
         /\ UNCHANGED <<stocks, ghosts>>
<1> USE DEF Handling, Writing
<1>1. /\ run.at = "value" /\ run \in OnRecord /\ run.listing.category \in Categories
      /\ run.listing.value \in Values \union {None}
  BY RecordInHands DEF SetValue, RecordFits, Listing
<1>2. PICK product \in ProductRow :
        product = [InHand EXCEPT !.values[run.listing.category] = run.listing.value]
  BY <1>1, InHandFields
<1>3. Continues("variant") /\ run'.slug = run.slug
  BY <1>1, AtContinues DEF SetValue
<1>4. Written(product)
  BY <1>1, <1>2, ChangeTypes DEF SetValue, Written
<1>5. TypeOK'
  BY <1>1, <1>2, <1>3, ChangeStep DEF SetValue, ghosts, TypeOK
<1> QED BY <1>1, <1>2, <1>3, <1>4, <1>5 DEF SetValue

LEMMA CollectTypes ==
  ASSUME TypeOK, ProductFits, AddCollection
  PROVE  /\ TypeOK' /\ run.at = "collect" /\ Continues("collect")
         /\ run'.slug = run.slug
         /\ \E c \in run.left :
              /\ Written([InHand EXCEPT !.collections = @ \union {c}])
              /\ run'.left = run.left \ {c}
         /\ UNCHANGED <<stocks, ghosts>>
<1> USE DEF Handling, Writing
<1>1. PICK c \in run.left :
        /\ Change([InHand EXCEPT !.collections = @ \union {c}])
        /\ run' = [run EXCEPT !.left = @ \ {c}]
  BY DEF AddCollection
<1>2. /\ run.at = "collect" /\ run \in OnRecord /\ run.listing \in Listing
      /\ run.left \subseteq run.listing.collections
  BY RecordInHands DEF AddCollection, ProductFits
<1>3. c \in Collections /\ InHand.collections \in SUBSET Collections
  BY <1>2, InHandFields DEF Listing, ProductRow
<1>4. PICK product \in ProductRow : product = [InHand EXCEPT !.collections = @ \union {c}]
  BY <1>2, <1>3, InHandFields
<1>5. Continues("collect") /\ run'.slug = run.slug /\ run'.left = run.left \ {c}
  BY <1>1, <1>2, LeftContinues
<1>6. Written(product)
  BY <1>1, <1>2, <1>4, ChangeTypes DEF AddCollection, Written
<1>7. TypeOK'
  BY <1>1, <1>2, <1>4, <1>5, ChangeStep DEF AddCollection, ghosts, TypeOK
<1> QED BY <1>2, <1>4, <1>5, <1>6, <1>7 DEF AddCollection

LEMMA DropTypes ==
  ASSUME TypeOK, DropCollections
  PROVE  /\ TypeOK' /\ run.at = "collect" /\ run.left = {} /\ Continues("stock")
         /\ run'.slug = run.slug
         /\ Written([InHand EXCEPT !.collections = @ \intersect run.listing.collections])
         /\ UNCHANGED <<stocks, ghosts>>
<1> USE DEF Handling, Writing
<1>1. run.at = "collect" /\ run \in OnRecord /\ run.left = {}
  BY RecordInHands DEF DropCollections
<1>2. InHand.collections \in SUBSET Collections
  BY <1>1, InHandFields DEF ProductRow
<1>3. PICK product \in ProductRow :
        product = [InHand EXCEPT !.collections = @ \intersect run.listing.collections]
  BY <1>1, <1>2, InHandFields
<1>4. Continues("stock") /\ run'.slug = run.slug
  BY <1>1, AtContinues DEF DropCollections
<1>5. Written(product)
  BY <1>1, <1>3, ChangeTypes DEF DropCollections, Written
<1>6. TypeOK'
  BY <1>1, <1>3, <1>4, ChangeStep DEF DropCollections, ghosts, TypeOK
<1> QED BY <1>1, <1>3, <1>4, <1>5, <1>6 DEF DropCollections

LEMMA StockTypes ==
  ASSUME TypeOK, ProductFits, AddStock
  PROVE  /\ TypeOK' /\ run.at = "stock" /\ Continues("images")
         /\ run'.slug = run.slug /\ run'.left = run.listing.images
         /\ stocks' = stocks \union {run.sku}
         /\ Written(InHand)
         /\ UNCHANGED ghosts
<1> USE DEF Handling, Writing
<1>1. /\ run.at = "stock" /\ run \in OnRecord /\ run.listing \in Listing
      /\ run.sku \in DOMAIN variants /\ run.slug \in DOMAIN products
  BY RecordInHands DEF AddStock, ProductFits
<1>2. Continues("images") /\ run'.slug = run.slug /\ run'.left = run.listing.images
  <2>1. run.listing.images \in SUBSET (Collections \union Images)
    BY <1>1 DEF Listing
  <2> QED BY <1>1, <2>1, AtContinues DEF AddStock
<1>3. RunTyped
  BY <1>1, <1>2, ContinuesTypes DEF RunTyped, AddStock
<1>4. OtherTypes /\ TablesTyped
  BY <1>1 DEF OtherTypes, TablesTyped, AddStock, TypeOK, ghosts
<1>5. Written(InHand)
  BY <1>1 DEF Written, AddStock, InHand
<1> QED BY <1>1, <1>2, <1>3, <1>4, <1>5, TypedParts DEF AddStock

LEMMA IncidentType == TypeOK /\ Incident => incidents' \in 0 .. MaxIncidents
BY ZohoAssumption DEF TypeOK, Incident, ZohoAssumption

LEMMA ImageTypes ==
  ASSUME TypeOK, ProductFits, AddImage
  PROVE  /\ TypeOK' /\ run.at = "images" /\ Continues("images")
         /\ run'.slug = run.slug
         /\ \E i \in run.left :
              /\ run'.left = run.left \ {i}
              /\ \/ /\ Written([InHand EXCEPT !.images = @ \union {i}])
                    /\ run'.lost = run.lost
                 \/ Written(InHand) /\ run'.lost
         /\ UNCHANGED <<stocks, ghosts>>
<1> USE DEF Handling, Writing
<1>1. /\ run.at = "images" /\ run \in OnRecord /\ run.listing \in Listing
      /\ run.left \subseteq run.listing.images /\ run.slug \in DOMAIN products
      /\ UNCHANGED <<zoho, recent, variants, stocks, ghosts>>
  BY RecordInHands DEF AddImage, ProductFits
<1>2. PICK i \in run.left :
        \/ /\ Change([InHand EXCEPT !.images = @ \union {i}])
           /\ run' = [run EXCEPT !.left = @ \ {i}]
           /\ UNCHANGED incidents
        \/ /\ Swallow
           /\ run' = [run EXCEPT !.left = @ \ {i}, !.lost = TRUE]
  BY DEF AddImage
<1>3. CASE /\ Change([InHand EXCEPT !.images = @ \union {i}])
           /\ run' = [run EXCEPT !.left = @ \ {i}]
           /\ UNCHANGED incidents
  <2>1. i \in Images /\ InHand.images \in SUBSET Images
    BY <1>1, InHandFields DEF Listing, ProductRow
  <2>2. PICK product \in ProductRow : product = [InHand EXCEPT !.images = @ \union {i}]
    BY <1>1, <2>1, InHandFields
  <2>3. /\ Continues("images") /\ run'.slug = run.slug /\ run'.left = run.left \ {i}
        /\ run'.lost = run.lost
    BY <1>1, <1>3, LeftContinues
  <2>4. Written(product)
    BY <1>1, <1>3, <2>2, ChangeTypes DEF Written
  <2>5. TypeOK'
    BY <1>1, <1>3, <2>2, <2>3, ChangeStep DEF ghosts, TypeOK
  <2> QED BY <1>1, <2>2, <2>3, <2>4, <2>5
<1>4. CASE Swallow /\ run' = [run EXCEPT !.left = @ \ {i}, !.lost = TRUE]
  <2>1. /\ Continues("images") /\ run'.slug = run.slug /\ run'.left = run.left \ {i}
        /\ run'.lost
    BY <1>1, <1>4, LeftContinues
  <2>2. Written(InHand)
    BY <1>1, <1>4 DEF Written, Swallow, InHand
  <2>3. RunTyped
    BY <1>1, <1>4, <2>1, ContinuesTypes DEF RunTyped, Swallow
  <2>4. OtherTypes /\ TablesTyped
    BY <1>1, <1>4, IncidentType DEF OtherTypes, TablesTyped, Swallow, TypeOK, ghosts
  <2> QED BY <1>1, <2>1, <2>2, <2>3, <2>4, TypedParts
<1> QED BY <1>2, <1>3, <1>4

\* The run is back on the page it was on.
LEMMA BackTypes ==
  ASSUME run \in OnRecord, run' = BackToPage
  PROVE  /\ run' \in OnPage /\ run' \in Process
         /\ run'.todo = run.todo /\ run'.off = run.off
BY DEF BackToPage, OnRecord, OnPage, Process

LEMMA LeaveTypes ==
  ASSUME TypeOK, DropImages
  PROVE  /\ TypeOK' /\ run.at = "images" /\ run.left = {} /\ run' \in OnPage
         /\ run'.todo = run.todo /\ run'.off = run.off
         /\ \/ /\ Written([InHand EXCEPT !.images = @ \intersect run.listing.images])
               /\ synced' = IF run.lost \/ zoho[run.sku] # run.listing
                            THEN synced ELSE synced \union {run.sku}
            \/ Written(InHand) /\ synced' = synced
         /\ UNCHANGED <<stocks, died, stopped, raced>>
<1> USE DEF Handling, Writing
<1>1. /\ run.at = "images" /\ run \in OnRecord /\ run.listing \in Listing /\ run.left = {}
      /\ run.sku \in Skus /\ run.slug \in DOMAIN products /\ run' = BackToPage
      /\ UNCHANGED <<zoho, recent, variants, stocks, died, stopped, raced>>
  BY RecordInHands DEF DropImages
<1>2. run' \in OnPage /\ run' \in Process /\ run'.todo = run.todo /\ run'.off = run.off
  BY <1>1, BackTypes
<1>3. RunTyped
  BY <1>2 DEF RunTyped, OnPage
<1>4. CASE /\ Change([InHand EXCEPT !.images = UsedImages(InHand)])
           /\ synced' = IF run.lost \/ zoho[run.sku] # run.listing
                        THEN synced ELSE synced \union {run.sku}
           /\ UNCHANGED incidents
  <2>1. InHand.images \in SUBSET Images
    BY <1>1, InHandFields DEF ProductRow
  <2>2. PICK product \in ProductRow :
          product = [InHand EXCEPT !.images = @ \intersect run.listing.images]
    BY <1>1, <2>1, InHandFields
  <2>3. Change(product)
    BY <1>4, <2>2 DEF UsedImages
  <2>4. Written(product) /\ TablesTyped
    BY <1>1, <2>3, ChangeTypes DEF Written, TablesTyped, TypeOK
  <2>5. OtherTypes
    BY <1>1, <1>4, <2>4 DEF OtherTypes, Written, TypeOK
  <2> QED BY <1>1, <1>2, <1>3, <1>4, <2>2, <2>4, <2>5, TypedParts
<1>5. CASE Swallow /\ UNCHANGED synced
  <2>1. Written(InHand)
    BY <1>1, <1>5 DEF Written, Swallow, InHand
  <2>2. OtherTypes /\ TablesTyped
    BY <1>1, <1>5, IncidentType DEF OtherTypes, TablesTyped, Swallow, TypeOK
  <2> QED BY <1>1, <1>2, <1>3, <1>5, <2>1, <2>2, TypedParts
<1> QED BY <1>4, <1>5 DEF DropImages

LEMMA DisableTypes ==
  ASSUME TypeOK, DisableProducts
  PROVE  /\ TypeOK' /\ run.at = "page" /\ DOMAIN run.todo = {} /\ run \in OnPage
         /\ run'.at \in {"fetch", "tree"}
         /\ DOMAIN products' = DOMAIN products
         /\ \A slug \in DOMAIN products :
              products'[slug] = IF slug \in Disabled(run.off)
                                THEN [products[slug] EXCEPT !.published = FALSE]
                                ELSE products[slug]
         /\ synced' = synced \union {s \in run.off : ~ zoho[s].web}
         /\ UNCHANGED <<zoho, variants, stocks, categories, died, stopped, raced>>
<1>1. run.at = "page" /\ run \in OnPage /\ DOMAIN run.todo = {}
  BY ProcessFields DEF DisableProducts, TypeOK
<1>2. PICK rows : rows = [slug \in DOMAIN products |->
                            IF slug \in Disabled(run.off)
                            THEN [products[slug] EXCEPT !.published = FALSE]
                            ELSE products[slug]]
  OBVIOUS
<1>3. products' = rows /\ categories' = categories /\ {cache', query'} \subseteq Answers
  BY <1>2, WriteTypes DEF DisableProducts, TypeOK
<1>4. \A slug \in DOMAIN products : rows[slug] \in ProductRow
  BY <1>2 DEF TypeOK, ProductRow
<1>5. TablesTyped
  BY <1>2, <1>3, <1>4 DEF TablesTyped, TypeOK
<1>6. OtherTypes
  BY <1>1, <1>2, <1>3 DEF OtherTypes, DisableProducts, TypeOK, OnPage
<1>7. run' \in Between
  BY <1>1 DEF DisableProducts, OnPage, Between
<1>8. RunTyped
  BY <1>7 DEF RunTyped, Process, Between, Handling, Writing
<1> QED BY <1>1, <1>2, <1>3, <1>5, <1>6, <1>7, <1>8, TypedParts DEF DisableProducts, Between

\* A row of the category table got these numbers and kept its parent.
Renumbered(c, lft, rght, tree) ==
  /\ DOMAIN categories' = DOMAIN categories
  /\ categories'[c] = [parent |-> categories[c].parent, lft |-> lft, rght |-> rght, tree |-> tree]
  /\ \A d \in DOMAIN categories : d # c => categories'[d] = categories[d]
  /\ \A d \in DOMAIN categories : categories'[d].parent = categories[d].parent

LEMMA NumberedTypes ==
  ASSUME TypeOK, NEW c \in DOMAIN categories, NEW lft \in Nat, NEW rght \in Nat,
         NEW tree \in Nat, Write(products, Numbered(c, lft, rght, tree))
  PROVE  /\ TablesTyped /\ products' = products
         /\ Renumbered(c, lft, rght, tree)
<1> DEFINE row == [parent |-> categories[c].parent, lft |-> lft, rght |-> rght, tree |-> tree]
<1>1. /\ products' = products /\ categories' = Numbered(c, lft, rght, tree)
      /\ {cache', query'} \subseteq Answers
  BY WriteTypes DEF TypeOK
<1>2. categories' = [categories EXCEPT ![c] = row]
  BY <1>1 DEF Numbered
<1>3. row.parent = categories[c].parent
  OBVIOUS
<1>4. row \in [parent : DOMAIN categories \union {None}, lft : Nat, rght : Nat, tree : Nat]
  BY DEF TypeOK
<1> HIDE DEF row
<1>5. /\ DOMAIN categories' = DOMAIN categories /\ categories'[c] = row
      /\ \A d \in DOMAIN categories : d # c => categories'[d] = categories[d]
  BY <1>2
<1>6. Renumbered(c, lft, rght, tree)
  BY <1>3, <1>5 DEF Renumbered, row
<1> QED BY <1>1, <1>4, <1>5, <1>6 DEF TablesTyped, TypeOK

LEMMA SameChildren ==
  ASSUME DOMAIN categories' = DOMAIN categories,
         \A d \in DOMAIN categories : categories'[d].parent = categories[d].parent
  PROVE  \A p : Children(p)' = Children(p)
BY DEF Children

LEMMA ChildrenFinite ==
  ASSUME IsFiniteSet(DOMAIN categories), NEW p
  PROVE  IsFiniteSet(Children(p)) /\ Cardinality(Children(p)) \in Nat
<1>1. Children(p) \subseteq DOMAIN categories
  BY DEF Children
<1> QED BY <1>1, FS_Subset, FS_CardinalityType

\* What is left of the numbering.
Remains(roots, children, tid, left) ==
  /\ run' \in OnTree
  /\ run'.roots = roots /\ run'.children = children /\ run'.tid = tid /\ run'.left = left

LEMMA RootTypes ==
  ASSUME TypeOK, TreeFits, NumberRoot
  PROVE  /\ TypeOK' /\ run.at = "number" /\ run \in OnTree /\ run.children = {}
         /\ \E c \in run.roots :
              /\ c \in Children(None)
              /\ Renumbered(c, 1, 2 * Cardinality(Children(c)) + 2, run.tid + 1)
              /\ Remains(run.roots \ {c}, Children(c), run.tid + 1, 2)
         /\ UNCHANGED <<zoho, products, variants, stocks, ghosts>>
<1>1. run.at = "number" /\ run \in OnTree /\ run.children = {}
  BY ProcessFields DEF NumberRoot, TypeOK
<1>2. PICK c \in run.roots :
        /\ Write(products, Numbered(c, 1, 2 * Cardinality(Children(c)) + 2, run.tid + 1))
        /\ run' = [run EXCEPT !.roots = @ \ {c}, !.children = Children(c),
                              !.tid = @ + 1, !.left = 2]
  BY DEF NumberRoot
<1>3. c \in Children(None)
  BY <1>1 DEF TreeFits, NumbersFit
<1>4. c \in DOMAIN categories /\ run.tid \in Nat
  BY <1>1, <1>3 DEF Children, OnTree
<1>5. PICK n \in Nat : n = Cardinality(Children(c))
  BY ChildrenFinite DEF TreeFits
<1>6. TablesTyped /\ products' = products /\ Renumbered(c, 1, 2 * n + 2, run.tid + 1)
  <2>1. 2 * n + 2 \in Nat /\ run.tid + 1 \in Nat /\ 1 \in Nat
    BY <1>4
  <2> QED BY <1>2, <1>4, <1>5, <2>1, NumberedTypes
<1>7. Remains(run.roots \ {c}, Children(c), run.tid + 1, 2)
  <2>1. PICK children \in SUBSET Categories : children = Children(c)
    BY DEF Children, TypeOK
  <2>2. run.tid + 1 \in Nat /\ 2 \in Nat
    BY <1>4
  <2>3. run' = [run EXCEPT !.roots = run.roots \ {c}, !.children = children,
                           !.tid = run.tid + 1, !.left = 2]
    BY <1>2, <2>1
  <2> QED BY <1>1, <2>1, <2>2, <2>3 DEF Remains, OnTree
<1>8. RunTyped
  BY <1>7 DEF RunTyped, Remains, Process, OnTree, Handling, Writing
<1>9. OtherTypes
  BY <1>6 DEF OtherTypes, NumberRoot, TypeOK, ghosts
<1> QED BY <1>1, <1>3, <1>5, <1>6, <1>7, <1>8, <1>9, TypedParts DEF NumberRoot, ghosts

LEMMA ChildTypes ==
  ASSUME TypeOK, TreeFits, NumberChild
  PROVE  /\ TypeOK' /\ run.at = "number" /\ run \in OnTree
         /\ \E c \in run.children :
              /\ Renumbered(c, run.left, run.left + 1, run.tid)
              /\ Remains(run.roots, run.children \ {c}, run.tid, run.left + 2)
         /\ UNCHANGED <<zoho, products, variants, stocks, ghosts>>
<1>1. run.at = "number" /\ run \in OnTree
  BY ProcessFields DEF NumberChild, TypeOK
<1>2. PICK c \in run.children :
        /\ Write(products, Numbered(c, run.left, run.left + 1, run.tid))
        /\ run' = [run EXCEPT !.children = @ \ {c}, !.left = NextLeft(@)]
  BY DEF NumberChild
<1>3. c \in DOMAIN categories
  BY <1>1 DEF TreeFits, NumbersFit, Current, Children
<1>4. run.left \in Nat /\ run.left + 1 \in Nat /\ run.tid \in Nat /\ run.left + 2 \in Nat
  BY <1>1 DEF OnTree
<1>5. TablesTyped /\ products' = products /\ Renumbered(c, run.left, run.left + 1, run.tid)
  BY <1>2, <1>3, <1>4, NumberedTypes
<1>6. Remains(run.roots, run.children \ {c}, run.tid, run.left + 2)
  BY <1>1, <1>2, <1>4 DEF Remains, OnTree, NextLeft
<1>7. RunTyped
  BY <1>6 DEF RunTyped, Remains, Process, OnTree, Handling, Writing
<1>8. OtherTypes
  BY <1>5 DEF OtherTypes, NumberChild, TypeOK, ghosts
<1> QED BY <1>1, <1>5, <1>6, <1>7, <1>8, TypedParts DEF NumberChild, ghosts

LEMMA StartTypes ==
  ASSUME TypeOK, StartRun
  PROVE  TypeOK' /\ run'.at = "fetch" /\ UNCHANGED <<zoho, shop, ghosts>>
<1>1. run' \in Between
  BY DEF StartRun, Between
<1>2. run' \in Process /\ run'.at \notin Handling \union Writing
  BY <1>1 DEF Process, Between, Handling, Writing
<1> QED BY <1>2, QuietStep DEF StartRun, ghosts, TypeOK

LEMMA FetchPageTypes ==
  ASSUME TypeOK, FetchPage
  PROVE  TypeOK' /\ UNCHANGED <<zoho, shop, ghosts>>
<1>1. run' \in OnPage
  BY FetchTypes
<1>2. run' \in Process /\ run'.at \notin Handling \union Writing
  BY <1>1 DEF Process, OnPage, Handling, Writing
<1> QED BY <1>2, QuietStep DEF FetchPage, ghosts, TypeOK

LEMMA PickProductTypes ==
  ASSUME TypeOK, PageFits, NEW sku \in Skus, PickProduct(sku)
  PROVE  TypeOK'
<1>1. /\ run.at = "page" /\ run \in OnPage /\ sku \in DOMAIN run.todo
      /\ \/ run' = Idle /\ stopped' = TRUE
         \/ Skipped(sku) /\ stopped' = stopped
         \/ Picked(sku) /\ stopped' = stopped
      /\ synced' = synced
      /\ UNCHANGED <<zoho, recent, shop, cache, query, incidents, died, raced>>
  BY PickTypes
<1>2. run.todo[sku] \in Listings[sku]
  BY <1>1 DEF PageFits
<1>3. /\ run' \in Process /\ run'.at \notin Writing
      /\ run'.at \in Handling => run'.listing \in Listings[run'.sku]
  BY <1>1, <1>2 DEF Skipped, Picked, Process, Idle, OnPage, Handling, Writing
<1>4. stopped' \in BOOLEAN
  BY <1>1 DEF TypeOK
<1> QED BY <1>1, <1>3, <1>4, QuietStep DEF TypeOK

LEMMA ReadTypes ==
  ASSUME TypeOK, ReadTree
  PROVE  /\ TypeOK' /\ Remains(Children(None), {}, 0, 1)
         /\ UNCHANGED <<zoho, shop, ghosts>>
<1>1. Children(None) \in SUBSET Categories
  BY DEF Children, TypeOK
<1>2. Remains(Children(None), {}, 0, 1)
  BY <1>1 DEF ReadTree, Remains, OnTree
<1>3. run' \in Process /\ run'.at \notin Handling \union Writing
  BY <1>2 DEF Process, Remains, OnTree, Handling, Writing
<1> QED BY <1>2, <1>3, QuietStep DEF ReadTree, ghosts, TypeOK

LEMMA ListTypes ==
  ASSUME TypeOK, ListKeys
  PROVE  /\ TypeOK' /\ run.at = "number" /\ run.roots = {} /\ run.children = {}
         /\ run' \in AtKeys /\ run'.keys = (cache # "none") /\ raced' = (query = "stale")
         /\ UNCHANGED <<zoho, shop, cache, query, died, stopped, synced>>
<1>1. run' \in AtKeys
  BY DEF ListKeys, AtKeys
<1>2. run' \in Process /\ run'.at \notin Handling \union Writing
  BY <1>1 DEF Process, AtKeys, Handling, Writing
<1> QED BY <1>1, <1>2 DEF ListKeys, TypeOK, shop

LEMMA DeleteTypes ==
  ASSUME TypeOK, DeleteKeys
  PROVE  /\ TypeOK' /\ run.at = "bust" /\ run' = Idle /\ stopped' = FALSE
         /\ cache' = Busted(run.keys)
         /\ UNCHANGED <<zoho, shop, query, died, raced, synced>>
<1>1. run' \in Process /\ run'.at \notin Handling \union Writing
  BY DEF DeleteKeys, Process, Idle, Handling, Writing
<1>2. {cache', query'} \subseteq Answers
  BY DEF DeleteKeys, Busted, TypeOK, Answers
<1> QED BY <1>1, <1>2, QuietStep DEF DeleteKeys, TypeOK

LEMMA DieTypes ==
  ASSUME TypeOK, Die
  PROVE  /\ TypeOK' /\ run' = Idle /\ stopped' = TRUE /\ died' = TRUE
         /\ synced' = synced \ Broken
         /\ UNCHANGED <<zoho, shop>>
<1>1. run' \in Process /\ run'.at \notin Handling \union Writing
  BY DEF Die, Stop, Process, Idle, Handling, Writing
<1> QED BY <1>1, IncidentType DEF Die, Stop, TypeOK, shop

-----------------------------------------------------------------------------
(* The cache.                                                              *)

\* The run is neither at the tree or the keys, nor has it come to its end.
Elsewhere ==
  /\ run'.at \notin {"number", "bust"}
  /\ run'.at = "idle" => stopped'

LEMMA CacheElsewhere == Elsewhere => CacheFits'
BY DEF Elsewhere, CacheFits

LEMMA CacheOutside ==
  ASSUME TypeOK, CacheFits, Outside
  PROVE  CacheFits'
<1>1. UNCHANGED <<run, stopped, raced>>
  BY OutsideTypes
<1>2. CASE Ask \/ Keep \/ Expire
  BY <1>1, <1>2 DEF Ask, Keep, Expire, CacheFits
<1>3. ASSUME NEW sku \in Skus, Edit(sku) \/ Forget(sku)
      PROVE  CacheFits'
  BY <1>1, <1>3 DEF Edit, Forget, CacheFits
<1> QED BY <1>2, <1>3 DEF Outside

LEMMA CacheList ==
  ASSUME TypeOK, ListKeys
  PROVE  CacheFits'
<1>1. /\ run'.at = "bust" /\ run'.keys = (cache # "none") /\ raced' = (query = "stale")
      /\ UNCHANGED <<cache, query>>
  BY ListTypes DEF AtKeys
<1> QED BY <1>1 DEF CacheFits

LEMMA CacheDelete ==
  ASSUME TypeOK, CacheFits, DeleteKeys
  PROVE  CacheFits'
<1>1. /\ run.at = "bust" /\ run' = Idle /\ cache' = Busted(run.keys) /\ UNCHANGED <<query, raced>>
  BY DeleteTypes
<1> QED BY <1>1 DEF CacheFits, Busted, Idle

-----------------------------------------------------------------------------
(* The tree.                                                               *)

LEMMA TreeElsewhere ==
  ASSUME Elsewhere, IsFiniteSet(DOMAIN categories')
  PROVE  TreeFits'
BY DEF Elsewhere, TreeFits, NumbersFit

\* The table grows by one row at most.
LEMMA TreeGrows ==
  ASSUME TreeFits, Elsewhere, NEW c, DOMAIN categories' = DOMAIN categories \union {c}
  PROVE  TreeFits'
<1>1. IsFiniteSet(DOMAIN categories \union {c})
  BY FS_AddElement DEF TreeFits
<1> QED BY <1>1, TreeElsewhere

LEMMA TreeSame ==
  ASSUME TreeFits, Elsewhere, categories' = categories
  PROVE  TreeFits'
BY TreeElsewhere DEF TreeFits

LEMMA NestedStays ==
  ASSUME Nested, categories' = categories
  PROVE  Nested'
BY DEF Nested, TwoLevels, Inside, Apart

LEMMA TreeSteady ==
  ASSUME TreeFits, categories' = categories, run' = run, stopped' = stopped
  PROVE  TreeFits'
<1>1. /\ Roots' = Roots /\ \A r : Numbers(r)' = Numbers(r) /\ Children(r)' = Children(r)
      /\ Children(None)' = Children(None)
  BY DEF Roots, Numbers, Children
<1>2. RootsFit => RootsFit'
  BY <1>1 DEF RootsFit
<1>3. ChildrenFit => ChildrenFit'
  BY <1>1 DEF ChildrenFit
<1>4. \A r : Current(r)' <=> Current(r)
  BY <1>1 DEF Current
<1>5. NumbersFit'
  BY <1>1, <1>2, <1>3, <1>4 DEF TreeFits, NumbersFit
<1>6. Nested => Nested'
  BY NestedStays
<1> QED BY <1>5, <1>6 DEF TreeFits

LEMMA TreeOutside ==
  ASSUME TypeOK, TreeFits, Outside
  PROVE  TreeFits'
BY OutsideTypes, TreeSteady DEF shop

LEMMA TreeRead ==
  ASSUME TypeOK, TreeFits, ReadTree
  PROVE  TreeFits'
<1>1. run' \in OnTree /\ run'.roots = Children(None) /\ run'.children = {} /\ categories' = categories
  BY ReadTypes DEF Remains, shop
<1>2. Children(None)' = Children(None)
  BY <1>1 DEF Children
<1>3. Roots' = {}
  BY <1>1, <1>2 DEF Roots
<1>4. NumbersFit'
  BY <1>1, <1>2, <1>3 DEF NumbersFit, RootsFit, ChildrenFit
<1>5. run'.at = "number"
  BY <1>1 DEF OnTree
<1> QED BY <1>1, <1>4, <1>5 DEF TreeFits

\* The next root takes a tree of its own, wide enough for its children.
LEMMA TreeRoot ==
  ASSUME TypeOK, TreeFits, NumberRoot
  PROVE  TreeFits'
<1>1. /\ run.at = "number" /\ run \in OnTree /\ run.children = {}
      /\ IsFiniteSet(DOMAIN categories)
  BY RootTypes DEF TreeFits
<1>2. PICK c \in run.roots :
        /\ c \in Children(None)
        /\ Renumbered(c, 1, 2 * Cardinality(Children(c)) + 2, run.tid + 1)
        /\ Remains(run.roots \ {c}, Children(c), run.tid + 1, 2)
  BY RootTypes
<1>3. \A p : Children(p)' = Children(p)
  BY <1>2, SameChildren DEF Renumbered
<1>4. /\ run.roots \subseteq Children(None) /\ run.tid \in Nat
      /\ \A r \in Roots : \A d \in Children(r) : d \notin Children(None)
      /\ \A r \in Roots : r \in DOMAIN categories
      /\ \A p : Children(p) \subseteq DOMAIN categories
  BY <1>1, ZohoAssumption
     DEF TreeFits, NumbersFit, OnTree, Children, Roots, TypeOK, ZohoAssumption
<1>5. /\ run' \in OnTree /\ run'.roots = run.roots \ {c} /\ run'.children = Children(c)
      /\ run'.tid = run.tid + 1 /\ run'.left = 2
  BY <1>2 DEF Remains
<1>6. Roots' = Roots \union {c}
  BY <1>2, <1>3, <1>4, <1>5 DEF Roots
<1>7. c \notin Roots /\ \A r \in Roots : c \notin Children(r)
  BY <1>2, <1>4 DEF Roots
<1>8. /\ \A r \in Roots : categories'[r] = categories[r]
      /\ \A r \in Roots : \A d \in Children(r) : categories'[d] = categories[d]
      /\ categories'[c].tree = run.tid + 1 /\ categories'[c].lft = 1
      /\ categories'[c].rght = 2 * Cardinality(Children(c)) + 2
  BY <1>2, <1>4, <1>7 DEF Renumbered
<1>9. RootsFit'
  <2>1. ASSUME NEW r \in Roots'
        PROVE  /\ categories'[r].tree \in 1 .. run'.tid
               /\ categories'[r].lft = 1
               /\ categories'[r].rght = 2 * Cardinality(Children(r)') + 2
    <3>1. CASE r = c
      BY <1>3, <1>4, <1>5, <1>8, <3>1
    <3>2. CASE r \in Roots
      BY <1>1, <1>3, <1>4, <1>5, <1>8, <3>2 DEF TreeFits, NumbersFit, RootsFit
    <3> QED BY <1>6, <3>1, <3>2
  <2>2. ASSUME NEW q \in Roots', NEW r \in Roots', categories'[q].tree = categories'[r].tree
        PROVE  q = r
    <3>1. \A s \in Roots : categories[s].tree \in 1 .. run.tid
      BY <1>1 DEF TreeFits, NumbersFit, RootsFit
    <3>2. \A s \in Roots : categories'[s].tree # run.tid + 1
      BY <1>4, <1>8, <3>1
    <3>3. CASE q \in Roots /\ r \in Roots
      BY <1>1, <1>8, <2>2, <3>3 DEF TreeFits, NumbersFit, RootsFit
    <3> QED BY <1>6, <1>8, <2>2, <3>2, <3>3
  <2> QED BY <2>1, <2>2 DEF RootsFit
<1>10. /\ \A r \in Roots : Numbers(r)' = Numbers(r) /\ Numbers(r) \subseteq Children(r)
       /\ Numbers(c)' = {}
  <2>1. \A r \in Roots : Children(r) \cap Children(c) = {}
    BY <1>7 DEF Children
  <2> QED BY <1>1, <1>3, <1>5, <2>1 DEF Numbers
<1>11. ChildrenFit'
  <2>1. ASSUME NEW r \in Roots, NEW d \in Numbers(r)
        PROVE  /\ categories'[d].tree = categories'[r].tree
               /\ categories'[d].lft >= 2
               /\ categories'[d].rght = categories'[d].lft + 1
               /\ categories'[d].rght < categories'[r].rght
               /\ \A e \in Numbers(r) :
                    d # e => \/ categories'[d].rght < categories'[e].lft
                             \/ categories'[e].rght < categories'[d].lft
    BY <1>1, <1>8, <1>10 DEF TreeFits, NumbersFit, ChildrenFit
  <2> QED BY <1>6, <1>10, <2>1 DEF ChildrenFit
<1>12. Current(c)'
  BY <1>1, <1>3, <1>5, <1>6, <1>8, <1>10, ChildrenFinite DEF Current
<1>13. NumbersFit'
  BY <1>3, <1>4, <1>5, <1>6, <1>9, <1>11, <1>12 DEF NumbersFit
<1>14. run'.at = "number" /\ DOMAIN categories' = DOMAIN categories
  BY <1>2, <1>5 DEF OnTree, Renumbered
<1> QED BY <1>1, <1>13, <1>14 DEF TreeFits

\* The next child takes the next two numbers of its root.
LEMMA TreeChild ==
  ASSUME TypeOK, TreeFits, NumberChild
  PROVE  TreeFits'
<1>1. /\ run.at = "number" /\ run \in OnTree /\ IsFiniteSet(DOMAIN categories)
      /\ run.tid \in Nat /\ run.left \in Nat /\ run.roots \subseteq Children(None)
  BY ChildTypes DEF TreeFits, NumbersFit, OnTree
<1>2. PICK c \in run.children :
        /\ Renumbered(c, run.left, run.left + 1, run.tid)
        /\ Remains(run.roots, run.children \ {c}, run.tid, run.left + 2)
  BY ChildTypes
<1>3. PICK root \in Roots : Current(root)
  BY <1>1, <1>2 DEF TreeFits, NumbersFit
<1>4. /\ run' \in OnTree /\ run'.roots = run.roots /\ run'.children = run.children \ {c}
      /\ run'.tid = run.tid /\ run'.left = run.left + 2
  BY <1>2 DEF Remains
<1>5. \A p : Children(p)' = Children(p)
  BY <1>2, SameChildren DEF Renumbered
<1>6. Roots' = Roots
  BY <1>4, <1>5 DEF Roots
<1>7. /\ c \in Children(root) /\ c \in DOMAIN categories /\ c \notin Roots
      /\ \A r \in Roots : r \in DOMAIN categories
      /\ \A p : \A d \in Children(p) : d \in DOMAIN categories
      /\ \A r \in Roots : r # root => c \notin Children(r)
  BY <1>2, <1>3, ZohoAssumption DEF Current, Children, Roots, TypeOK, ZohoAssumption
<1>8. /\ \A r \in Roots : categories'[r] = categories[r]
      /\ \A d \in DOMAIN categories : d # c => categories'[d] = categories[d]
      /\ categories'[c].tree = run.tid /\ categories'[c].lft = run.left
      /\ categories'[c].rght = run.left + 1
  BY <1>2, <1>7 DEF Renumbered
<1>9. RootsFit'
  <2>1. RootsFit
    BY <1>1 DEF TreeFits, NumbersFit
  <2> QED BY <1>4, <1>5, <1>6, <1>8, <2>1 DEF RootsFit
<1>10. /\ Numbers(root)' = Numbers(root) \union {c} /\ c \notin Numbers(root)
       /\ \A r \in Roots : r # root => Numbers(r)' = Numbers(r) /\ c \notin Numbers(r)
  BY <1>2, <1>4, <1>5, <1>7 DEF Numbers
<1>11. PICK n \in Nat : /\ n = Cardinality(run.children \ {c})
                        /\ Cardinality(run.children) = n + 1
  <2>1. IsFiniteSet(run.children)
    BY <1>1, <1>3, ChildrenFinite, FS_Subset DEF Current
  <2>2. Cardinality(run.children \ {c}) = Cardinality(run.children) - 1
    BY <1>2, <2>1, FS_RemoveElement
  <2>3. IsFiniteSet(run.children \ {c})
    BY <2>1, FS_RemoveElement
  <2>4. Cardinality(run.children) \in Nat /\ Cardinality(run.children \ {c}) \in Nat
    BY <2>1, <2>3, FS_CardinalityType
  <2> QED BY <2>2, <2>4
<1>12. PICK m \in Nat : m = Cardinality(Children(root))
  BY <1>1, ChildrenFinite
<1>13. /\ run.left + 2 * n = 2 * m /\ run.left >= 2
       /\ categories[root].rght = 2 * m + 2 /\ categories[root].tree = run.tid
       /\ \A d \in Numbers(root) : categories[d].rght < run.left
  BY <1>1, <1>3, <1>11, <1>12 DEF Current, TreeFits, NumbersFit, RootsFit
<1>14. run.left + 1 < categories[root].rght
  BY <1>1, <1>13
<1>15. \A r \in Roots : \A d \in Numbers(r) :
         categories[d].lft \in Nat /\ categories[d].rght \in Nat
  BY <1>7 DEF Numbers, TypeOK
<1>16. ChildrenFit'
  <2>1. ChildrenFit
    BY <1>1 DEF TreeFits, NumbersFit
  <2>2. ASSUME NEW r \in Roots, r # root, NEW d \in Numbers(r)'
        PROVE  /\ categories'[d].tree = categories'[r].tree
               /\ categories'[d].lft >= 2
               /\ categories'[d].rght = categories'[d].lft + 1
               /\ categories'[d].rght < categories'[r].rght
               /\ \A e \in Numbers(r)' :
                    d # e => \/ categories'[d].rght < categories'[e].lft
                             \/ categories'[e].rght < categories'[d].lft
    <3>1. /\ d \in Numbers(r) /\ d # c /\ Numbers(r)' = Numbers(r) /\ c \notin Numbers(r)
          /\ \A e \in Numbers(r) : e \in DOMAIN categories
      BY <1>7, <1>10, <2>2 DEF Numbers
    <3> QED BY <1>8, <2>1, <3>1 DEF ChildrenFit
  <2>3. ASSUME NEW d \in Numbers(root)
        PROVE  /\ categories'[d] = categories[d]
               /\ categories'[d].tree = categories'[root].tree
               /\ categories'[d].lft >= 2
               /\ categories'[d].rght = categories'[d].lft + 1
               /\ categories'[d].rght < categories'[root].rght
               /\ categories'[d].rght < categories'[c].lft
    <3>1. d \in DOMAIN categories /\ d # c
      BY <1>7, <1>10 DEF Numbers
    <3> QED BY <1>8, <1>13, <2>1, <3>1 DEF ChildrenFit
  <2>4. /\ categories'[c].tree = categories'[root].tree
        /\ categories'[c].lft >= 2
        /\ categories'[c].rght = categories'[c].lft + 1
        /\ categories'[c].rght < categories'[root].rght
    BY <1>8, <1>13, <1>14
  <2>5. ASSUME NEW d \in Numbers(root)'
        PROVE  /\ categories'[d].tree = categories'[root].tree
               /\ categories'[d].lft >= 2
               /\ categories'[d].rght = categories'[d].lft + 1
               /\ categories'[d].rght < categories'[root].rght
               /\ \A e \in Numbers(root)' :
                    d # e => \/ categories'[d].rght < categories'[e].lft
                             \/ categories'[e].rght < categories'[d].lft
    <3>1. CASE d = c
      BY <1>10, <2>3, <2>4, <3>1
    <3>2. CASE d \in Numbers(root)
      <4>1. \A e \in Numbers(root) :
              d # e => \/ categories'[d].rght < categories'[e].lft
                       \/ categories'[e].rght < categories'[d].lft
        BY <2>1, <2>3, <3>2 DEF ChildrenFit
      <4> QED BY <1>10, <2>3, <3>2, <4>1
    <3> QED BY <1>10, <3>1, <3>2
  <2> QED BY <1>6, <2>2, <2>5 DEF ChildrenFit
<1>17. Current(root)'
  <2>1. \A d \in Numbers(root)' : categories'[d].rght < run'.left
    <3>1. \A d \in Numbers(root) : d \in DOMAIN categories /\ d # c
      BY <1>7, <1>10 DEF Numbers
    <3>2. \A d \in Numbers(root) : categories'[d].rght < run'.left
      BY <1>1, <1>3, <1>4, <1>8, <1>13, <1>15, <3>1
    <3>3. categories'[c].rght < run'.left
      BY <1>1, <1>4, <1>8
    <3> QED BY <1>10, <3>2, <3>3
  <2>2. run'.children \subseteq Children(root)
    BY <1>3, <1>4 DEF Current
  <2>3. run'.left + 2 * n = 2 * m + 2 /\ run'.left >= 2
    BY <1>1, <1>4, <1>13
  <2> QED BY <1>3, <1>4, <1>5, <1>6, <1>8, <1>11, <1>12, <1>13, <2>1, <2>2, <2>3 DEF Current
<1>18. NumbersFit'
  BY <1>1, <1>4, <1>5, <1>6, <1>9, <1>16, <1>17 DEF NumbersFit
<1>19. run'.at = "number" /\ DOMAIN categories' = DOMAIN categories
  BY <1>2, <1>4 DEF OnTree, Renumbered
<1> QED BY <1>1, <1>18, <1>19 DEF TreeFits

\* At the end every root and every child of one has its numbers, and under two
\* levels there is nothing else.
LEMMA NumberedNested ==
  ASSUME TypeOK, TreeFits, run.at = "number", run.roots = {}, run.children = {}
  PROVE  Nested
<1> SUFFICES ASSUME TwoLevels, NEW c \in DOMAIN categories, NEW d \in DOMAIN categories, c # d
             PROVE  IF categories[c].parent = d THEN Inside(c, d)
                    ELSE categories[d].parent = c \/ Apart(c, d)
  BY DEF Nested
<1>1. NumbersFit /\ None \notin DOMAIN categories
  BY ZohoAssumption DEF TreeFits, TypeOK, ZohoAssumption
<1>2. Roots = Children(None) /\ \A r : Numbers(r) = Children(r)
  BY DEF Roots, Numbers
<1>3. /\ \A r \in Roots : /\ categories[r].lft = 1
                          /\ r \in DOMAIN categories /\ categories[r].parent = None
      /\ \A q, r \in Roots : categories[q].tree = categories[r].tree => q = r
  BY <1>1, <1>2 DEF NumbersFit, RootsFit, Children
<1>4. \A r \in Roots : \A e \in Children(r) :
        /\ categories[e].tree = categories[r].tree
        /\ categories[e].lft >= 2
        /\ categories[e].rght < categories[r].rght
        /\ \A f \in Children(r) : e # f => \/ categories[e].rght < categories[f].lft
                                           \/ categories[f].rght < categories[e].lft
  BY <1>1, <1>2 DEF NumbersFit, ChildrenFit
<1>5. \A e \in DOMAIN categories :
        /\ categories[e].lft \in Nat /\ categories[e].rght \in Nat
        /\ \/ e \in Roots
           \/ categories[e].parent \in Roots /\ e \in Children(categories[e].parent)
  BY <1>2 DEF TypeOK, TwoLevels, Children
<1>6. CASE c \in Roots /\ d \in Roots
  BY <1>1, <1>3, <1>6 DEF Apart
<1>7. CASE c \in Roots /\ d \notin Roots
  <2>1. categories[c].parent # d
    BY <1>1, <1>3, <1>7
  <2>2. CASE categories[d].parent # c
    BY <1>3, <1>4, <1>5, <1>7, <2>1, <2>2 DEF Apart
  <2> QED BY <2>1, <2>2
<1>8. CASE c \notin Roots /\ d \in Roots
  <2>1. CASE categories[c].parent = d
    BY <1>3, <1>4, <1>5, <1>8, <2>1 DEF Inside
  <2>2. CASE categories[c].parent # d
    BY <1>3, <1>4, <1>5, <1>8, <2>2 DEF Apart
  <2> QED BY <2>1, <2>2
<1>9. CASE c \notin Roots /\ d \notin Roots
  <2>1. categories[c].parent # d
    BY <1>5, <1>9
  <2>2. CASE categories[c].parent = categories[d].parent
    BY <1>4, <1>5, <1>9, <2>1, <2>2 DEF Apart
  <2>3. CASE categories[c].parent # categories[d].parent
    BY <1>3, <1>4, <1>5, <1>9, <2>1, <2>3 DEF Apart
  <2> QED BY <2>1, <2>2, <2>3
<1> QED BY <1>6, <1>7, <1>8, <1>9

LEMMA TreeList ==
  ASSUME TypeOK, TreeFits, ListKeys
  PROVE  TreeFits'
<1>1. /\ run.at = "number" /\ run.roots = {} /\ run.children = {} /\ run'.at = "bust"
      /\ categories' = categories
  BY ListTypes DEF AtKeys, shop
<1>2. Nested'
  BY <1>1, NumberedNested, NestedStays
<1> QED BY <1>1, <1>2 DEF TreeFits, NumbersFit

LEMMA TreeDelete ==
  ASSUME TypeOK, TreeFits, DeleteKeys
  PROVE  TreeFits'
<1>1. run.at = "bust" /\ run'.at = "idle" /\ categories' = categories
  BY DeleteTypes DEF Idle, shop
<1>2. Nested'
  BY <1>1, NestedStays DEF TreeFits
<1> QED BY <1>1, <1>2 DEF TreeFits, NumbersFit

-----------------------------------------------------------------------------
(* The page and the record in hands.                                       *)

\* The run is on no page.
OffPage == run'.at \in {"idle", "fetch", "tree", "number", "bust"}

LEMMA OffPageFits == OffPage => PageFits' /\ RecordFits' /\ ProductFits'
BY DEF OffPage, PageFits, RecordFits, ProductFits, Handling, Writing

LEMMA PageContinues ==
  ASSUME PageFits, RecordFits, run.at \in Handling \union Writing,
         NEW at \in Handling \union Writing, Continues(at), UNCHANGED <<zoho, synced>>,
         at = "category" => run.listing.department \in DOMAIN categories'
  PROVE  PageFits' /\ RecordFits'
BY DEF PageFits, RecordFits, Continues

LEMMA PageFetched ==
  ASSUME TypeOK, FetchPage
  PROVE  PageFits' /\ RecordFits' /\ ProductFits'
<1>1. /\ run' \in OnPage
      /\ DOMAIN run'.todo \cap run'.off = {}
      /\ \A s \in DOMAIN run'.todo : run'.todo[s] = zoho[s] /\ zoho[s].web
      /\ \A s \in run'.off : s \in Skus /\ ~ zoho[s].web
      /\ UNCHANGED <<zoho, synced>>
  BY FetchTypes DEF FetchPage, ghosts
<1>2. \A s \in DOMAIN run'.todo : s \in Skus /\ zoho[s] \in Listings[s]
  BY <1>1, PageFields DEF OnPage, TypeOK, Records
<1> QED BY <1>1, <1>2 DEF PageFits, RecordFits, ProductFits, OnPage, Handling, Writing

LEMMA PagePicked ==
  ASSUME TypeOK, PageFits, NEW sku \in Skus, PickProduct(sku)
  PROVE  PageFits' /\ RecordFits' /\ ProductFits'
<1>1. /\ run.at = "page" /\ sku \in DOMAIN run.todo
      /\ \/ run' = Idle
         \/ Skipped(sku)
         \/ Picked(sku)
      /\ UNCHANGED <<zoho, synced>>
  BY PickTypes
<1>2. /\ \A s \in DOMAIN run.todo :
           /\ run.todo[s] \in Listings[s] /\ run.todo[s].web /\ s \notin run.off
           /\ s \in synced => zoho[s] = run.todo[s]
      /\ \A s \in run.off : s \in synced => ~ zoho[s].web
  BY <1>1 DEF PageFits
<1>3. CASE run' = Idle
  BY <1>3, OffPageFits DEF OffPage, Idle
<1>4. CASE Skipped(sku)
  <2>1. run'.at = "page"
    BY <1>4 DEF Skipped, OnPage
  <2>2. PageFits'
    BY <1>1, <1>2, <1>4 DEF PageFits, Skipped
  <2> QED BY <2>1, <2>2 DEF RecordFits, ProductFits, Handling, Writing
<1>5. CASE Picked(sku)
  <2>1. run'.listing \in Listing
    BY <1>2, <1>1, <1>5, ListingFields DEF Picked
  <2>2. run'.listing.category \in Categories /\ run'.listing.department \in Categories
    BY <1>5, <2>1 DEF Picked, Listing
  <2>3. PageFits'
    BY <1>1, <1>2, <1>5 DEF PageFits, Picked
  <2>4. RecordFits'
    BY <1>1, <1>2, <1>5, <2>2 DEF RecordFits, Picked
  <2> QED BY <1>5, <2>3, <2>4 DEF ProductFits, Picked, Writing
<1> QED BY <1>1, <1>3, <1>4, <1>5

LEMMA PageLeft ==
  ASSUME TypeOK, PageFits, RecordFits, DropImages
  PROVE  PageFits' /\ RecordFits' /\ ProductFits'
<1>1. /\ run.at = "images" /\ run' \in OnPage /\ run'.todo = run.todo /\ run'.off = run.off
      /\ synced' \subseteq synced \union {run.sku} /\ zoho' = zoho
  BY LeaveTypes DEF Written
<1>2. PageFits'
  BY <1>1 DEF PageFits, RecordFits, Handling, Writing
<1> QED BY <1>1, <1>2 DEF RecordFits, ProductFits, OnPage, Handling, Writing

LEMMA OnlySame ==
  ASSUME run' = run, variants' = variants
  PROVE  \A slug : Only(slug)' <=> Only(slug)
BY DEF Only

LEMMA PageOutside ==
  ASSUME TypeOK, PageFits, RecordFits, ProductFits, Outside
  PROVE  PageFits' /\ RecordFits' /\ ProductFits'
<1>1. UNCHANGED <<products, variants, stocks, categories, run>>
  BY OutsideTypes DEF shop
<1>2. synced' \subseteq synced /\ \A s \in synced' : zoho'[s] = zoho[s]
  <2>1. ASSUME NEW sku \in Skus, Edit(sku)
        PROVE  synced' \subseteq synced /\ \A s \in synced' : zoho'[s] = zoho[s]
    BY <2>1 DEF Edit, TypeOK, Records
  <2> QED BY <2>1 DEF Outside, Forget, Ask, Keep, Expire, ghosts
<1>3. PageFits'
  BY <1>1, <1>2 DEF PageFits
<1>4. RecordFits'
  BY <1>1, <1>2 DEF RecordFits
<1>5. ProductFits'
  BY <1>1, <1>2 DEF ProductFits, Only, InHand
<1> QED BY <1>3, <1>4, <1>5

-----------------------------------------------------------------------------
(* The product in hand.                                                    *)

LEMMA FitsClear ==
  ASSUME TypeOK, RecordFits, ProductFits, ClearValue
  PROVE  ProductFits'
<1>1. /\ run.at = "clear" /\ Continues("value") /\ run'.slug = run.slug
      /\ Written([InHand EXCEPT !.values[run.listing.category] = None])
      /\ UNCHANGED <<stocks, synced>> /\ InHand \in ProductRow
  BY ClearTypes, InHandFields DEF ghosts, Writing
<1>2. /\ InHand'.published = InHand.published /\ InHand'.category = InHand.category
      /\ InHand'.images = InHand.images
  BY <1>1 DEF Written, InHand, ProductRow
<1>3. run'.at = "value" /\ UNCHANGED <<run.sku, run.listing, variants>>
  BY <1>1 DEF Continues, Written
<1> QED BY <1>1, <1>2, <1>3 DEF ProductFits, Only, Writing

LEMMA FitsValue ==
  ASSUME TypeOK, RecordFits, ProductFits, SetValue
  PROVE  ProductFits'
<1>1. /\ run.at = "value" /\ Continues("variant") /\ run'.slug = run.slug
      /\ Written([InHand EXCEPT !.values[run.listing.category] = run.listing.value])
      /\ UNCHANGED <<stocks, synced>> /\ InHand \in ProductRow
      /\ run.listing.category \in Categories
  BY ValueTypes, InHandFields DEF ghosts, RecordFits, Writing
<1>2. /\ InHand'.published = InHand.published /\ InHand'.category = InHand.category
      /\ InHand'.images = InHand.images
      /\ InHand'.values[run.listing.category] = run.listing.value
  BY <1>1 DEF Written, InHand, ProductRow
<1>3. run'.at = "variant" /\ UNCHANGED <<run.sku, run.listing, variants>>
  BY <1>1 DEF Continues, Written
<1> QED BY <1>1, <1>2, <1>3 DEF ProductFits, Only, Writing

LEMMA FitsVariant ==
  ASSUME TypeOK, ProductFits, SaveVariant
  PROVE  ProductFits'
<1>1. /\ run.at = "variant" /\ Continues("collect") /\ run'.slug = run.slug
      /\ run'.left = run.listing.collections
      /\ DOMAIN variants' = DOMAIN variants \union {run.sku}
      /\ \A s \in DOMAIN variants : variants'[s] = variants[s]
      /\ run.sku \notin DOMAIN variants => variants'[run.sku] = run.slug
      /\ UNCHANGED <<products, stocks, synced>>
  BY VariantTypes DEF ghosts
<1>2. run'.at = "collect" /\ UNCHANGED <<run.sku, run.listing>> /\ InHand' = InHand
  BY <1>1 DEF Continues, InHand
<1>3. Only(run.slug)' => Only(run.slug)
  BY <1>1, <1>2 DEF Only
<1> QED BY <1>1, <1>2, <1>3 DEF ProductFits, Writing

LEMMA FitsCollect ==
  ASSUME TypeOK, RecordFits, ProductFits, AddCollection
  PROVE  ProductFits'
<1>1. /\ run.at = "collect" /\ Continues("collect") /\ run'.slug = run.slug
      /\ UNCHANGED <<stocks, synced>> /\ InHand \in ProductRow
  BY CollectTypes, InHandFields DEF ghosts, Writing
<1>2. PICK c \in run.left :
        /\ Written([InHand EXCEPT !.collections = @ \union {c}])
        /\ run'.left = run.left \ {c}
  BY CollectTypes
<1>3. /\ InHand'.published = InHand.published /\ InHand'.category = InHand.category
      /\ InHand'.images = InHand.images /\ InHand'.values = InHand.values
      /\ InHand'.collections = InHand.collections \union {c}
  BY <1>1, <1>2 DEF Written, InHand, ProductRow
<1>4. run'.at = "collect" /\ UNCHANGED <<run.sku, run.listing, variants>>
  BY <1>1, <1>2 DEF Continues, Written
<1> QED BY <1>1, <1>2, <1>3, <1>4 DEF ProductFits, Only, Writing

LEMMA FitsDrop ==
  ASSUME TypeOK, RecordFits, ProductFits, DropCollections
  PROVE  ProductFits'
<1>1. /\ run.at = "collect" /\ run.left = {} /\ Continues("stock") /\ run'.slug = run.slug
      /\ Written([InHand EXCEPT !.collections = @ \intersect run.listing.collections])
      /\ UNCHANGED <<stocks, synced>> /\ InHand \in ProductRow
  BY DropTypes, InHandFields DEF ghosts, Writing
<1>2. /\ InHand'.published = InHand.published /\ InHand'.category = InHand.category
      /\ InHand'.images = InHand.images /\ InHand'.values = InHand.values
      /\ InHand'.collections = InHand.collections \intersect run.listing.collections
  BY <1>1 DEF Written, InHand, ProductRow
<1>3. run'.at = "stock" /\ UNCHANGED <<run.sku, run.listing, variants>>
  BY <1>1 DEF Continues, Written
<1> QED BY <1>1, <1>2, <1>3 DEF ProductFits, Only, Writing

LEMMA FitsStock ==
  ASSUME TypeOK, RecordFits, ProductFits, AddStock
  PROVE  ProductFits'
<1>1. /\ run.at = "stock" /\ Continues("images") /\ run'.slug = run.slug
      /\ run'.left = run.listing.images /\ stocks' = stocks \union {run.sku}
      /\ Written(InHand) /\ UNCHANGED synced
  BY StockTypes DEF ghosts
<1>2. InHand' = InHand
  BY <1>1 DEF Written, InHand
<1>3. run'.at = "images" /\ UNCHANGED <<run.sku, run.listing, variants>>
  BY <1>1 DEF Continues, Written
<1> QED BY <1>1, <1>2, <1>3 DEF ProductFits, Only, Writing

LEMMA FitsImage ==
  ASSUME TypeOK, RecordFits, ProductFits, AddImage
  PROVE  ProductFits'
<1>1. /\ run.at = "images" /\ Continues("images") /\ run'.slug = run.slug
      /\ UNCHANGED <<stocks, synced>> /\ InHand \in ProductRow
  BY ImageTypes, InHandFields DEF ghosts, Writing
<1>2. PICK i \in run.left :
        /\ run'.left = run.left \ {i}
        /\ \/ /\ Written([InHand EXCEPT !.images = @ \union {i}])
              /\ run'.lost = run.lost
           \/ Written(InHand) /\ run'.lost
  BY ImageTypes
<1>3. /\ InHand'.published = InHand.published /\ InHand'.category = InHand.category
      /\ InHand'.collections = InHand.collections /\ InHand'.values = InHand.values
      /\ \/ InHand'.images = InHand.images \union {i} /\ run'.lost = run.lost
         \/ InHand'.images = InHand.images /\ run'.lost
  BY <1>1, <1>2 DEF Written, InHand, ProductRow
<1>4. run'.at = "images" /\ UNCHANGED <<run.sku, run.listing, variants>>
  BY <1>1, <1>2 DEF Continues, Written
<1>5. i \in run.listing.images
  BY <1>1, <1>2 DEF ProductFits, Writing
<1>6. run.sku \in synced /\ Only(run.slug) => InHand'.images = run.listing.images
  BY <1>1, <1>3, <1>5 DEF ProductFits, Writing
<1> QED BY <1>1, <1>2, <1>3, <1>4, <1>6 DEF ProductFits, Only, Writing

\* A product whose record was taken over has the record's images before the
\* row is written again, unless somebody else is sold as it too.
LEMMA FitsProduct ==
  ASSUME TypeOK, RecordFits, TakenOverStays, SaveProduct
  PROVE  ProductFits'
<1>1. /\ run.at = "product" /\ run'.slug = SlugFor(run.sku)
      /\ Continues(IF run.listing.value = None THEN "variant" ELSE "clear")
      /\ products'[run'.slug] = SavedAs(run'.slug)
      /\ UNCHANGED <<zoho, variants, stocks, synced>>
  BY ProductTypes DEF ghosts
<1>2. /\ run'.at = IF run.listing.value = None THEN "variant" ELSE "clear"
      /\ UNCHANGED <<run.sku, run.listing>>
  BY <1>1 DEF Continues
<1>3. /\ InHand'.published /\ InHand'.category = run.listing.category
      /\ InHand'.images = (IF run'.slug \in DOMAIN products
                           THEN products[run'.slug] ELSE Fresh).images
  BY <1>1 DEF InHand, SavedAs
<1>4. run.sku \in DOMAIN variants => variants[run.sku] = run'.slug
  BY <1>1 DEF SlugFor
<1>5. ASSUME run.sku \in synced, Only(run.slug)'
      PROVE  InHand'.images = run.listing.images
  <2>1. \A s \in DOMAIN variants : variants[s] = run'.slug => s = run.sku
    BY <1>1, <1>2, <1>5 DEF Only
  <2>2. ~ Shared(run.sku)
    BY <1>1, <1>4, <2>1 DEF Shared, InProduct, Writing
  <2>3. Mirrored(run.sku) /\ zoho[run.sku] = run.listing /\ run.listing.web
    BY <1>1, <1>5, <2>2 DEF TakenOverStays, RecordFits, Handling
  <2>4. /\ run.sku \in DOMAIN variants
        /\ products[variants[run.sku]].images = run.listing.images
    BY <2>3 DEF Mirrored, TypeOK
  <2>5. variants[run.sku] \in DOMAIN products
    BY <2>4 DEF TypeOK
  <2> QED BY <1>3, <1>4, <2>4, <2>5
<1> QED BY <1>1, <1>2, <1>3, <1>4, <1>5 DEF ProductFits, Writing

-----------------------------------------------------------------------------
(* What is on sale can be bought.                                          *)

LEMMA BoughtQuiet ==
  ASSUME Bought, run.at \notin Writing, UNCHANGED <<products, variants, died>>
  PROVE  Bought'
BY DEF Bought, InProduct

LEMMA BoughtOutside ==
  ASSUME TypeOK, Bought, Outside
  PROVE  Bought'
<1>1. UNCHANGED <<products, variants, run, died>>
  BY OutsideTypes DEF shop
<1> QED BY <1>1 DEF Bought, InProduct

\* A statement on the product in hand, which stays in hand.
Works ==
  /\ run.at \in Writing /\ run'.at \in Writing /\ run'.slug = run.slug
  /\ DOMAIN products' = DOMAIN products
  /\ \A slug \in DOMAIN products : slug # run.slug => products'[slug] = products[slug]
  /\ DOMAIN variants \subseteq DOMAIN variants'
  /\ \A s \in DOMAIN variants : variants'[s] = variants[s]
  /\ \A s \in DOMAIN variants' \ DOMAIN variants : variants'[s] = run.slug
  /\ stocks \subseteq stocks'
  /\ UNCHANGED <<zoho, synced, died>>

LEMMA StepWorks ==
  ASSUME TypeOK, RecordFits, ProductFits,
         ClearValue \/ SetValue \/ SaveVariant \/ AddCollection \/ DropCollections
           \/ AddStock \/ AddImage
  PROVE  Works
<1> USE DEF Works, Continues, Written, Writing, ghosts
<1>1. CASE ClearValue
  BY <1>1, ClearTypes
<1>2. CASE SetValue
  BY <1>2, ValueTypes
<1>3. CASE SaveVariant
  BY <1>3, VariantTypes
<1>4. CASE AddCollection
  BY <1>4, CollectTypes
<1>5. CASE DropCollections
  BY <1>5, DropTypes
<1>6. CASE AddStock
  BY <1>6, StockTypes
<1>7. CASE AddImage
  BY <1>7, ImageTypes
<1> QED BY <1>1, <1>2, <1>3, <1>4, <1>5, <1>6, <1>7

LEMMA RangeGrows ==
  ASSUME Works
  PROVE  Range(variants) \subseteq Range(variants')
BY DEF Works, Range

LEMMA BoughtWorks ==
  ASSUME Bought, Works
  PROVE  Bought'
BY RangeGrows DEF Bought, Works, InProduct

LEMMA BoughtProduct ==
  ASSUME TypeOK, RecordFits, Bought, SaveProduct
  PROVE  Bought'
<1>1. /\ run.at = "product" /\ run'.at \in {"variant", "clear"}
      /\ DOMAIN products' = DOMAIN products \union {run'.slug}
      /\ \A slug \in DOMAIN products : slug # run'.slug => products'[slug] = products[slug]
      /\ UNCHANGED <<variants, died>>
  BY ProductTypes DEF Continues, ghosts
<1> QED BY <1>1 DEF Bought, InProduct, Writing

LEMMA BoughtLeft ==
  ASSUME TypeOK, ProductFits, Bought, DropImages
  PROVE  Bought'
<1>1. /\ run.at = "images" /\ run' \in OnPage
      /\ DOMAIN products' = DOMAIN products
      /\ \A slug \in DOMAIN products : slug # run.slug => products'[slug] = products[slug]
      /\ UNCHANGED <<variants, died>>
  BY LeaveTypes DEF Written
<1>2. run.slug \in Range(variants)
  BY <1>1 DEF ProductFits, Writing, Range
<1> QED BY <1>1, <1>2 DEF Bought, InProduct

LEMMA BoughtDisable ==
  ASSUME TypeOK, Bought, DisableProducts
  PROVE  Bought'
<1>1. /\ run.at = "page"
      /\ DOMAIN products' = DOMAIN products
      /\ \A slug \in DOMAIN products :
           products'[slug] = IF slug \in Disabled(run.off)
                             THEN [products[slug] EXCEPT !.published = FALSE]
                             ELSE products[slug]
      /\ UNCHANGED <<variants, died>>
  BY DisableTypes
<1>2. \A slug \in DOMAIN products : products'[slug].published => products[slug].published
  BY <1>1 DEF TypeOK, ProductRow
<1> QED BY <1>1, <1>2 DEF Bought, InProduct, Writing

LEMMA BoughtDie ==
  ASSUME TypeOK, Die
  PROVE  Bought'
BY DieTypes DEF Bought

-----------------------------------------------------------------------------
(* What was taken over.                                                    *)

LEMMA StaysQuiet ==
  ASSUME TakenOverStays, run.at \notin Writing,
         UNCHANGED <<zoho, products, variants, stocks, synced>>
  PROVE  TakenOverStays'
BY DEF TakenOverStays, Mirrored, Shared, InProduct

LEMMA StaysOutside ==
  ASSUME TypeOK, TakenOverStays, Outside
  PROVE  TakenOverStays'
<1>1. UNCHANGED <<products, variants, stocks, run>>
  BY OutsideTypes DEF shop
<1>2. synced' \subseteq synced /\ \A s \in synced' : zoho'[s] = zoho[s]
  <2>1. ASSUME NEW sku \in Skus, Edit(sku)
        PROVE  synced' \subseteq synced /\ \A s \in synced' : zoho'[s] = zoho[s]
    BY <2>1 DEF Edit, TypeOK, Records
  <2> QED BY <2>1 DEF Outside, Forget, Ask, Keep, Expire, ghosts
<1> QED BY <1>1, <1>2 DEF TakenOverStays, Mirrored, Shared, InProduct

\* The records whose rows a dead run had in hand are taken over no more.
LEMMA StaysDie ==
  ASSUME TypeOK, TakenOverStays, Die
  PROVE  TakenOverStays'
<1>1. synced' = synced \ Broken /\ UNCHANGED <<zoho, products, variants, stocks>>
  BY DieTypes DEF shop
<1> QED BY <1>1 DEF TakenOverStays, Mirrored, Shared, Broken

\* Whoever is sold as the product in hand is Shared; the rest is not touched.
LEMMA StaysWorks ==
  ASSUME TypeOK, TakenOverStays, Works
  PROVE  TakenOverStays'
<1> SUFFICES ASSUME NEW s \in synced'
             PROVE  Mirrored(s)' \/ Shared(s)'
  BY DEF TakenOverStays
<1>1. s \in synced
  BY DEF Works
<1>2. CASE s \in DOMAIN variants' /\ variants'[s] = run.slug
  BY <1>2 DEF Shared, InProduct, Works
<1>3. CASE s \in DOMAIN variants /\ variants[s] # run.slug
  <2>1. variants'[s] = variants[s] /\ products'[variants[s]] = products[variants[s]]
    BY <1>3 DEF Works, TypeOK
  <2>2. CASE Mirrored(s)
    BY <1>3, <2>1, <2>2 DEF Mirrored, Works
  <2>3. CASE Shared(s)
    BY <1>3, <2>1, <2>3 DEF Shared, InProduct, Works
  <2> QED BY <1>1, <2>2, <2>3 DEF TakenOverStays
<1>4. CASE s \notin DOMAIN variants'
  BY <1>1, <1>4 DEF TakenOverStays, Shared, Mirrored, Works, TypeOK
<1> QED BY <1>2, <1>3, <1>4 DEF Works

LEMMA StaysProduct ==
  ASSUME TypeOK, RecordFits, TakenOverStays, SaveProduct
  PROVE  TakenOverStays'
<1> SUFFICES ASSUME NEW s \in synced'
             PROVE  Mirrored(s)' \/ Shared(s)'
  BY DEF TakenOverStays
<1>1. /\ run.at = "product" /\ run'.at \in {"variant", "clear"}
      /\ \A slug \in DOMAIN products : slug # run'.slug => products'[slug] = products[slug]
      /\ UNCHANGED <<zoho, variants, stocks, synced>>
  BY ProductTypes DEF Continues, ghosts
<1>2. CASE s \in DOMAIN variants /\ variants[s] = run'.slug
  BY <1>1, <1>2 DEF Shared, InProduct, Writing
<1>3. CASE s \in DOMAIN variants /\ variants[s] # run'.slug
  <2>1. products'[variants[s]] = products[variants[s]]
    BY <1>1, <1>3 DEF TypeOK
  <2> QED BY <1>1, <2>1 DEF TakenOverStays, Mirrored, Shared, InProduct, Writing
<1>4. CASE s \notin DOMAIN variants
  BY <1>1, <1>4 DEF TakenOverStays, Shared, Mirrored, TypeOK
<1> QED BY <1>2, <1>3, <1>4

\* The record that is left was taken over just now, or had its images before,
\* or shares its product.
LEMMA StaysLeft ==
  ASSUME TypeOK, RecordFits, ProductFits, TakenOverStays, DropImages
  PROVE  TakenOverStays'
<1> SUFFICES ASSUME NEW s \in synced'
             PROVE  Mirrored(s)' \/ Shared(s)'
  BY DEF TakenOverStays
<1>1. /\ run.at = "images" /\ run.left = {} /\ run' \in OnPage
      /\ \/ /\ Written([InHand EXCEPT !.images = @ \intersect run.listing.images])
            /\ synced' = IF run.lost \/ zoho[run.sku] # run.listing
                         THEN synced ELSE synced \union {run.sku}
         \/ Written(InHand) /\ synced' = synced
      /\ InHand \in ProductRow
      /\ UNCHANGED <<zoho, variants, stocks>>
  BY LeaveTypes, InHandFields DEF Written, Writing
<1>2. /\ run.sku \in DOMAIN variants /\ variants[run.sku] = run.slug /\ run.sku \in stocks
      /\ InHand.published /\ InHand.category = run.listing.category
      /\ run.listing.value # None => InHand.values[run.listing.category] = run.listing.value
      /\ InHand.collections = run.listing.collections
      /\ run.sku \in synced /\ Only(run.slug) => InHand.images = run.listing.images
      /\ ~ run.lost => run.listing.images \subseteq InHand.images
      /\ run.listing.web
      /\ run.sku \in synced => zoho[run.sku] = run.listing
  BY <1>1 DEF ProductFits, RecordFits, Writing
<1>3. /\ products'[run.slug].published /\ products'[run.slug].category = InHand.category
      /\ products'[run.slug].values = InHand.values
      /\ products'[run.slug].collections = InHand.collections
      /\ \/ products'[run.slug].images = InHand.images \intersect run.listing.images
         \/ products'[run.slug].images = InHand.images /\ synced' = synced
  BY <1>1, <1>2 DEF Written, ProductRow
<1>4. CASE s # run.sku /\ s \in DOMAIN variants /\ variants[s] = run.slug
  BY <1>1, <1>2, <1>4 DEF Shared
<1>5. CASE s # run.sku /\ s \in DOMAIN variants /\ variants[s] # run.slug
  <2>1. products'[variants[s]] = products[variants[s]] /\ s \in synced
    BY <1>1, <1>5 DEF Written, TypeOK
  <2> QED BY <1>1, <1>5, <2>1 DEF TakenOverStays, Mirrored, Shared, InProduct
<1>6. CASE s # run.sku /\ s \notin DOMAIN variants
  BY <1>1, <1>6 DEF TakenOverStays, Shared, Mirrored, TypeOK
<1>7. CASE s = run.sku
  <2>1. CASE ~ Only(run.slug)
    BY <1>1, <1>2, <1>7, <2>1 DEF Only, Shared
  <2>2. CASE Only(run.slug)
    <3>1. zoho[s] = run.listing /\ run.listing.web
      BY <1>1, <1>2, <1>7
    <3>2. products'[run.slug].images = run.listing.images
      BY <1>1, <1>2, <1>3, <1>7, <2>2
    <3> QED BY <1>1, <1>2, <1>3, <1>7, <3>1, <3>2 DEF Mirrored
  <2> QED BY <2>1, <2>2
<1> QED BY <1>4, <1>5, <1>6, <1>7

LEMMA StaysDisable ==
  ASSUME TypeOK, PageFits, TakenOverStays, DisableProducts
  PROVE  TakenOverStays'
<1> SUFFICES ASSUME NEW s \in synced'
             PROVE  Mirrored(s)' \/ Shared(s)'
  BY DEF TakenOverStays
<1>1. /\ run.at = "page"
      /\ \A slug \in DOMAIN products :
           products'[slug] = IF slug \in Disabled(run.off)
                             THEN [products[slug] EXCEPT !.published = FALSE]
                             ELSE products[slug]
      /\ synced' = synced \union {t \in run.off : ~ zoho[t].web}
      /\ UNCHANGED <<zoho, variants, stocks>>
  BY DisableTypes
<1>2. s \in DOMAIN variants => variants[s] \in DOMAIN products /\ products[variants[s]] \in ProductRow
  BY DEF TypeOK
<1>3. \A slug \in DOMAIN products :
        /\ products[slug] \in ProductRow
        /\ slug \in Disabled(run.off) => ~ products'[slug].published
        /\ ~ products[slug].published => ~ products'[slug].published
        /\ slug \notin Disabled(run.off) => products'[slug] = products[slug]
  BY <1>1 DEF TypeOK, ProductRow
<1>4. CASE s \in run.off /\ ~ zoho[s].web
  <2>1. s \in DOMAIN variants => variants[s] \in Disabled(run.off)
    BY <1>4 DEF Disabled
  <2> QED BY <1>1, <1>2, <1>3, <1>4, <2>1 DEF Mirrored
<1>5. CASE s \in synced /\ Shared(s)
  BY <1>1, <1>5 DEF Shared, InProduct, Writing
<1>6. CASE s \in synced /\ Mirrored(s) /\ ~ zoho[s].web
  BY <1>1, <1>2, <1>3, <1>6 DEF Mirrored
<1>7. CASE s \in synced /\ Mirrored(s) /\ zoho[s].web
  <2>1. s \in DOMAIN variants /\ s \notin run.off
    BY <1>1, <1>7 DEF Mirrored, TypeOK, PageFits
  <2>2. CASE variants[s] \in Disabled(run.off)
    BY <1>1, <2>1, <2>2 DEF Disabled, Shared
  <2>3. CASE variants[s] \notin Disabled(run.off)
    BY <1>1, <1>2, <1>3, <1>7, <2>1, <2>3 DEF Mirrored
  <2> QED BY <2>2, <2>3
<1> QED BY <1>1, <1>4, <1>5, <1>6, <1>7 DEF TakenOverStays

-----------------------------------------------------------------------------
(* The invariant.                                                          *)

LEMMA InitIInv == Init => ImportIInv
<1> SUFFICES ASSUME Init PROVE ImportIInv
  OBVIOUS
<1>1. /\ run.at = "idle" /\ cache = "none" /\ query = "none"
      /\ DOMAIN products = {} /\ DOMAIN categories = {} /\ synced = {}
  BY DEF Init, Idle
<1>2. TypeOK
  BY InitTypeOK
<1>3. PageFits /\ RecordFits /\ ProductFits
  BY <1>1 DEF PageFits, RecordFits, ProductFits, Handling, Writing
<1>4. TreeFits
  BY <1>1, FS_EmptySet DEF TreeFits, NumbersFit, Nested
<1>5. CacheFits /\ Bought /\ TakenOverStays
  BY <1>1 DEF CacheFits, Bought, TakenOverStays
<1> QED BY <1>2, <1>3, <1>4, <1>5 DEF ImportIInv

LEMMA QuietPreserves ==
  ASSUME ImportIInv, StartRun \/ FetchPage \/ (\E sku \in Skus : PickProduct(sku)) \/ ReadTree
  PROVE  ImportIInv'
<1> USE DEF ImportIInv
<1>1. /\ TypeOK' /\ run.at \notin Writing
      /\ UNCHANGED <<zoho, products, variants, stocks, categories, died, synced>>
  BY StartTypes, FetchPageTypes, PickProductTypes, PickTypes, ReadTypes
     DEF StartRun, FetchPage, ReadTree, shop, ghosts, Writing
<1>2. Bought' /\ TakenOverStays'
  BY <1>1, BoughtQuiet, StaysQuiet
<1>3. CASE StartRun
  <2>1. OffPage /\ Elsewhere
    BY <1>3, StartTypes DEF OffPage, Elsewhere
  <2> QED BY <1>1, <1>2, <2>1, OffPageFits, TreeSame, CacheElsewhere
<1>4. CASE FetchPage
  <2>1. Elsewhere
    BY <1>4, FetchTypes DEF Elsewhere, OnPage
  <2> QED BY <1>1, <1>2, <1>4, <2>1, PageFetched, TreeSame, CacheElsewhere
<1>5. ASSUME NEW sku \in Skus, PickProduct(sku)
      PROVE  ImportIInv'
  <2>1. Elsewhere
    <3>1. CASE run' = Idle /\ stopped' = TRUE
      BY <3>1 DEF Elsewhere, Idle
    <3>2. CASE Skipped(sku) \/ Picked(sku)
      BY <3>2 DEF Elsewhere, Picked, Skipped, OnPage
    <3> QED BY <1>5, <3>1, <3>2, PickTypes
  <2> QED BY <1>1, <1>2, <1>5, <2>1, PagePicked, TreeSame, CacheElsewhere
<1>6. CASE ReadTree
  <2>1. run'.at = "number"
    BY <1>6, ReadTypes DEF Remains, OnTree
  <2>2. OffPage /\ CacheFits'
    BY <2>1 DEF OffPage, CacheFits
  <2> QED BY <1>1, <1>2, <1>6, <2>2, OffPageFits, TreeRead
<1> QED BY <1>3, <1>4, <1>5, <1>6

LEMMA CategoryPreserves ==
  ASSUME ImportIInv, UpsertDepartment \/ UpsertCategory
  PROVE  ImportIInv'
<1> USE DEF ImportIInv
<1>1. CASE UpsertDepartment
  <2>1. /\ TypeOK' /\ Continues("category") /\ run.at = "department"
        /\ DOMAIN categories' = DOMAIN categories \union {run.listing.department}
        /\ UNCHANGED <<zoho, products, variants, stocks, died, synced>>
    BY <1>1, DepartmentTypes DEF ghosts
  <2>2. Elsewhere /\ ProductFits'
    BY <2>1 DEF Elsewhere, ProductFits, Continues, Writing
  <2>3. PageFits' /\ RecordFits'
    BY <2>1, PageContinues DEF Handling
  <2>4. Bought' /\ TakenOverStays'
    BY <2>1, BoughtQuiet, StaysQuiet DEF Writing
  <2> QED BY <2>1, <2>2, <2>3, <2>4, TreeGrows, CacheElsewhere
<1>2. CASE UpsertCategory
  <2>1. /\ TypeOK' /\ Continues("product") /\ run.at = "category"
        /\ DOMAIN categories' = DOMAIN categories \union {run.listing.category}
        /\ UNCHANGED <<zoho, products, variants, stocks, died, synced>>
    BY <1>2, CategoryTypes DEF ghosts
  <2>2. Elsewhere /\ ProductFits'
    BY <2>1 DEF Elsewhere, ProductFits, Continues, Writing
  <2>3. PageFits' /\ RecordFits'
    BY <2>1, PageContinues DEF Handling
  <2>4. Bought' /\ TakenOverStays'
    BY <2>1, BoughtQuiet, StaysQuiet DEF Writing
  <2> QED BY <2>1, <2>2, <2>3, <2>4, TreeGrows, CacheElsewhere
<1> QED BY <1>1, <1>2

LEMMA ProductPreserves ==
  ASSUME ImportIInv, SaveProduct
  PROVE  ImportIInv'
<1> USE DEF ImportIInv
<1>1. PICK at \in {"variant", "clear"} :
        /\ TypeOK' /\ Continues(at) /\ run.at = "product"
        /\ UNCHANGED <<zoho, categories, synced>>
  BY ProductTypes DEF ghosts
<1>2. Elsewhere
  BY <1>1 DEF Elsewhere, Continues
<1>3. PageFits' /\ RecordFits'
  BY <1>1, PageContinues DEF Handling, Writing
<1> QED
  BY <1>1, <1>2, <1>3, FitsProduct, TreeSame, CacheElsewhere, BoughtProduct, StaysProduct

\* The statements on the product.
LEMMA WorksPreserves ==
  ASSUME ImportIInv, ClearValue \/ SetValue \/ SaveVariant \/ AddCollection \/ DropCollections
                 \/ AddStock \/ AddImage
  PROVE  ImportIInv'
<1> USE DEF ImportIInv
<1>1. Works
  BY StepWorks
<1>2. /\ TypeOK' /\ categories' = categories
      /\ \E at \in Writing : Continues(at)
  <2> USE DEF Written, Writing
  <2>1. CASE ClearValue
    BY <2>1, ClearTypes
  <2>2. CASE SetValue
    BY <2>2, ValueTypes
  <2>3. CASE SaveVariant
    BY <2>3, VariantTypes
  <2>4. CASE AddCollection
    BY <2>4, CollectTypes
  <2>5. CASE DropCollections
    BY <2>5, DropTypes
  <2>6. CASE AddStock
    BY <2>6, StockTypes
  <2>7. CASE AddImage
    BY <2>7, ImageTypes
  <2> QED BY <2>1, <2>2, <2>3, <2>4, <2>5, <2>6, <2>7
<1>3. PageFits' /\ RecordFits'
  BY <1>1, <1>2, PageContinues DEF Works, Writing
<1>4. ProductFits'
  BY FitsClear, FitsValue, FitsVariant, FitsCollect, FitsDrop, FitsStock, FitsImage
<1>5. Elsewhere
  BY <1>1 DEF Elsewhere, Works, Writing
<1> QED BY <1>1, <1>2, <1>3, <1>4, <1>5, TreeSame, CacheElsewhere, BoughtWorks, StaysWorks

LEMMA LeavePreserves ==
  ASSUME ImportIInv, DropImages
  PROVE  ImportIInv'
<1> USE DEF ImportIInv
<1>1. TypeOK' /\ run' \in OnPage /\ categories' = categories
  BY LeaveTypes DEF Written
<1>2. Elsewhere
  BY <1>1 DEF Elsewhere, OnPage
<1> QED BY <1>1, <1>2, PageLeft, TreeSame, CacheElsewhere, BoughtLeft, StaysLeft

LEMMA DisablePreserves ==
  ASSUME ImportIInv, DisableProducts
  PROVE  ImportIInv'
<1> USE DEF ImportIInv
<1>1. TypeOK' /\ run'.at \in {"fetch", "tree"} /\ categories' = categories
  BY DisableTypes
<1>2. OffPage /\ Elsewhere
  BY <1>1 DEF OffPage, Elsewhere
<1> QED BY <1>1, <1>2, OffPageFits, TreeSame, CacheElsewhere, BoughtDisable, StaysDisable

LEMMA NumberPreserves ==
  ASSUME ImportIInv, NumberRoot \/ NumberChild
  PROVE  ImportIInv'
<1> USE DEF ImportIInv
<1>1. /\ TypeOK' /\ run.at = "number" /\ run'.at = "number"
      /\ UNCHANGED <<zoho, products, variants, stocks, died, synced>>
  BY RootTypes, ChildTypes DEF Remains, OnTree, ghosts
<1>2. OffPage /\ CacheFits'
  BY <1>1 DEF OffPage, CacheFits
<1>3. Bought' /\ TakenOverStays'
  BY <1>1, BoughtQuiet, StaysQuiet DEF Writing
<1> QED BY <1>1, <1>2, <1>3, OffPageFits, TreeRoot, TreeChild

LEMMA BustPreserves ==
  ASSUME ImportIInv, ListKeys \/ DeleteKeys
  PROVE  ImportIInv'
<1> USE DEF ImportIInv
<1>1. /\ TypeOK' /\ run.at \in {"number", "bust"} /\ run'.at \in {"bust", "idle"}
      /\ UNCHANGED <<zoho, products, variants, stocks, died, synced>>
  <2>1. CASE ListKeys
    BY <2>1, ListTypes DEF AtKeys, shop
  <2>2. CASE DeleteKeys
    BY <2>2, DeleteTypes DEF Idle, shop
  <2> QED BY <2>1, <2>2
<1>2. OffPage
  BY <1>1 DEF OffPage
<1>3. Bought' /\ TakenOverStays'
  BY <1>1, BoughtQuiet, StaysQuiet DEF Writing
<1> QED BY <1>1, <1>2, <1>3, OffPageFits, TreeList, TreeDelete, CacheList, CacheDelete

LEMMA DiePreserves ==
  ASSUME ImportIInv, Die
  PROVE  ImportIInv'
<1> USE DEF ImportIInv
<1>1. TypeOK' /\ run' = Idle /\ stopped' = TRUE /\ categories' = categories
  BY DieTypes DEF shop
<1>2. OffPage /\ Elsewhere
  BY <1>1 DEF OffPage, Elsewhere, Idle
<1> QED BY <1>1, <1>2, OffPageFits, TreeSame, CacheElsewhere, BoughtDie, StaysDie

LEMMA OutsidePreserves ==
  ASSUME ImportIInv, Outside
  PROVE  ImportIInv'
BY OutsideTypes, PageOutside, TreeOutside, CacheOutside, BoughtOutside, StaysOutside DEF ImportIInv

LEMMA NothingHappens ==
  ASSUME ImportIInv, UNCHANGED vars
  PROVE  ImportIInv'
<1>1. TypeOK'
  BY DEF ImportIInv, TypeOK, vars, shop, ghosts
<1>2. PageFits' /\ RecordFits' /\ ProductFits'
  BY DEF ImportIInv, PageFits, RecordFits, ProductFits, Only, InHand, vars, shop, ghosts
<1>3. TreeFits'
  BY TreeSteady DEF ImportIInv, vars, shop, ghosts
<1>4. CacheFits' /\ Bought'
  BY DEF ImportIInv, CacheFits, Bought, InProduct, vars, shop, ghosts
<1>5. TakenOverStays'
  BY DEF ImportIInv, TakenOverStays, Mirrored, Shared, InProduct, vars, shop, ghosts
<1> QED BY <1>1, <1>2, <1>3, <1>4, <1>5 DEF ImportIInv

LEMMA NextPreserves == ImportIInv /\ [Next]_vars => ImportIInv'
<1> SUFFICES ASSUME ImportIInv, [Next]_vars PROVE ImportIInv'
  OBVIOUS
<1>1. CASE Step
  BY <1>1, QuietPreserves, CategoryPreserves, ProductPreserves, WorksPreserves, LeavePreserves,
     DisablePreserves, NumberPreserves, BustPreserves DEF Step
<1>2. CASE Die
  BY <1>2, DiePreserves
<1>3. CASE Outside
  BY <1>3, OutsidePreserves
<1>4. CASE UNCHANGED vars
  BY <1>4, NothingHappens
<1> QED BY <1>1, <1>2, <1>3, <1>4 DEF Next, Outside

LEMMA Invariance == Spec => []ImportIInv
BY InitIInv, NextPreserves, PTL DEF Spec

\* A record taken over stays so until it is edited or a run is inside its
\* product, for all records there may be, any number of pages and any number of
\* edits, failed images and deaths (TakenOverStays).
THEOREM TakenOverIsKept == Spec => []TakenOverStays
<1>1. ImportIInv => TakenOverStays
  BY DEF ImportIInv
<1> QED BY Invariance, <1>1, PTL

\* A product nothing can be bought from is the one in hand or needs a run that
\* died, and no row refers to one that does not exist (NothingToBuyNeedsStop).
THEOREM OnSaleCanBeBought == Spec => []NothingToBuyNeedsStop
<1>1. ImportIInv => NothingToBuyNeedsStop
  BY DEF ImportIInv, Bought, NothingToBuyNeedsStop
<1> QED BY Invariance, <1>1, PTL

\* The intervals fix_category_hierarchy writes nest as the parents say, for any
\* two-level hierarchy and any order of the rows, once a run has reached its
\* end (TreeFollowsParents).
THEOREM TreeIsNumbered == Spec => []TreeFollowsParents
<1>1. ImportIInv => TreeFollowsParents
  BY DEF ImportIInv, TreeFits, Nested, TreeFollowsParents
<1> QED BY Invariance, <1>1, PTL

\* An outdated answer outlives a run that reached its end only when it was being
\* computed while the keys were listed (OutdatedNeedsRace).
THEOREM StaleNeedsRace == Spec => []OutdatedNeedsRace
<1>1. ImportIInv => OutdatedNeedsRace
  BY DEF ImportIInv, CacheFits, OutdatedNeedsRace
<1> QED BY Invariance, <1>1, PTL

-----------------------------------------------------------------------------
(***************************************************************************)
(* The queue of sync jobs.                                                 *)
(***************************************************************************)
USE QueueAssumption DEF QueueAssumption

\* A process that will still run job j: it has yet to start its command, or it
\* has started it and not run it.
Owes(r, j) ==
  \/ runner[r].at # "idle" /\ j \in runner[r].todo
  \/ runner[r].at = "started" /\ j \in runner[r].ids

Owing(j) == {r \in Runners : Owes(r, j)}

Busy(r) == runner[r].at \in {"started", "running"}

\* What a process holds: jobs there are, of one command, none of which it will
\* start again, and all of which have been started.
HandsOf(r) ==
  /\ runner[r].at # "idle" => runner[r].todo \subseteq Ids
  /\ Busy(r) =>
       /\ runner[r].ids # {}
       /\ runner[r].ids \subseteq Ids
       /\ runner[r].ids \cap runner[r].todo = {}
       /\ \A j \in runner[r].ids :
            /\ jobs[j].started
            /\ jobs[j].command = CommandOf(r)
            /\ runner[r].at = "running" => jobs[j].runs > 0

Hands == \A r \in Runners : HandsOf(r)

\* A job nobody started has not run; one that was started is never fetched
\* again, so its runs and those still owed are of different processes.
Runs ==
  \A j \in Ids :
    /\ ~ jobs[j].started => jobs[j].runs = 0 /\ ~ jobs[j].completed
    /\ jobs[j].runs + Cardinality(Owing(j)) <= Cardinality(Runners)

QueueIInv == QueueTypeOK /\ Hands /\ Runs /\ CompletedMeansRan /\ AbandonedOnlyByCrash

-----------------------------------------------------------------------------
(* Typing.                                                                 *)

\* What no step takes back of a job.
Later(old, new) ==
  /\ new \in JobRow
  /\ new.command = old.command
  /\ old.started => new.started
  /\ old.completed => new.completed
  /\ old.runs <= new.runs

LEMMA JobFields ==
  ASSUME NEW job \in JobRow
  PROVE  /\ Later(job, job)
         /\ Later(job, Started(job))
         /\ Later(job, Executed(job))
         /\ Later(job, Failed(job))
         /\ Later(job, Succeeded(job))
BY DEF Later, JobRow, Job, Started, Executed, Failed, Succeeded

\* And what they are for.
LEMMA JobChanges ==
  ASSUME NEW job \in JobRow
  PROVE  /\ Started(job).started
         /\ Started(job).runs = job.runs
         /\ Executed(job).runs = job.runs + 1
         /\ job.started => Executed(job).started
BY DEF JobRow, Job, Started, Executed

\* What a row of runner holds, by where the process is.
LEMMA RunnerFields ==
  ASSUME NEW p \in RunnerState
  PROVE  /\ p.at \in {"idle", "next", "started", "running"}
         /\ p.at # "idle" => p.todo \in SUBSET (1 .. MaxJobs)
         /\ p.at \in {"started", "running"} => p.ids \in SUBSET (1 .. MaxJobs)
BY DEF RunnerState

\* An UPDATE changes the rows it names and no others.
LEMMA UpdateJobs ==
  ASSUME QueueTypeOK, NEW rows, Update(rows),
         \A j \in Ids : j \in DOMAIN rows => rows[j] \in JobRow
  PROVE  /\ jobs' \in Seq(JobRow)
         /\ Ids' = Ids
         /\ Len(jobs') = Len(jobs)
         /\ \A j \in Ids : jobs'[j] = IF j \in DOMAIN rows THEN rows[j] ELSE jobs[j]
<1>1. jobs \in Seq(JobRow) /\ Ids = 1 .. Len(jobs) /\ Len(jobs) \in Nat
  BY DEF QueueTypeOK, Ids
<1>2. \A j \in Ids : jobs[j] \in JobRow
  BY <1>1
<1>3. jobs' \in [1 .. Len(jobs) -> JobRow]
  BY <1>1, <1>2 DEF Update
<1>4. jobs' \in Seq(JobRow) /\ Len(jobs') = Len(jobs)
  BY <1>1, <1>3
<1> QED BY <1>1, <1>3, <1>4 DEF Update, Ids

Grown == \A j \in Ids : j \in Ids' /\ Later(jobs[j], jobs'[j])

LEMMA TypeStep ==
  ASSUME QueueIInv, [QueueNext]_queueVars
  PROVE  QueueTypeOK' /\ Grown
<1> USE DEF QueueIInv
<1>0. /\ jobs \in Seq(JobRow) /\ Len(jobs) \in Nat /\ Ids = 1 .. Len(jobs)
      /\ \A j \in Ids : jobs[j] \in JobRow
      /\ \A r \in Runners : runner[r] \in RunnerState
  BY DEF QueueTypeOK, Ids
<1>1. ASSUME NEW command \in Commands, Enqueue(command)
      PROVE  QueueTypeOK' /\ Grown
  <2>1. Job(command, 0, FALSE, FALSE, 0) \in JobRow
    BY DEF Job, JobRow
  <2>2. /\ jobs' \in Seq(JobRow) /\ Len(jobs') = Len(jobs) + 1
        /\ \A j \in Ids : j \in Ids' /\ jobs'[j] = jobs[j]
    <3>1. PICK job \in JobRow : jobs' = Append(jobs, job)
      BY <1>1, <2>1 DEF Enqueue
    <3>2. jobs' \in Seq(JobRow) /\ Len(jobs') = Len(jobs) + 1
      BY <1>0, <3>1
    <3>3. Ids' = 1 .. Len(jobs) + 1
      BY <3>2 DEF Ids
    <3>4. \A j \in Ids : jobs'[j] = jobs[j]
      BY <1>0, <3>1
    <3> QED BY <1>0, <3>2, <3>3, <3>4
  <2>3. Len(jobs') <= MaxJobs
    BY <1>0, <1>1, <2>2 DEF Enqueue
  <2>4. QueueTypeOK'
    BY <1>1, <2>2, <2>3 DEF QueueTypeOK, Enqueue
  <2> QED BY <1>0, <2>2, <2>4, JobFields DEF Grown
<1>2. ASSUME NEW r \in Runners, NEW p \in RunnerState,
             runner' = [runner EXCEPT ![r] = p], UNCHANGED jobs, crashes' \in 0 .. MaxCrashes
      PROVE  QueueTypeOK' /\ Grown
  BY <1>0, <1>2, JobFields DEF QueueTypeOK, Grown, Ids
<1>3. ASSUME NEW r \in Runners, NEW p \in RunnerState, NEW rows,
             Update(rows), runner' = [runner EXCEPT ![r] = p], UNCHANGED crashes,
             \A j \in Ids : j \in DOMAIN rows => Later(jobs[j], rows[j])
      PROVE  QueueTypeOK' /\ Grown
  <2>1. /\ jobs' \in Seq(JobRow) /\ Ids' = Ids /\ Len(jobs') = Len(jobs)
        /\ \A j \in Ids : jobs'[j] = IF j \in DOMAIN rows THEN rows[j] ELSE jobs[j]
    BY <1>3, UpdateJobs DEF Later
  <2>2. QueueTypeOK'
    BY <1>3, <2>1 DEF QueueTypeOK
  <2>3. Grown
    BY <1>0, <1>3, <2>1, JobFields DEF Grown
  <2> QED BY <2>2, <2>3
<1>4. ASSUME NEW r \in Runners, Fetch(r) PROVE QueueTypeOK' /\ Grown
  <2>1. Pending \subseteq 1 .. MaxJobs
    BY <1>0 DEF Pending, QueueTypeOK
  <2>2. [at |-> "next", todo |-> Pending] \in RunnerState
    BY <2>1 DEF RunnerState
  <2> QED BY <1>2, <1>4, <2>2 DEF Fetch, QueueTypeOK
<1>5. ASSUME NEW r \in Runners, StartCommand(r) PROVE QueueTypeOK' /\ Grown
  <2>1. PICK first \in runner[r].todo :
          LET ids == {j \in runner[r].todo : jobs[j].command = jobs[first].command}
          IN  /\ Update([j \in ids |-> Started(jobs[j])])
              /\ runner' = [runner EXCEPT ![r] =
                              [at |-> "started", ids |-> ids, todo |-> runner[r].todo \ ids]]
    BY <1>5 DEF StartCommand
  <2> DEFINE ids == {j \in runner[r].todo : jobs[j].command = jobs[first].command}
             rows == [j \in ids |-> Started(jobs[j])]
             p == [at |-> "started", ids |-> ids, todo |-> runner[r].todo \ ids]
  <2>2. p \in RunnerState
    <3>1. runner[r].at # "idle"
      BY <1>5 DEF StartCommand
    <3>2. runner[r].todo \subseteq 1 .. MaxJobs
      BY <1>0, <3>1, RunnerFields
    <3>3. ids \subseteq 1 .. MaxJobs /\ runner[r].todo \ ids \subseteq 1 .. MaxJobs
      BY <3>2
    <3> HIDE DEF ids
    <3> QED BY <3>3 DEF RunnerState
  <2>3. \A j \in Ids : j \in DOMAIN rows => Later(jobs[j], rows[j])
    BY <1>0, JobFields
  <2>4. Update(rows) /\ runner' = [runner EXCEPT ![r] = p] /\ UNCHANGED crashes
    BY <1>5, <2>1 DEF StartCommand
  <2> HIDE DEF rows, p
  <2> QED BY <1>3, <2>2, <2>3, <2>4
<1>6. ASSUME NEW r \in Runners, Run(r) PROVE QueueTypeOK' /\ Grown
  <2> DEFINE rows == [j \in runner[r].ids |-> Executed(jobs[j])]
             p == [at |-> "running", ids |-> runner[r].ids, todo |-> runner[r].todo]
  <2>1. p \in RunnerState
    BY <1>0, <1>6, RunnerFields DEF Run, RunnerState
  <2>2. \A j \in Ids : j \in DOMAIN rows => Later(jobs[j], rows[j])
    BY <1>0, JobFields
  <2>3. Update(rows) /\ runner' = [runner EXCEPT ![r] = p] /\ UNCHANGED crashes
    BY <1>6 DEF Run
  <2> HIDE DEF rows, p
  <2> QED BY <1>3, <2>1, <2>2, <2>3
<1>7. ASSUME NEW r \in Runners, Reject(r) \/ Fail(r) \/ Succeed(r) PROVE QueueTypeOK' /\ Grown
  <2> DEFINE p == [at |-> "next", todo |-> runner[r].todo]
  <2>1. p \in RunnerState
    BY <1>0, <1>7, RunnerFields DEF Reject, Fail, Succeed, RunnerState
  <2>2. PICK rows : /\ rows \in {[j \in Held(r) |-> Failed(jobs[j])],
                                 [j \in Held(r) |-> Succeeded(jobs[j])]}
                    /\ Update(rows) /\ runner' = [runner EXCEPT ![r] = p] /\ UNCHANGED crashes
    BY <1>7 DEF Reject, Fail, Succeed, Ends
  <2>3. \A j \in Ids : j \in DOMAIN rows => Later(jobs[j], rows[j])
    BY <1>0, <2>2, JobFields
  <2> HIDE DEF p
  <2> QED BY <1>3, <2>1, <2>2, <2>3
<1>8. ASSUME NEW r \in Runners, Exit(r) \/ Crash(r) PROVE QueueTypeOK' /\ Grown
  <2>1. [at |-> "idle"] \in RunnerState
    BY DEF RunnerState
  <2>2. crashes' \in 0 .. MaxCrashes
    BY <1>8 DEF Exit, Crash, QueueTypeOK
  <2> QED BY <1>2, <1>8, <2>1, <2>2 DEF Exit, Crash
<1>9. CASE UNCHANGED queueVars
  BY <1>0, <1>9, JobFields DEF queueVars, QueueTypeOK, Grown, Ids
<1> QED
  BY <1>1, <1>4, <1>5, <1>6, <1>7, <1>8, <1>9 DEF QueueNext, Proceed

-----------------------------------------------------------------------------
(* What a step of one process does to the rows and to the process.         *)

\* The three kinds of UPDATE, with what they leave in the rows.
LEMMA RowsOfStart ==
  ASSUME QueueIInv, NEW r \in Runners, StartCommand(r)
  PROVE  \E ids \in SUBSET runner[r].todo :
           /\ ids # {} /\ ids \subseteq Ids
           /\ \A i, j \in ids : jobs[i].command = jobs[j].command
           /\ Ids' = Ids
           /\ \A j \in Ids : jobs'[j] = IF j \in ids THEN Started(jobs[j]) ELSE jobs[j]
           /\ runner' = [runner EXCEPT ![r] =
                           [at |-> "started", ids |-> ids, todo |-> runner[r].todo \ ids]]
<1>1. PICK first \in runner[r].todo :
        LET ids == {j \in runner[r].todo : jobs[j].command = jobs[first].command}
        IN  /\ Update([j \in ids |-> Started(jobs[j])])
            /\ runner' = [runner EXCEPT ![r] =
                            [at |-> "started", ids |-> ids, todo |-> runner[r].todo \ ids]]
  BY DEF StartCommand
<1> DEFINE ids == {j \in runner[r].todo : jobs[j].command = jobs[first].command}
           rows == [j \in ids |-> Started(jobs[j])]
<1>2. Update(rows) /\ DOMAIN rows = ids /\ \A j \in ids : rows[j] = Started(jobs[j])
  BY <1>1
<1>3. \A j \in Ids : jobs[j] \in JobRow
  BY DEF QueueIInv, QueueTypeOK, Ids
<1>4. \A j \in Ids : j \in DOMAIN rows => rows[j] \in JobRow
  BY <1>2, <1>3, JobFields DEF Later
<1>5. ids \subseteq Ids
  BY DEF QueueIInv, Hands, HandsOf, StartCommand
<1>6. ids # {} /\ \A i, j \in ids : jobs[i].command = jobs[j].command
  OBVIOUS
<1> HIDE DEF rows
<1>7. /\ Ids' = Ids
      /\ \A j \in Ids : jobs'[j] = IF j \in ids THEN rows[j] ELSE jobs[j]
  BY <1>2, <1>4, UpdateJobs DEF QueueIInv
<1>8. \A j \in Ids : jobs'[j] = IF j \in ids THEN Started(jobs[j]) ELSE jobs[j]
  BY <1>2, <1>7
<1>9. ids \in SUBSET runner[r].todo
  OBVIOUS
<1>10. runner' = [runner EXCEPT ![r] =
                    [at |-> "started", ids |-> ids, todo |-> runner[r].todo \ ids]]
  BY <1>1
<1> HIDE DEF ids
<1> QED BY <1>5, <1>6, <1>7, <1>8, <1>9, <1>10

LEMMA RowsOfRun ==
  ASSUME QueueIInv, NEW r \in Runners, Run(r)
  PROVE  /\ Ids' = Ids
         /\ \A j \in Ids : jobs'[j] = IF j \in runner[r].ids THEN Executed(jobs[j]) ELSE jobs[j]
<1> DEFINE rows == [j \in runner[r].ids |-> Executed(jobs[j])]
<1>1. \A j \in Ids : j \in DOMAIN rows => rows[j] \in JobRow
  BY JobFields DEF QueueIInv, QueueTypeOK, Ids, Later
<1>2. Update(rows) /\ DOMAIN rows = runner[r].ids
  BY DEF Run
<1>3. \A j \in runner[r].ids : rows[j] = Executed(jobs[j])
  OBVIOUS
<1> HIDE DEF rows
<1> QED BY <1>1, <1>2, <1>3, UpdateJobs DEF QueueIInv

LEMMA RowsOfEnd ==
  ASSUME QueueIInv, NEW r \in Runners, Reject(r) \/ Succeed(r) \/ Fail(r)
  PROVE  /\ Ids' = Ids
         /\ \A j \in Ids :
              IF j \in runner[r].ids
                THEN jobs'[j] = Failed(jobs[j]) \/ jobs'[j] = Succeeded(jobs[j])
                ELSE jobs'[j] = jobs[j]
<1>1. PICK rows : /\ rows \in {[j \in Held(r) |-> Failed(jobs[j])],
                               [j \in Held(r) |-> Succeeded(jobs[j])]}
                  /\ Update(rows)
  BY DEF Reject, Fail, Succeed, Ends
<1>2. \A j \in Ids : j \in DOMAIN rows => rows[j] \in JobRow
  BY <1>1, JobFields DEF QueueIInv, QueueTypeOK, Ids, Later
<1>3. /\ DOMAIN rows = runner[r].ids
      /\ \A j \in runner[r].ids : rows[j] = Failed(jobs[j]) \/ rows[j] = Succeeded(jobs[j])
  BY <1>1 DEF Held
<1>4. /\ Ids' = Ids
      /\ \A j \in Ids : jobs'[j] = IF j \in DOMAIN rows THEN rows[j] ELSE jobs[j]
  BY <1>1, <1>2, UpdateJobs DEF QueueIInv
<1> QED BY <1>3, <1>4

-----------------------------------------------------------------------------
(* The parts of the invariant.                                             *)

\* The types and fields the proofs below look at.
LEMMA Typed ==
  ASSUME QueueIInv
  PROVE  /\ \A j \in Ids : jobs[j] \in JobRow
         /\ \A r \in Runners : runner[r] \in RunnerState
         /\ runner \in [Runners -> RunnerState]
         /\ crashes \in Nat
BY DEF QueueIInv, QueueTypeOK, Ids

\* A step of a process moves that process only, and is no crash but by Crash.
LEMMA OneMoves ==
  ASSUME NEW r \in Runners, Proceed(r) \/ Crash(r)
  PROVE  /\ \E p : runner' = [runner EXCEPT ![r] = p]
         /\ crashes' = crashes \/ Crash(r)
<1>1. CASE Fetch(r)
  BY <1>1 DEF Fetch
<1>2. CASE StartCommand(r)
  BY <1>2 DEF StartCommand
<1>3. CASE Run(r)
  BY <1>3 DEF Run
<1>4. CASE Reject(r) \/ Succeed(r) \/ Fail(r)
  BY <1>4 DEF Reject, Succeed, Fail, Ends
<1>5. CASE Exit(r) \/ Crash(r)
  BY <1>5 DEF Exit, Crash
<1> QED BY <1>1, <1>2, <1>3, <1>4, <1>5 DEF Proceed

\* A new job is one nobody has started.
LEMMA JobsAfterEnqueue ==
  ASSUME QueueIInv, NEW command \in Commands, Enqueue(command), NEW j \in Ids'
  PROVE  \/ j \in Ids /\ jobs'[j] = jobs[j]
         \/ j \notin Ids /\ jobs'[j] = Job(command, 0, FALSE, FALSE, 0)
<1>1. PICK job \in JobRow : job = Job(command, 0, FALSE, FALSE, 0) /\ jobs' = Append(jobs, job)
  <2>1. Job(command, 0, FALSE, FALSE, 0) \in JobRow
    BY DEF Job, JobRow
  <2> QED BY <2>1 DEF Enqueue
<1>2. jobs \in Seq(JobRow)
  BY DEF QueueIInv, QueueTypeOK
<1>3. /\ Ids = 1 .. Len(jobs) /\ Ids' = 1 .. Len(jobs) + 1 /\ Len(jobs) \in Nat
      /\ \A i \in 1 .. Len(jobs) : jobs'[i] = jobs[i]
      /\ jobs'[Len(jobs) + 1] = job
  <2>1. jobs' = Append(jobs, job) /\ job \in JobRow
    BY <1>1
  <2> QED BY <1>2, <2>1 DEF Ids
<1> DEFINE n == Len(jobs)
<1>4. j \in 1 .. n \/ (j = n + 1 /\ j \notin 1 .. n)
  BY <1>3
<1>5. CASE j \in 1 .. n
  BY <1>3, <1>5
<1>6. CASE j = n + 1 /\ j \notin 1 .. n
  <2>1. jobs'[j] = job /\ j \notin Ids
    BY <1>3, <1>6
  <2> QED BY <1>1, <2>1
<1> QED BY <1>4, <1>5, <1>6

\* What a process holds stays as it is while others take steps.
LEMMA HandsOfOthers ==
  ASSUME QueueIInv, Grown, NEW q \in Runners, runner'[q] = runner[q]
  PROVE  HandsOf(q)'
<1>1. HandsOf(q)
  BY DEF QueueIInv, Hands
<1>2. \A j \in Ids : /\ j \in Ids' /\ jobs'[j].command = jobs[j].command
                     /\ jobs[j].started => jobs'[j].started
                     /\ jobs[j].runs > 0 => jobs'[j].runs > 0
  BY Typed DEF Grown, Later, JobRow
<1>3. ASSUME Busy(q)
      PROVE  (CommandOf(q))' = CommandOf(q)
  <2>1. (CHOOSE j \in runner[q].ids : TRUE) \in runner[q].ids
    BY <1>1, <1>3 DEF HandsOf
  <2>2. (CHOOSE j \in runner[q].ids : TRUE) \in Ids
    BY <1>1, <1>3, <2>1 DEF HandsOf
  <2> QED BY <1>2, <2>2 DEF CommandOf
<1> QED BY <1>1, <1>2, <1>3 DEF HandsOf, Busy

LEMMA HandsStep ==
  ASSUME QueueIInv, Grown, [QueueNext]_queueVars
  PROVE  Hands'
<1> SUFFICES ASSUME NEW q \in Runners PROVE HandsOf(q)'
  BY DEF Hands
<1>0. \A r \in Runners : \A p : runner' = [runner EXCEPT ![r] = p] =>
        /\ runner'[r] = p
        /\ q # r => runner'[q] = runner[q]
  BY Typed
<1>1. CASE runner'[q] = runner[q]
  BY <1>1, HandsOfOthers
<1>2. CASE Fetch(q)
  <2>1. runner'[q] = [at |-> "next", todo |-> Pending] /\ Ids' = Ids
    BY <1>0, <1>2 DEF Fetch, Ids
  <2>2. Pending \subseteq Ids
    BY DEF Pending
  <2> QED BY <2>1, <2>2 DEF HandsOf, Busy
<1>3. CASE StartCommand(q)
  <2>1. PICK ids \in SUBSET runner[q].todo :
           /\ ids # {} /\ ids \subseteq Ids
           /\ \A i, j \in ids : jobs[i].command = jobs[j].command
           /\ Ids' = Ids
           /\ \A j \in Ids : jobs'[j] = IF j \in ids THEN Started(jobs[j]) ELSE jobs[j]
           /\ runner' = [runner EXCEPT ![q] =
                           [at |-> "started", ids |-> ids, todo |-> runner[q].todo \ ids]]
    BY <1>3, RowsOfStart
  <2>2. runner'[q] = [at |-> "started", ids |-> ids, todo |-> runner[q].todo \ ids]
    BY <1>0, <2>1
  <2>3. \A j \in ids : jobs'[j].started /\ jobs'[j].command = jobs[j].command
    <3>1. \A j \in ids : jobs'[j] = Started(jobs[j])
      BY <2>1
    <3>2. \A j \in ids : jobs[j] \in JobRow
      BY <2>1, Typed
    <3>3. \A j \in ids : Started(jobs[j]).started
      BY <3>2, JobChanges
    <3>4. \A j \in ids : Started(jobs[j]).command = jobs[j].command
      BY <3>2, JobFields DEF Later
    <3> QED BY <3>1, <3>3, <3>4
  <2>4. (CHOOSE j \in ids : TRUE) \in ids
    BY <2>1
  <2>5. \A j \in ids : jobs'[j].command = (CommandOf(q))'
    BY <2>1, <2>2, <2>3, <2>4 DEF CommandOf
  <2>6. runner[q].todo \subseteq Ids
    BY <1>3 DEF QueueIInv, Hands, HandsOf, StartCommand
  <2> QED BY <2>1, <2>2, <2>3, <2>5, <2>6 DEF HandsOf, Busy
<1>4. CASE Run(q)
  <2>1. HandsOf(q) /\ Busy(q)
    BY <1>4 DEF QueueIInv, Hands, Run, Busy
  <2>2. runner'[q] = [at |-> "running", ids |-> runner[q].ids, todo |-> runner[q].todo]
    BY <1>0, <1>4 DEF Run
  <2>3. /\ Ids' = Ids
        /\ \A j \in runner[q].ids : jobs'[j] = Executed(jobs[j])
    BY <1>4, <2>1, RowsOfRun DEF HandsOf
  <2>4. \A j \in runner[q].ids :
          /\ jobs'[j].started /\ jobs'[j].command = jobs[j].command
          /\ jobs'[j].runs > 0
    <3>1. \A j \in runner[q].ids : jobs[j].started /\ jobs[j] \in JobRow
      BY <2>1, Typed DEF HandsOf
    <3>2. \A j \in runner[q].ids : jobs[j].runs \in Nat
      BY <3>1 DEF JobRow
    <3> SUFFICES ASSUME NEW j \in runner[q].ids
                 PROVE  /\ jobs'[j].started /\ jobs'[j].command = jobs[j].command
                        /\ jobs'[j].runs > 0
      OBVIOUS
    <3>3. Executed(jobs[j]).started /\ Executed(jobs[j]).runs = jobs[j].runs + 1
      BY <3>1, JobChanges
    <3>4. Executed(jobs[j]).command = jobs[j].command
      BY <3>1, JobFields DEF Later
    <3>5. jobs[j].runs + 1 > 0
      BY <3>2
    <3>6. jobs'[j] = Executed(jobs[j])
      BY <2>3
    <3> QED BY <3>3, <3>4, <3>5, <3>6
  <2>5. (CHOOSE j \in runner[q].ids : TRUE) \in runner[q].ids
    BY <2>1 DEF HandsOf
  <2>6. (CommandOf(q))' = CommandOf(q)
    BY <2>2, <2>4, <2>5 DEF CommandOf
  <2> QED BY <2>1, <2>2, <2>3, <2>4, <2>6 DEF HandsOf, Busy
<1>5. CASE Reject(q) \/ Succeed(q) \/ Fail(q)
  <2>1. runner'[q] = [at |-> "next", todo |-> runner[q].todo]
    BY <1>0, <1>5 DEF Reject, Succeed, Fail, Ends
  <2>2. Ids' = Ids
    BY <1>5, RowsOfEnd
  <2>3. runner[q].todo \subseteq Ids
    BY <1>5 DEF QueueIInv, Hands, HandsOf, Reject, Succeed, Fail
  <2> QED BY <2>1, <2>2, <2>3 DEF HandsOf, Busy
<1>6. CASE Exit(q) \/ Crash(q)
  <2>1. runner'[q] = [at |-> "idle"]
    BY <1>0, <1>6 DEF Exit, Crash
  <2> QED BY <2>1 DEF HandsOf, Busy
<1>7. \/ runner'[q] = runner[q]
      \/ Proceed(q) \/ Crash(q)
  BY <1>0, OneMoves DEF QueueNext, queueVars, Enqueue
<1> QED BY <1>1, <1>2, <1>3, <1>4, <1>5, <1>6, <1>7 DEF Proceed

LEMMA CompletedStep ==
  ASSUME QueueIInv, Grown, [QueueNext]_queueVars
  PROVE  CompletedMeansRan'
<1> DEFINE P(job) == job.completed => job.runs > 0 \/ job.command \notin Known
<1> SUFFICES ASSUME NEW j \in Ids' PROVE P(jobs'[j])
  BY DEF CompletedMeansRan
<1>0. /\ \A i \in Ids : P(jobs[i]) /\ jobs[i] \in JobRow
      /\ \A r \in Runners : HandsOf(r)
  BY Typed DEF QueueIInv, CompletedMeansRan, Hands
<1>1. ASSUME NEW command \in Commands, Enqueue(command) PROVE P(jobs'[j])
  <2>1. ~ Job(command, 0, FALSE, FALSE, 0).completed
    BY DEF Job
  <2> QED BY <1>0, <1>1, <2>1, JobsAfterEnqueue
<1>2. ASSUME NEW r \in Runners, StartCommand(r) PROVE P(jobs'[j])
  <2>1. j \in Ids /\ jobs'[j] \in {Started(jobs[j]), jobs[j]}
    BY <1>2, RowsOfStart
  <2> QED BY <1>0, <2>1 DEF Started, Job
<1>3. ASSUME NEW r \in Runners, Run(r) PROVE P(jobs'[j])
  <2>1. j \in Ids /\ jobs'[j] \in {Executed(jobs[j]), jobs[j]}
    BY <1>3, RowsOfRun
  <2> QED BY <1>0, <2>1 DEF Executed, Job, JobRow
<1>4. ASSUME NEW r \in Runners, Reject(r) \/ Succeed(r) \/ Fail(r) PROVE P(jobs'[j])
  <2>1. /\ j \in Ids
        /\ \/ jobs'[j] = jobs[j]
           \/ j \in runner[r].ids /\ jobs'[j] \in {Failed(jobs[j]), Succeeded(jobs[j])}
    BY <1>4, RowsOfEnd
  <2>2. ASSUME j \in runner[r].ids PROVE jobs[j].runs > 0 \/ jobs[j].command \notin Known
    BY <1>0, <1>4, <2>2 DEF HandsOf, Busy, Reject, Succeed, Fail
  <2> QED BY <1>0, <2>1, <2>2 DEF Failed, Succeeded, Job
<1>5. CASE UNCHANGED jobs
  BY <1>0, <1>5 DEF Ids
<1> QED BY <1>1, <1>2, <1>3, <1>4, <1>5 DEF QueueNext, queueVars, Proceed, Fetch, Exit, Crash

LEMMA AbandonedStep ==
  ASSUME QueueIInv, Grown, [QueueNext]_queueVars
  PROVE  AbandonedOnlyByCrash'
<1>0. \A r \in Runners : \A p : runner' = [runner EXCEPT ![r] = p] =>
        /\ runner'[r] = p
        /\ \A q \in Runners : q # r => runner'[q] = runner[q]
  BY Typed
<1> SUFFICES ASSUME NEW j \in Ids', crashes' = 0, jobs'[j].started, ~ jobs'[j].completed
             PROVE  \E r \in Runners : runner'[r].at \in {"started", "running"} /\ j \in runner'[r].ids
  <2>1. crashes' \in Nat
    BY TypeStep DEF QueueTypeOK
  <2> QED BY <2>1 DEF AbandonedOnlyByCrash, Abandoned, InHands
<1>1. crashes = 0 /\ ~ \E r \in Runners : Crash(r)
  <2>1. \A r \in Runners : ~ Crash(r)
    BY Typed DEF Crash
  <2> QED BY <2>1, OneMoves DEF QueueNext, queueVars, Enqueue
<1>2. ASSUME j \in Ids, jobs[j].started
      PROVE  /\ ~ jobs[j].completed
             /\ \E r \in Runners : runner[r].at \in {"started", "running"} /\ j \in runner[r].ids
  <2>1. ~ jobs[j].completed
    BY <1>2 DEF Grown, Later
  <2> QED BY <1>1, <1>2, <2>1 DEF QueueIInv, AbandonedOnlyByCrash, Abandoned, InHands
<1>3. ASSUME NEW command \in Commands, Enqueue(command)
      PROVE  \E r \in Runners : runner'[r].at \in {"started", "running"} /\ j \in runner'[r].ids
  <2>1. ~ Job(command, 0, FALSE, FALSE, 0).started
    BY DEF Job
  <2>2. j \in Ids /\ jobs'[j] = jobs[j]
    BY <1>3, <2>1, JobsAfterEnqueue
  <2> QED BY <1>2, <1>3, <2>2 DEF Enqueue
<1>4. ASSUME NEW r \in Runners, StartCommand(r)
      PROVE  \E q \in Runners : runner'[q].at \in {"started", "running"} /\ j \in runner'[q].ids
  <2>1. PICK ids \in SUBSET runner[r].todo :
           /\ Ids' = Ids
           /\ \A i \in Ids : jobs'[i] = IF i \in ids THEN Started(jobs[i]) ELSE jobs[i]
           /\ runner' = [runner EXCEPT ![r] =
                           [at |-> "started", ids |-> ids, todo |-> runner[r].todo \ ids]]
    BY <1>4, RowsOfStart
  <2>2. runner[r].at = "next"
    BY <1>4 DEF StartCommand
  <2>3. CASE j \in ids
    <3>1. runner'[r] = [at |-> "started", ids |-> ids, todo |-> runner[r].todo \ ids]
      BY <1>0, <2>1
    <3> QED BY <2>3, <3>1
  <2>4. CASE j \notin ids
    BY <1>0, <1>2, <2>1, <2>2, <2>4
  <2> QED BY <2>3, <2>4
<1>5. ASSUME NEW r \in Runners, Run(r)
      PROVE  \E q \in Runners : runner'[q].at \in {"started", "running"} /\ j \in runner'[q].ids
  <2>1. runner'[r] = [at |-> "running", ids |-> runner[r].ids, todo |-> runner[r].todo]
    BY <1>0, <1>5 DEF Run
  <2>2. j \in Ids /\ jobs'[j] \in {Executed(jobs[j]), jobs[j]}
    BY <1>5, RowsOfRun
  <2>3. jobs[j].started
    BY <2>2 DEF Executed, Job
  <2>4. PICK q \in Runners : runner[q].at \in {"started", "running"} /\ j \in runner[q].ids
    BY <1>2, <2>2, <2>3
  <2> QED BY <1>0, <1>5, <2>1, <2>4 DEF Run
<1>6. ASSUME NEW r \in Runners, Reject(r) \/ Succeed(r) \/ Fail(r)
      PROVE  \E q \in Runners : runner'[q].at \in {"started", "running"} /\ j \in runner'[q].ids
  <2>1. /\ j \in Ids
        /\ IF j \in runner[r].ids
             THEN jobs'[j] = Failed(jobs[j]) \/ jobs'[j] = Succeeded(jobs[j])
             ELSE jobs'[j] = jobs[j]
    BY <1>6, RowsOfEnd
  <2>2. j \notin runner[r].ids
    BY <2>1 DEF Failed, Succeeded, Job
  <2>3. PICK q \in Runners : runner[q].at \in {"started", "running"} /\ j \in runner[q].ids
    BY <1>2, <2>1, <2>2
  <2>4. runner'[q] = runner[q]
    BY <1>0, <1>6, <2>2, <2>3 DEF Reject, Succeed, Fail, Ends
  <2> QED BY <2>3, <2>4
<1>7. ASSUME NEW r \in Runners, Fetch(r) \/ Exit(r)
      PROVE  \E q \in Runners : runner'[q].at \in {"started", "running"} /\ j \in runner'[q].ids
  <2>1. PICK q \in Runners : runner[q].at \in {"started", "running"} /\ j \in runner[q].ids
    BY <1>2, <1>7 DEF Fetch, Exit, Ids
  <2>2. runner'[q] = runner[q]
    BY <1>0, <1>7, <2>1 DEF Fetch, Exit
  <2> QED BY <2>1, <2>2
<1>8. CASE UNCHANGED queueVars
  BY <1>2, <1>8 DEF queueVars, Ids
<1> QED BY <1>1, <1>3, <1>4, <1>5, <1>6, <1>7, <1>8 DEF QueueNext, Proceed

\* A job that was not started before its step has not been run by it either.
LEMMA FreshStep ==
  ASSUME QueueIInv, [QueueNext]_queueVars, NEW j \in Ids', ~ jobs'[j].started
  PROVE  jobs'[j].runs = 0 /\ ~ jobs'[j].completed
<1>0. /\ \A i \in Ids : ~ jobs[i].started => jobs[i].runs = 0 /\ ~ jobs[i].completed
      /\ \A i \in Ids : jobs[i] \in JobRow
      /\ \A r \in Runners : HandsOf(r)
  BY Typed DEF QueueIInv, Runs, Hands
<1>1. ASSUME NEW command \in Commands, Enqueue(command)
      PROVE  jobs'[j].runs = 0 /\ ~ jobs'[j].completed
  <2>1. Job(command, 0, FALSE, FALSE, 0).runs = 0 /\ ~ Job(command, 0, FALSE, FALSE, 0).completed
    BY DEF Job
  <2> QED BY <1>0, <1>1, <2>1, JobsAfterEnqueue
<1>2. ASSUME NEW r \in Runners, StartCommand(r)
      PROVE  jobs'[j].runs = 0 /\ ~ jobs'[j].completed
  <2>1. j \in Ids /\ jobs'[j] \in {Started(jobs[j]), jobs[j]}
    BY <1>2, RowsOfStart
  <2>2. Started(jobs[j]).started
    BY <1>0, <2>1, JobChanges
  <2> QED BY <1>0, <2>1, <2>2
<1>3. ASSUME NEW r \in Runners, Run(r) \/ Reject(r) \/ Succeed(r) \/ Fail(r)
      PROVE  jobs'[j].runs = 0 /\ ~ jobs'[j].completed
  <2>1. /\ j \in Ids
        /\ IF j \in runner[r].ids
             THEN jobs'[j] \in {Executed(jobs[j]), Failed(jobs[j]), Succeeded(jobs[j])}
             ELSE jobs'[j] = jobs[j]
    BY <1>3, RowsOfRun, RowsOfEnd
  <2>2. Busy(r)
    BY <1>3 DEF Busy, Run, Reject, Succeed, Fail
  <2>3. ASSUME j \in runner[r].ids PROVE FALSE
    <3>1. jobs[j].started
      BY <1>0, <2>2, <2>3 DEF HandsOf
    <3>2. /\ Executed(jobs[j]).started /\ Failed(jobs[j]).started /\ Succeeded(jobs[j]).started
      BY <1>0, <2>1, <3>1, JobFields DEF Later
    <3> QED BY <2>1, <2>3, <3>2
  <2> QED BY <1>0, <2>1, <2>3
<1>4. CASE UNCHANGED jobs
  BY <1>0, <1>4 DEF Ids
<1> QED BY <1>1, <1>2, <1>3, <1>4 DEF QueueNext, queueVars, Proceed, Fetch, Exit, Crash

\* Nobody comes to owe a job but by finding it unstarted, and who runs it owes it
\* no longer.
LEMMA OwingStep ==
  ASSUME QueueIInv, [QueueNext]_queueVars, NEW j \in Ids
  PROVE  /\ j \in Ids'
         /\ \/ jobs'[j].runs = jobs[j].runs /\ Owing(j)' \subseteq Owing(j)
            \/ jobs'[j].runs = 0
            \/ \E r \in Owing(j) : /\ jobs'[j].runs = jobs[j].runs + 1
                                   /\ Owing(j)' \subseteq Owing(j) \ {r}
<1>0. /\ jobs[j] \in JobRow
      /\ \A r \in Runners : HandsOf(r)
      /\ \A r \in Runners : \A p : runner' = [runner EXCEPT ![r] = p] =>
           /\ runner'[r] = p
           /\ \A q \in Runners : q # r => runner'[q] = runner[q]
  BY Typed DEF QueueIInv, Hands
<1>1. j \in Ids'
  BY TypeStep DEF Grown
<1>2. ASSUME NEW r \in Runners, \A q \in Runners : q # r => runner'[q] = runner[q],
             Owes(r, j)' => Owes(r, j)
      PROVE  Owing(j)' \subseteq Owing(j)
  BY <1>2 DEF Owing, Owes
<1>3. CASE UNCHANGED runner
  <2>1. Owing(j)' = Owing(j)
    BY <1>3 DEF Owing, Owes
  <2>2. jobs'[j] = jobs[j]
    <3>1. \A r \in Runners : ~ Proceed(r) /\ ~ Crash(r)
      <4> SUFFICES ASSUME NEW r \in Runners, Proceed(r) \/ Crash(r) PROVE FALSE
        OBVIOUS
      <4>1. runner'[r].at # runner[r].at
        <5>1. CASE Fetch(r)
          <6>1. runner[r].at = "idle"
            BY <5>1 DEF Fetch
          <6>2. runner'[r] = [at |-> "next", todo |-> Pending]
            BY <1>0, <5>1 DEF Fetch
          <6> QED BY <6>1, <6>2
        <5>2. CASE StartCommand(r)
          <6>1. runner[r].at = "next"
            BY <5>2 DEF StartCommand
          <6>2. PICK ids \in SUBSET runner[r].todo :
                   runner' = [runner EXCEPT ![r] =
                                [at |-> "started", ids |-> ids, todo |-> runner[r].todo \ ids]]
            BY <5>2, RowsOfStart
          <6>3. runner'[r] = [at |-> "started", ids |-> ids, todo |-> runner[r].todo \ ids]
            BY <1>0, <6>2
          <6> QED BY <6>1, <6>3
        <5>3. CASE Run(r)
          <6>1. runner[r].at = "started"
            BY <5>3 DEF Run
          <6>2. runner'[r] = [at |-> "running", ids |-> runner[r].ids, todo |-> runner[r].todo]
            BY <1>0, <5>3 DEF Run
          <6> QED BY <6>1, <6>2
        <5>4. CASE Reject(r) \/ Succeed(r) \/ Fail(r)
          <6>1. runner[r].at # "next"
            BY <5>4 DEF Reject, Succeed, Fail
          <6>2. runner'[r] = [at |-> "next", todo |-> runner[r].todo]
            BY <1>0, <5>4 DEF Reject, Succeed, Fail, Ends
          <6>3. runner'[r].at = "next"
            BY <6>2
          <6> QED BY <6>1, <6>3
        <5>5. CASE Exit(r) \/ Crash(r)
          <6>1. runner[r].at # "idle"
            BY <5>5 DEF Exit, Crash
          <6>2. runner'[r] = [at |-> "idle"]
            BY <1>0, <5>5 DEF Exit, Crash
          <6> QED BY <6>1, <6>2
        <5> QED BY <5>1, <5>2, <5>3, <5>4, <5>5 DEF Proceed
      <4> QED BY <1>3, <4>1
    <3> QED BY <3>1, JobsAfterEnqueue, <1>1 DEF QueueNext, queueVars
  <2> QED BY <1>1, <2>1, <2>2
<1>4. ASSUME NEW r \in Runners, Fetch(r)
      PROVE  \/ jobs'[j].runs = jobs[j].runs /\ Owing(j)' \subseteq Owing(j)
             \/ jobs'[j].runs = 0
  <2>1. runner'[r] = [at |-> "next", todo |-> Pending] /\ jobs' = jobs
    BY <1>0, <1>4 DEF Fetch
  <2>2. CASE j \in Pending
    BY <2>1, <2>2 DEF Pending, QueueIInv, Runs
  <2>3. CASE j \notin Pending
    <3>1. ~ Owes(r, j)'
      BY <2>1, <2>3 DEF Owes
    <3> QED BY <1>0, <1>2, <1>4, <2>1, <3>1 DEF Fetch
  <2> QED BY <2>2, <2>3
<1>5. ASSUME NEW r \in Runners, StartCommand(r)
      PROVE  jobs'[j].runs = jobs[j].runs /\ Owing(j)' \subseteq Owing(j)
  <2>1. PICK ids \in SUBSET runner[r].todo :
           /\ \A i \in Ids : jobs'[i] = IF i \in ids THEN Started(jobs[i]) ELSE jobs[i]
           /\ runner' = [runner EXCEPT ![r] =
                           [at |-> "started", ids |-> ids, todo |-> runner[r].todo \ ids]]
    BY <1>5, RowsOfStart
  <2>2. runner'[r] = [at |-> "started", ids |-> ids, todo |-> runner[r].todo \ ids]
    <3> DEFINE p == [at |-> "started", ids |-> ids, todo |-> runner[r].todo \ ids]
    <3>1. runner' = [runner EXCEPT ![r] = p]
      BY <2>1
    <3> HIDE DEF p
    <3>2. runner'[r] = p
      BY <1>0, <3>1
    <3> QED BY <3>2 DEF p
  <2>3. Owes(r, j)' => Owes(r, j)
    BY <1>5, <2>2 DEF Owes, StartCommand
  <2>4. jobs'[j] \in {Started(jobs[j]), jobs[j]}
    BY <2>1
  <2>5. Started(jobs[j]).runs = jobs[j].runs
    BY <1>0, JobChanges
  <2> QED BY <1>0, <1>2, <2>1, <2>3, <2>4, <2>5
<1>6. ASSUME NEW r \in Runners, Run(r)
      PROVE  \/ jobs'[j].runs = jobs[j].runs /\ Owing(j)' \subseteq Owing(j)
             \/ \E q \in Owing(j) : /\ jobs'[j].runs = jobs[j].runs + 1
                                    /\ Owing(j)' \subseteq Owing(j) \ {q}
  <2>1. runner'[r] = [at |-> "running", ids |-> runner[r].ids, todo |-> runner[r].todo]
    BY <1>0, <1>6 DEF Run
  <2>2. runner[r].at = "started" /\ HandsOf(r)
    BY <1>0, <1>6 DEF Run
  <2>3. Owes(r, j)' => Owes(r, j)
    BY <2>1, <2>2 DEF Owes
  <2>4. Owing(j)' \subseteq Owing(j)
    BY <1>0, <1>2, <1>6, <2>3 DEF Run
  <2>5. CASE j \in runner[r].ids
    <3>1. r \in Owing(j)
      BY <2>2, <2>5 DEF Owing, Owes
    <3>2. ~ Owes(r, j)'
      BY <2>1, <2>2, <2>5 DEF Owes, HandsOf, Busy
    <3>3. r \notin Owing(j)'
      BY <3>2 DEF Owing
    <3>4. jobs'[j] = Executed(jobs[j])
      BY <1>6, <2>5, RowsOfRun
    <3>5. jobs'[j].runs = jobs[j].runs + 1
      BY <1>0, <3>4, JobChanges
    <3> QED BY <2>4, <3>1, <3>3, <3>5
  <2>6. CASE j \notin runner[r].ids
    <3>1. jobs'[j] = jobs[j]
      BY <1>6, <2>6, RowsOfRun
    <3> QED BY <2>4, <3>1
  <2> QED BY <2>5, <2>6
<1>7. ASSUME NEW r \in Runners, Reject(r) \/ Succeed(r) \/ Fail(r)
      PROVE  jobs'[j].runs = jobs[j].runs /\ Owing(j)' \subseteq Owing(j)
  <2>1. runner'[r] = [at |-> "next", todo |-> runner[r].todo]
    BY <1>0, <1>7 DEF Reject, Succeed, Fail, Ends
  <2>2. Owes(r, j)' => Owes(r, j)
    BY <1>7, <2>1 DEF Owes, Reject, Succeed, Fail
  <2>3. Owing(j)' \subseteq Owing(j)
    BY <1>0, <1>2, <1>7, <2>2 DEF Reject, Succeed, Fail, Ends
  <2>4. jobs'[j] \in {jobs[j], Failed(jobs[j]), Succeeded(jobs[j])}
    BY <1>7, RowsOfEnd
  <2>5. Failed(jobs[j]).runs = jobs[j].runs /\ Succeeded(jobs[j]).runs = jobs[j].runs
    BY DEF Failed, Succeeded, Job
  <2> QED BY <2>3, <2>4, <2>5
<1>8. ASSUME NEW r \in Runners, Exit(r) \/ Crash(r)
      PROVE  jobs'[j].runs = jobs[j].runs /\ Owing(j)' \subseteq Owing(j)
  <2>1. runner'[r] = [at |-> "idle"] /\ jobs' = jobs
    BY <1>0, <1>8 DEF Exit, Crash
  <2>2. ~ Owes(r, j)'
    BY <2>1 DEF Owes
  <2> QED BY <1>0, <1>2, <1>8, <2>1, <2>2 DEF Exit, Crash
<1>9. UNCHANGED runner \/ \E r \in Runners : Proceed(r) \/ Crash(r)
  BY DEF QueueNext, queueVars, Enqueue
<1> QED BY <1>1, <1>3, <1>4, <1>5, <1>6, <1>7, <1>8, <1>9 DEF Proceed

LEMMA RunsStep ==
  ASSUME QueueIInv, [QueueNext]_queueVars
  PROVE  Runs'
<1> SUFFICES ASSUME NEW j \in Ids'
             PROVE  jobs'[j].runs + Cardinality(Owing(j)') <= Cardinality(Runners)
  BY FreshStep DEF Runs
<1>1. /\ Owing(j)' \subseteq Runners
      /\ Owing(j) \subseteq Runners
  BY DEF Owing
<1>2. /\ Cardinality(Runners) \in Nat
      /\ IsFiniteSet(Owing(j)') /\ Cardinality(Owing(j)') \in Nat
      /\ Cardinality(Owing(j)') <= Cardinality(Runners)
      /\ IsFiniteSet(Owing(j)) /\ Cardinality(Owing(j)) \in Nat
  BY <1>1, FS_Subset, FS_CardinalityType
<1>3. CASE j \notin Ids
  <2>1. PICK command \in Commands : Enqueue(command)
    <3>1. \A r \in Runners : Proceed(r) \/ Crash(r) => Ids' = Ids
      BY RowsOfStart, RowsOfRun, RowsOfEnd DEF Proceed, Fetch, Exit, Crash, Ids
    <3> QED BY <1>3, <3>1 DEF QueueNext, queueVars, Ids
  <2>2. Job(command, 0, FALSE, FALSE, 0).runs = 0
    BY DEF Job
  <2>3. jobs'[j].runs = 0
    BY <1>3, <2>1, <2>2, JobsAfterEnqueue
  <2> QED BY <1>2, <2>3
<1>4. CASE j \in Ids
  <2>1. /\ jobs[j].runs \in Nat
        /\ jobs[j].runs + Cardinality(Owing(j)) <= Cardinality(Runners)
    BY <1>4, Typed DEF QueueIInv, Runs, JobRow
  <2>2. CASE jobs'[j].runs = jobs[j].runs /\ Owing(j)' \subseteq Owing(j)
    <3>1. Cardinality(Owing(j)') <= Cardinality(Owing(j))
      BY <1>2, <2>2, FS_Subset
    <3> QED BY <1>2, <2>1, <2>2, <3>1
  <2>3. CASE jobs'[j].runs = 0
    BY <1>2, <2>3
  <2>4. ASSUME NEW r \in Owing(j), jobs'[j].runs = jobs[j].runs + 1,
               Owing(j)' \subseteq Owing(j) \ {r}
        PROVE  jobs'[j].runs + Cardinality(Owing(j)') <= Cardinality(Runners)
    <3>1. /\ IsFiniteSet(Owing(j) \ {r})
          /\ Cardinality(Owing(j) \ {r}) = Cardinality(Owing(j)) - 1
      BY <1>2, FS_RemoveElement
    <3>2. Cardinality(Owing(j)') <= Cardinality(Owing(j) \ {r})
      BY <2>4, <3>1, FS_Subset
    <3> QED BY <1>2, <2>1, <2>4, <3>1, <3>2
  <2> QED BY <1>4, <2>2, <2>3, <2>4, OwingStep
<1> QED BY <1>3, <1>4

-----------------------------------------------------------------------------
(* The theorems.                                                           *)

LEMMA Initially == QueueInit => QueueIInv
<1> SUFFICES ASSUME QueueInit PROVE QueueIInv
  OBVIOUS
<1>1. Ids = {} /\ jobs \in Seq(JobRow) /\ Len(jobs) = 0
  BY DEF QueueInit, Ids
<1>2. [at |-> "idle"] \in RunnerState
  BY DEF RunnerState
<1>3. QueueTypeOK
  BY <1>1, <1>2 DEF QueueInit, QueueTypeOK
<1>4. Hands
  BY DEF QueueInit, Hands, HandsOf, Busy
<1> QED BY <1>1, <1>3, <1>4 DEF QueueIInv, Runs, CompletedMeansRan, AbandonedOnlyByCrash

THEOREM Inductive == QueueSpec => []QueueIInv
<1>1. QueueIInv /\ [QueueNext]_queueVars => QueueIInv'
  <2> SUFFICES ASSUME QueueIInv, [QueueNext]_queueVars PROVE QueueIInv'
    OBVIOUS
  <2>1. QueueTypeOK' /\ Grown
    BY TypeStep
  <2> QED BY <2>1, HandsStep, RunsStep, CompletedStep, AbandonedStep DEF QueueIInv
<1> QED BY <1>1, Initially, PTL DEF QueueSpec

\* The rows of the queue and what each run-queue.py process holds are what their
\* types say.
THEOREM QueueTypes == QueueSpec => []QueueTypeOK
<1>1. QueueIInv => QueueTypeOK
  BY DEF QueueIInv
<1> QED BY <1>1, Inductive, PTL

\* A job's command is run at most once for each process that can be up, so never
\* twice when the scheduler starts only one: run-queue.py marks the rows as
\* started before it runs anything, and a process that died leaves them marked.
THEOREM RunsAreBounded == QueueSpec => []RunsOncePerProcess
<1>1. QueueIInv => RunsOncePerProcess
  <2> SUFFICES ASSUME QueueIInv, NEW j \in Ids PROVE jobs[j].runs <= Cardinality(Runners)
    BY DEF RunsOncePerProcess
  <2>1. IsFiniteSet(Owing(j)) /\ Owing(j) \subseteq Runners
    BY FS_Subset DEF Owing
  <2>2. Cardinality(Owing(j)) \in Nat /\ Cardinality(Runners) \in Nat
    BY <2>1, FS_CardinalityType
  <2> QED BY <2>2, Typed DEF QueueIInv, Runs, JobRow
<1> QED BY <1>1, Inductive, PTL

\* completed_at is only ever written after a run of the job's command that began
\* when the job was there, or when get_command knows no such command.
THEOREM CompletedRan == QueueSpec => []CompletedMeansRan
<1>1. QueueIInv => CompletedMeansRan
  BY DEF QueueIInv
<1> QED BY <1>1, Inductive, PTL

\* As long as no process died, every started job is completed or in the hands of
\* a process that will complete it.
THEOREM NothingAbandoned == QueueSpec => []AbandonedOnlyByCrash
<1>1. QueueIInv => AbandonedOnlyByCrash
  BY DEF QueueIInv
<1> QED BY <1>1, Inductive, PTL
=============================================================================
