------------------------------- MODULE ZohoSync -------------------------------
(***************************************************************************)
(* The catalogue import, scripts/planet-caravan/zoho-sync.py: the products *)
(* a scheduler's run finds changed in Zoho's CRM are written to the shop's *)
(* tables one SQL statement at a time with autocommit, then the category   *)
(* tree is renumbered and the cached answers of graphql/views.py are       *)
(* deleted.  A run can end after any statement, an image can fail to come, *)
(* Zoho changes while a run is up, and the storefront keeps asking.        *)
(***************************************************************************)
EXTENDS Naturals, FiniteSets, Functions

CONSTANTS Skus, Slugs, Categories, Values, Collections, Images,
          None,         \* an empty field
          Listings,     \* what the record of each SKU may say
          PerPage,      \* records in a response
          MaxIncidents  \* edits, expired windows, requests, deaths and failed
                        \* images, together

Listing == [web : BOOLEAN, slug : Slugs, department : Categories \union {None},
            category : Categories \union {None}, value : Values \union {None},
            collections : SUBSET Collections, images : SUBSET Images]

ASSUME ZohoAssumption ==
  /\ None \notin Categories \union Values
  /\ Listings \in [Skus -> SUBSET Listing]
  /\ PerPage \in Nat \ {0}
  /\ MaxIncidents \in Nat

Records == {f \in [Skus -> UNION Range(Listings)] : \A sku \in Skus : f[sku] \in Listings[sku]}

VARIABLES
  zoho,        \* the records by SKU
  recent,      \* those If-Modified-Since still lets through
  products,    \* product_product by slug, with what hangs on the row
  variants,    \* product_productvariant: the product of each SKU
  stocks,      \* the SKUs with a warehouse_stock row
  categories,  \* product_category by slug
  cache,       \* the answer kept under one query's key, if any
  query,       \* the answer a request is about to keep
  run,         \* the process
  incidents,
  died,        \* has a run ever been killed?
  stopped,     \* did the last run to end not reach its end?
  raced,       \* was an outdated answer under way when the keys were listed?
  synced       \* the records a run has taken over since they last changed

shop   == <<products, variants, stocks, categories>>
ghosts == <<died, stopped, raced, synced>>
vars   == <<zoho, recent, shop, cache, query, run, incidents, ghosts>>

Answers == {"none", "fresh", "stale"}

Idle == [at |-> "idle"]

\* The statements on a record before it has a product, and on the product.
Handling == {"department", "category", "product"}
Writing  == {"clear", "value", "variant", "collect", "stock", "images"}

Pages == UNION {[skus -> UNION Range(Listings)] : skus \in SUBSET Skus}

Between  == [at : {"fetch", "tree"}, seen : SUBSET Skus]
OnPage   == [at : {"page"}, seen : SUBSET Skus, more : BOOLEAN, todo : Pages, off : SUBSET Skus]
OnRecord == [at : Handling \union Writing, seen : SUBSET Skus, more : BOOLEAN, todo : Pages,
             off : SUBSET Skus, sku : Skus, listing : UNION Range(Listings),
             slug : Slugs \union {None}, left : SUBSET (Collections \union Images),
             lost : BOOLEAN]
OnTree   == [at : {"number"}, roots : SUBSET Categories, children : SUBSET Categories,
             tid : Nat, left : Nat]
AtKeys   == [at : {"bust"}, keys : BOOLEAN]

Process == {Idle} \union Between \union OnPage \union OnRecord \union OnTree \union AtKeys

ProductRow == [published : BOOLEAN, category : Categories,
               values : [Categories -> Values \union {None}],
               collections : SUBSET Collections, images : SUBSET Images]

TypeOK ==
  /\ zoho \in Records
  /\ recent \subseteq Skus
  /\ DOMAIN products \subseteq Slugs
  /\ \A slug \in DOMAIN products : products[slug] \in ProductRow
  /\ variants \in [DOMAIN variants -> DOMAIN products]
  /\ DOMAIN variants \subseteq Skus
  /\ stocks \subseteq DOMAIN variants
  /\ DOMAIN categories \subseteq Categories
  /\ \A c \in DOMAIN categories :
       categories[c] \in [parent : DOMAIN categories \union {None},
                          lft : Nat, rght : Nat, tree : Nat]
  /\ {cache, query} \subseteq Answers
  /\ run \in Process
  /\ run.at \in Handling \union Writing => run.listing \in Listings[run.sku]
  /\ run.at \in Writing => run.slug \in DOMAIN products
  /\ incidents \in 0 .. MaxIncidents
  /\ died \in BOOLEAN /\ stopped \in BOOLEAN /\ raced \in BOOLEAN
  /\ synced \subseteq Skus

Init ==
  /\ zoho \in Records
  /\ recent = Skus
  /\ products = <<>> /\ variants = <<>> /\ stocks = {} /\ categories = <<>>
  /\ cache = "none" /\ query = "none"
  /\ run = Idle
  /\ incidents = 0
  /\ died = FALSE /\ stopped = FALSE /\ raced = FALSE /\ synced = {}

\* The bound on what happens to a run from outside.
Incident ==
  /\ incidents < MaxIncidents
  /\ incidents' = incidents + 1

(***************************************************************************)
(* The storefront's requests.                                              *)
(***************************************************************************)
Outdated(answer) == IF answer = "none" THEN "none" ELSE "stale"

\* What the storefront shows changes: answers computed before are outdated.
Write(newProducts, newCategories) ==
  /\ products' = newProducts
  /\ categories' = newCategories
  /\ IF newProducts = products /\ newCategories = categories
     THEN UNCHANGED <<cache, query>>
     ELSE cache' = Outdated(cache) /\ query' = Outdated(query)

\* get_response on a miss, or with cache_bust: it starts to read the tables.
Ask ==
  /\ query = "none"
  /\ Incident
  /\ query' = "fresh"
  /\ UNCHANGED <<zoho, recent, shop, cache, run, ghosts>>

\* cache.set, for QUERY_CACHE_TIME.
Keep ==
  /\ query # "none"
  /\ cache' = query
  /\ query' = "none"
  /\ UNCHANGED <<zoho, recent, shop, run, incidents, ghosts>>

\* QUERY_CACHE_TIME is over, or somebody opens /bust-cache.
Expire ==
  /\ cache # "none"
  /\ cache' = "none"
  /\ UNCHANGED <<zoho, recent, shop, query, run, incidents, ghosts>>

(***************************************************************************)
(* Zoho.                                                                   *)
(***************************************************************************)
Edit(sku) ==
  /\ Incident
  /\ \E listing \in Listings[sku] \ {zoho[sku]} : zoho' = [zoho EXCEPT ![sku] = listing]
  /\ recent' = recent \union {sku}
  /\ synced' = synced \ {sku}
  /\ UNCHANGED <<shop, cache, query, run, died, stopped, raced>>

\* 48 hours have passed.
Forget(sku) ==
  /\ sku \in recent
  /\ Incident
  /\ recent' = recent \ {sku}
  /\ UNCHANGED <<zoho, shop, cache, query, run, ghosts>>

(***************************************************************************)
(* do_import: the pages.                                                   *)
(***************************************************************************)
StartRun ==
  /\ run.at = "idle"
  /\ run' = [at |-> "fetch", seen |-> {}]
  /\ UNCHANGED <<zoho, recent, shop, cache, query, incidents, ghosts>>

\* Bug: the last page is taken to be the first one.
NoMore(left) == FALSE

MoreRecords(left) == left # {}

FetchPage ==
  /\ run.at = "fetch"
  /\ LET left == recent \ run.seen
     IN  \E page \in SUBSET left :
           /\ page = left \/ Cardinality(page) = PerPage
           /\ Cardinality(page) <= PerPage
           /\ run' = [at   |-> "page",
                      seen |-> run.seen \union page,
                      more |-> MoreRecords(left \ page),
                      todo |-> Restrict(zoho, {s \in page : zoho[s].web}),
                      off  |-> {s \in page : ~ zoho[s].web}]
  /\ UNCHANGED <<zoho, recent, shop, cache, query, incidents, ghosts>>

\* The run's state when it is at another statement.
At(place) == [run EXCEPT !.at = place]

InProduct(slug) == run.at \in Writing /\ run.slug = slug

\* The rows the run is in the middle of belong to nobody's record now.
Broken == {s \in DOMAIN variants : InProduct(variants[s])}

Stop ==
  /\ run' = Idle
  /\ stopped' = TRUE
  /\ synced' = synced \ Broken

\* handle_raw_product up to its first statement.  handleize(None) raises before
\* the record without a category can be reported, and ends the run.
PickProduct(sku) ==
  /\ run.at = "page"
  /\ sku \in DOMAIN run.todo
  /\ LET listing == run.todo[sku]
         rest    == Restrict(run.todo, DOMAIN run.todo \ {sku})
     IN  \/ /\ listing.category = None
            /\ Stop
         \/ /\ listing.category # None /\ listing.department = None
            /\ run' = [run EXCEPT !.todo = rest]
            /\ UNCHANGED <<stopped, synced>>
         \/ /\ listing.category # None /\ listing.department # None
            /\ run' = [at |-> "department", seen |-> run.seen, more |-> run.more,
                       todo |-> rest, off |-> run.off, sku |-> sku, listing |-> listing,
                       slug |-> None, left |-> {}, lost |-> FALSE]
            /\ UNCHANGED <<stopped, synced>>
  /\ UNCHANGED <<zoho, recent, shop, cache, query, incidents, died, raced>>

(***************************************************************************)
(* create_or_update_data.                                                  *)
(***************************************************************************)
\* A table with one row written.
With(table, key, row) ==
  [k \in DOMAIN table \union {key} |-> IF k = key THEN row ELSE table[k]]

\* INSERT .. ON CONFLICT (slug) DO UPDATE SET name: the row keeps its parent.
Upserted(slug, parent) ==
  IF slug \in DOMAIN categories THEN categories
  ELSE With(categories, slug, [parent |-> parent, lft |-> 0, rght |-> 0, tree |-> 0])

UpsertDepartment ==
  /\ run.at = "department"
  /\ Write(products, Upserted(run.listing.department, None))
  /\ run' = At("category")
  /\ UNCHANGED <<zoho, recent, variants, stocks, incidents, ghosts>>

UpsertCategory ==
  /\ run.at = "category"
  /\ Write(products, Upserted(run.listing.category, run.listing.department))
  /\ run' = At("product")
  /\ UNCHANGED <<zoho, recent, variants, stocks, incidents, ghosts>>

\* Bug: the product is looked for by its slug only.
SlugByName(sku) == run.listing.slug

\* Matched by SKU; a new one by ON CONFLICT (slug).
SlugFor(sku) == IF sku \in DOMAIN variants THEN variants[sku] ELSE run.listing.slug

Fresh == [values |-> [c \in Categories |-> None], collections |-> {}, images |-> {}]

SaveProduct ==
  /\ run.at = "product"
  /\ LET slug == SlugFor(run.sku)
         old  == IF slug \in DOMAIN products THEN products[slug] ELSE Fresh
         new  == [published   |-> TRUE,
                  category    |-> run.listing.category,
                  values      |-> old.values,
                  collections |-> old.collections,
                  images      |-> old.images]
     IN  /\ Write(With(products, slug, new), categories)
         /\ run' = [At(IF run.listing.value = None THEN "variant" ELSE "clear")
                      EXCEPT !.slug = slug]
  /\ UNCHANGED <<zoho, recent, variants, stocks, incidents, ghosts>>

\* One statement on the product in hand.
Change(product) == Write([products EXCEPT ![run.slug] = product], categories)

InHand == products[run.slug]

ClearValue ==
  /\ run.at = "clear"
  /\ Change([InHand EXCEPT !.values[run.listing.category] = None])
  /\ run' = At("value")
  /\ UNCHANGED <<zoho, recent, variants, stocks, incidents, ghosts>>

SetValue ==
  /\ run.at = "value"
  /\ Change([InHand EXCEPT !.values[run.listing.category] = run.listing.value])
  /\ run' = At("variant")
  /\ UNCHANGED <<zoho, recent, variants, stocks, incidents, ghosts>>

\* ON CONFLICT (sku): the variant stays with its product.
SaveVariant ==
  /\ run.at = "variant"
  /\ variants' = IF run.sku \in DOMAIN variants THEN variants
                 ELSE With(variants, run.sku, run.slug)
  /\ run' = [At("collect") EXCEPT !.left = run.listing.collections]
  /\ UNCHANGED <<zoho, recent, products, stocks, categories, cache, query, incidents, ghosts>>

AddCollection ==
  /\ run.at = "collect"
  /\ \E c \in run.left :
       /\ Change([InHand EXCEPT !.collections = @ \union {c}])
       /\ run' = [run EXCEPT !.left = @ \ {c}]
  /\ UNCHANGED <<zoho, recent, variants, stocks, incidents, ghosts>>

DropCollections ==
  /\ run.at = "collect"
  /\ run.left = {}
  /\ Change([InHand EXCEPT !.collections = @ \intersect run.listing.collections])
  /\ run' = At("stock")
  /\ UNCHANGED <<zoho, recent, variants, stocks, incidents, ghosts>>

\* ON CONFLICT DO NOTHING: the quantity is ShopKeep's.
AddStock ==
  /\ run.at = "stock"
  /\ stocks' = stocks \union {run.sku}
  /\ run' = [At("images") EXCEPT !.left = run.listing.images]
  /\ UNCHANGED <<zoho, recent, products, variants, categories, cache, query, incidents, ghosts>>

(***************************************************************************)
(* handle_images: whatever fails is swallowed, image by image.             *)
(***************************************************************************)
Swallow ==
  /\ Incident
  /\ UNCHANGED <<products, categories, cache, query>>

AddImage ==
  /\ run.at = "images"
  /\ \E i \in run.left :
       \/ /\ Change([InHand EXCEPT !.images = @ \union {i}])
          /\ run' = [run EXCEPT !.left = @ \ {i}]
          /\ UNCHANGED incidents
       \/ /\ Swallow
          /\ run' = [run EXCEPT !.left = @ \ {i}, !.lost = TRUE]
  /\ UNCHANGED <<zoho, recent, variants, stocks, ghosts>>

BackToPage == [at |-> "page", seen |-> run.seen, more |-> run.more,
               todo |-> run.todo, off |-> run.off]

\* Bug: files not in the record are left on the product.
AllImages(product) == product.images

UsedImages(product) == product.images \intersect run.listing.images

\* The record is taken over if it is still the one that was read.
DropImages ==
  /\ run.at = "images"
  /\ run.left = {}
  /\ \/ /\ Change([InHand EXCEPT !.images = UsedImages(InHand)])
        /\ synced' = IF run.lost \/ zoho[run.sku] # run.listing
                     THEN synced ELSE synced \union {run.sku}
        /\ UNCHANGED incidents
     \/ /\ Swallow
        /\ UNCHANGED synced
  /\ run' = BackToPage
  /\ UNCHANGED <<zoho, recent, variants, stocks, died, stopped, raced>>

(***************************************************************************)
(* disable_products, after the products of each page.                      *)
(***************************************************************************)
Disabled(off) == {variants[s] : s \in off \intersect DOMAIN variants}

DisableProducts ==
  /\ run.at = "page"
  /\ DOMAIN run.todo = {}
  /\ Write([slug \in DOMAIN products |->
              IF slug \in Disabled(run.off)
              THEN [products[slug] EXCEPT !.published = FALSE] ELSE products[slug]],
           categories)
  /\ synced' = synced \union {s \in run.off : ~ zoho[s].web}
  /\ run' = [at |-> IF run.more THEN "fetch" ELSE "tree", seen |-> run.seen]
  /\ UNCHANGED <<zoho, recent, variants, stocks, incidents, died, stopped, raced>>

(***************************************************************************)
(* fix_category_hierarchy: one SELECT, then an UPDATE for every row of the *)
(* first two levels.                                                       *)
(***************************************************************************)
Children(parent) == {c \in DOMAIN categories : categories[c].parent = parent}

\* The SELECT has no ORDER BY: roots come in any order, and so do the children
\* of each.
ReadTree ==
  /\ run.at = "tree"
  /\ run' = [at |-> "number", roots |-> Children(None), children |-> {}, tid |-> 0, left |-> 1]
  /\ UNCHANGED <<zoho, recent, shop, cache, query, incidents, ghosts>>

Numbered(slug, lft, rght, tree) ==
  [categories EXCEPT ![slug] = [parent |-> @.parent, lft |-> lft, rght |-> rght, tree |-> tree]]

\* A root is written when the children of the one before are.
NumberRoot ==
  /\ run.at = "number"
  /\ run.children = {}
  /\ \E c \in run.roots :
       /\ Write(products, Numbered(c, 1, 2 * Cardinality(Children(c)) + 2, run.tid + 1))
       /\ run' = [run EXCEPT !.roots = @ \ {c}, !.children = Children(c),
                             !.tid = @ + 1, !.left = 2]
  /\ UNCHANGED <<zoho, recent, variants, stocks, incidents, ghosts>>

\* Bug: every child of a root gets the numbers of the first.
SameLeft(left) == left

NextLeft(left) == left + 2

NumberChild ==
  /\ run.at = "number"
  /\ \E c \in run.children :
       /\ Write(products, Numbered(c, run.left, run.left + 1, run.tid))
       /\ run' = [run EXCEPT !.children = @ \ {c}, !.left = NextLeft(@)]
  /\ UNCHANGED <<zoho, recent, variants, stocks, incidents, ghosts>>

(***************************************************************************)
(* bust_cache: list the keys, delete them.                                 *)
(***************************************************************************)
ListKeys ==
  /\ run.at = "number"
  /\ run.roots = {} /\ run.children = {}
  /\ run' = [at |-> "bust", keys |-> cache # "none"]
  /\ raced' = (query = "stale")
  /\ UNCHANGED <<zoho, recent, shop, cache, query, incidents, died, stopped, synced>>

\* Bug: the keys are listed before the tree is written and nothing is deleted.
LeftAsTheyAre(keys) == cache

Busted(keys) == IF keys THEN "none" ELSE cache

DeleteKeys ==
  /\ run.at = "bust"
  /\ cache' = Busted(run.keys)
  /\ run' = Idle
  /\ stopped' = FALSE
  /\ UNCHANGED <<zoho, recent, shop, query, incidents, died, raced, synced>>

\* The process is killed, a statement or a response fails.
Die ==
  /\ run.at # "idle"
  /\ Incident
  /\ Stop
  /\ died' = TRUE
  /\ UNCHANGED <<zoho, recent, shop, cache, query, raced>>

Step ==
  \/ StartRun \/ FetchPage
  \/ \E sku \in Skus : PickProduct(sku)
  \/ UpsertDepartment \/ UpsertCategory \/ SaveProduct \/ ClearValue \/ SetValue
  \/ SaveVariant \/ AddCollection \/ DropCollections \/ AddStock \/ AddImage \/ DropImages
  \/ DisableProducts \/ ReadTree \/ NumberRoot \/ NumberChild \/ ListKeys \/ DeleteKeys

Next ==
  \/ Step \/ Die
  \/ \E sku \in Skus : Edit(sku) \/ Forget(sku)
  \/ Ask \/ Keep \/ Expire

Spec == Init /\ [][Next]_vars

\* The scheduler starts a run after the last one, and a run goes on.
FairSpec == Spec /\ WF_vars(Step)

-----------------------------------------------------------------------------
\* The shop says of a SKU what its record says.
Mirrored(sku) ==
  LET listing == zoho[sku]
      product == products[variants[sku]]
  IN  IF listing.web
      THEN /\ sku \in stocks
           /\ product.published
           /\ product.category = listing.category
           /\ listing.value # None => product.values[listing.category] = listing.value
           /\ product.collections = listing.collections
           /\ product.images = listing.images
      ELSE sku \in DOMAIN variants => ~ product.published

\* Two records with one name: two SKUs on one product, or about to be.
Shared(sku) ==
  /\ sku \in DOMAIN variants
  /\ \/ \E other \in DOMAIN variants \ {sku} : variants[other] = variants[sku]
     \/ InProduct(variants[sku])

\* A record taken over stays so until it is edited or a run is inside its
\* product, whatever is done to the others, over pages, failures and crashes.
TakenOverStays == \A sku \in synced : Mirrored(sku) \/ Shared(sku)

\* A product on sale that has no variant, so that nothing can be bought from
\* it and disable_products cannot find it, is the one in hand or is left by a
\* run that died.  No row refers to one that does not exist.
NothingToBuyNeedsStop ==
  /\ TypeOK
  /\ \A slug \in DOMAIN products :
       products[slug].published /\ slug \notin Range(variants) =>
         InProduct(slug) \/ died

\* "this only is going to work for 2-level category hierarchies"
TwoLevels ==
  \A c \in DOMAIN categories :
    LET parent == categories[c].parent
    IN  parent # None => categories[parent].parent = None

Inside(c, d) == /\ categories[c].tree = categories[d].tree
                /\ categories[d].lft < categories[c].lft
                /\ categories[c].rght < categories[d].rght

Apart(c, d) == \/ categories[c].tree # categories[d].tree
               \/ categories[c].rght < categories[d].lft
               \/ categories[d].rght < categories[c].lft

\* After a run that reached its end, the descendants get_descendants finds by
\* lft, rght and tree_id are those the parents say, at two levels, and no two
\* others overlap.
TreeFollowsParents ==
  run.at = "idle" /\ ~ stopped /\ TwoLevels =>
    \A c, d \in DOMAIN categories :
      c # d => IF categories[c].parent = d THEN Inside(c, d)
               ELSE categories[d].parent = c \/ Apart(c, d)

\* After a run that reached its end, an outdated answer is still served only
\* when it was being computed while the keys were listed.
OutdatedNeedsRace ==
  run.at = "idle" /\ ~ stopped /\ cache = "stale" => raced

\* A record that stays in the 48 hours is taken over again and again, if no
\* record there lacks its category and it has its department.
EventuallyMirrored ==
  \A sku \in Skus :
    []<>(\/ Mirrored(sku)
         \/ sku \notin recent
         \/ zoho[sku].department = None
         \/ \E other \in recent : zoho[other].web /\ zoho[other].category = None)
=============================================================================
