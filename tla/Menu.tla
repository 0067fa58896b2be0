--------------------------------- MODULE Menu ---------------------------------
(***************************************************************************)
(* The menu of one restaurant (menu.service.js, menu.repository.js) and    *)
(* the public menu served from the cache under two keys.  Every endpoint   *)
(* reads what it needs, writes by id in a later statement, and deletes     *)
(* both cached menus after that.                                           *)
(*                                                                         *)
(* Left out: names (a conflict ends the request without a change) and the  *)
(* order of entries.  What a product shows, its modifiers included, is one *)
(* of two details.                                                         *)
(***************************************************************************)
EXTENDS Integers, FiniteSets

CONSTANTS
  Category,        \* ids of categories rows
  Product,         \* ids of products rows
  StartCategories, \* inputs: categories on the menu at the start
  Manager,         \* concurrent requests of menu managers
  Duties,          \* inputs: the requests each of them makes
  None,            \* an absent value
  MaxMenuChanges   \* bound: requests that change the menu

MenuRequests == {"create", "update", "delete", "detail", "open"}

ASSUME MenuAssumption ==
  /\ None \notin Category \cup Product
  /\ StartCategories \subseteq Category
  /\ Duties \in [Manager -> SUBSET MenuRequests]
  /\ MaxMenuChanges \in Nat

VARIABLES
  open,         \* restaurants.status is ACTIVE
  category,     \* categories
  product,      \* products
  served,       \* Redis: the public menu under each key
  filling,      \* the fill in flight for each key
  manager,      \* local state of each manager's request
  menuTainted,  \* auxiliary: keys wrong when stored, or that were to be deleted and were not
  menuChanges   \* requests made so far

menuVars ==
  <<open, category, product, served, filling, manager, menuTainted, menuChanges>>

CacheKey == {"id", "slug"}

CategoryRow == [status : {"NONE", "ACTIVE", "INACTIVE"}, deleted : BOOLEAN]

\* shown: ACTIVE and available.
ProductRow ==
  [there : BOOLEAN, category : Category \cup {None}, shown : BOOLEAN, detail : 0..1,
   deleted : BOOLEAN]

\* A public menu lists the products of each active category.
PublicMenu == [Category -> (SUBSET (Product \X (0..1))) \cup {None}]

\* pc names the next statement; category and product are what the request is about.
ManagerState ==
  [pc : {"idle", "create", "save", "modifiers", "remove", "invalidate"},
   category : Category \cup {None}, product : Product \cup {None}]

IdleManager == [pc |-> "idle", category |-> None, product |-> None]

\* A cached value is compared, never enumerated.
MenuTypeOK ==
  /\ open \in BOOLEAN
  /\ category \in [Category -> CategoryRow]
  /\ product \in [Product -> ProductRow]
  /\ \A k \in CacheKey : served[k] = None \/ served[k] \in PublicMenu
  /\ \A k \in CacheKey : filling[k] = None \/ filling[k] \in PublicMenu
  /\ manager \in [Manager -> ManagerState]
  /\ menuTainted \in SUBSET CacheKey
  /\ menuChanges \in 0..MaxMenuChanges

NoProduct ==
  [there |-> FALSE, category |-> None, shown |-> FALSE, detail |-> 0, deleted |-> FALSE]

NewProduct(c, shown) ==
  [there |-> TRUE, category |-> c, shown |-> shown, detail |-> 0, deleted |-> FALSE]

MenuInit ==
  /\ open = TRUE
  /\ category = [c \in Category |->
       [status |-> IF c \in StartCategories THEN "ACTIVE" ELSE "NONE", deleted |-> FALSE]]
  /\ product \in [Product -> {NoProduct} \cup {NewProduct(c, TRUE) : c \in StartCategories}]
  /\ served = [k \in CacheKey |-> None]
  /\ filling = [k \in CacheKey |-> None]
  /\ manager = [m \in Manager |-> IdleManager]
  /\ menuTainted = {}
  /\ menuChanges = 0

CategoryFound(c) == category[c].status # "NONE" /\ ~category[c].deleted

ProductFound(p) == product[p].there /\ ~product[p].deleted

ProductsOf(c) == {p \in Product : ProductFound(p) /\ product[p].category = c}

\* getPublicMenuBySlugOrId, without the restaurant.
Catalog ==
  [c \in Category |->
     IF CategoryFound(c) /\ category[c].status = "ACTIVE"
     THEN {<<p, product[p].detail>> : p \in {q \in ProductsOf(c) : product[q].shown}}
     ELSE None]

-----------------------------------------------------------------------------
(* The public menu *)

cacheVars == <<served, filling, menuTainted>>

\* A closed restaurant has no menu to cache.
ReadMenu(k) ==
  /\ filling[k] = None
  /\ open
  /\ filling' = [filling EXCEPT ![k] = Catalog]
  /\ UNCHANGED <<open, category, product, served, manager, menuTainted, menuChanges>>

\* Redis may refuse; the menu is then served without being stored.
StoreMenu(k) ==
  /\ filling[k] # None
  /\ \/ /\ served' = [served EXCEPT ![k] = filling[k]]
        /\ menuTainted' = IF filling[k] = Catalog THEN menuTainted \ {k} ELSE menuTainted \cup {k}
     \/ UNCHANGED <<served, menuTainted>>
  /\ filling' = [filling EXCEPT ![k] = None]
  /\ UNCHANGED <<open, category, product, manager, menuChanges>>

\* Seeded fault: menus are stored without a time to live.
NeverExpires(k) == FALSE

MenuExpires(k) == served[k] # None

ExpireMenu(k) ==
  /\ MenuExpires(k)
  /\ served' = [served EXCEPT ![k] = None]
  /\ menuTainted' = menuTainted \ {k}
  /\ UNCHANGED <<open, category, product, filling, manager, menuChanges>>

-----------------------------------------------------------------------------
(* Requests of managers *)

Requested(m, request) ==
  /\ manager[m].pc = "idle"
  /\ request \in Duties[m]
  /\ menuChanges < MaxMenuChanges
  /\ menuChanges' = menuChanges + 1

Proceed(m, pc, c, p) ==
  manager' = [manager EXCEPT ![m] = [pc |-> pc, category |-> c, product |-> p]]

MustInvalidate(m) == Proceed(m, "invalidate", None, None)

\* What reading leaves alone, and what writing a product or a category does.
readsOnly == <<open, category, product, cacheVars>>
writesMenu == <<open, cacheVars, menuChanges>>

CreateCategory(m, c) ==
  /\ Requested(m, "create")
  /\ category[c].status = "NONE"
  /\ \E status \in {"ACTIVE", "INACTIVE"} :
       category' = [category EXCEPT ![c] = [status |-> status, deleted |-> FALSE]]
  /\ MustInvalidate(m)
  /\ UNCHANGED <<open, product, cacheVars>>

ReadForProduct(m, c, p) ==
  /\ Requested(m, "create")
  /\ CategoryFound(c)
  /\ ~product[p].there
  /\ Proceed(m, "create", c, p)
  /\ UNCHANGED readsOnly

CreateProduct(m) ==
  LET p == manager[m].product IN
    /\ manager[m].pc = "create"
    /\ ~product[p].there
    /\ \E shown \in BOOLEAN :
         product' = [product EXCEPT ![p] = NewProduct(manager[m].category, shown)]
    /\ MustInvalidate(m)
    /\ UNCHANGED <<writesMenu, category>>

ReadForCategoryUpdate(m, c) ==
  /\ Requested(m, "update")
  /\ CategoryFound(c)
  /\ Proceed(m, "save", c, None)
  /\ UNCHANGED readsOnly

\* Written by id: whether the row was deleted meanwhile is not looked at.
UpdateCategory(m) ==
  LET c == manager[m].category IN
    /\ manager[m].pc = "save" /\ manager[m].product = None
    /\ \E status \in {"ACTIVE", "INACTIVE"} : category' = [category EXCEPT ![c].status = status]
    /\ MustInvalidate(m)
    /\ UNCHANGED <<writesMenu, product>>

\* Moving a product asks for the category it goes to.
ReadForMove(m, p, c) ==
  /\ Requested(m, "update")
  /\ ProductFound(p) /\ CategoryFound(c)
  /\ Proceed(m, "save", c, p)
  /\ UNCHANGED readsOnly

ReadForProductUpdate(m, p) ==
  /\ Requested(m, "detail")
  /\ ProductFound(p)
  /\ Proceed(m, "save", None, p)
  /\ UNCHANGED readsOnly

\* By id as well; a category that the payload lacks is not written.
UpdateProduct(m) ==
  LET p == manager[m].product
      c == manager[m].category IN
    /\ manager[m].pc = "save" /\ p # None
    /\ \E shown \in BOOLEAN, detail \in 0..1 :
         product' = [product EXCEPT ![p] =
           [product[p] EXCEPT !.category = IF c = None THEN @ ELSE c,
                              !.shown = shown, !.detail = detail]]
    /\ MustInvalidate(m)
    /\ UNCHANGED <<writesMenu, category>>

ReadForModifier(m, p) ==
  /\ Requested(m, "detail")
  /\ ProductFound(p)
  /\ Proceed(m, "modifiers", None, p)
  /\ UNCHANGED readsOnly

\* Creating, changing and deleting a modifier: the product itself is not written.
WriteModifier(m) ==
  /\ manager[m].pc = "modifiers"
  /\ product' = [product EXCEPT ![manager[m].product].detail = 1 - @]
  /\ MustInvalidate(m)
  /\ UNCHANGED <<writesMenu, category>>

ReadForProductDelete(m, p) ==
  /\ Requested(m, "delete")
  /\ ProductFound(p)
  /\ Proceed(m, "remove", None, p)
  /\ UNCHANGED readsOnly

DeleteProduct(m) ==
  LET p == manager[m].product IN
    /\ manager[m].pc = "remove" /\ p # None
    /\ product' = [product EXCEPT ![p] = [@ EXCEPT !.shown = FALSE, !.deleted = TRUE]]
    /\ MustInvalidate(m)
    /\ UNCHANGED <<writesMenu, category>>

\* Seeded fault: products that are hidden do not count.
MayRemoveShown(c) == {p \in ProductsOf(c) : product[p].shown} = {}

MayRemove(c) == ProductsOf(c) = {}

CountProducts(m, c) ==
  /\ Requested(m, "delete")
  /\ CategoryFound(c)
  /\ MayRemove(c)
  /\ Proceed(m, "remove", c, None)
  /\ UNCHANGED readsOnly

DeleteCategory(m) ==
  LET c == manager[m].category IN
    /\ manager[m].pc = "remove" /\ c # None
    /\ category' = [category EXCEPT ![c] = [status |-> "INACTIVE", deleted |-> TRUE]]
    /\ MustInvalidate(m)
    /\ UNCHANGED <<writesMenu, product>>

\* Seeded fault: the menu that was read by slug is forgotten.
IdKeyOnly == {"id"}

MenuKeys == CacheKey

Leaves ==
  /\ menuTainted' = menuTainted \cup {k \in CacheKey : served[k] # None}
  /\ UNCHANGED served

\* The slug is read first; that or the deletion may fail, which is logged and forgotten.
InvalidateMenu(m) ==
  /\ manager[m].pc = "invalidate"
  /\ \/ /\ served' = [k \in CacheKey |-> IF k \in MenuKeys THEN None ELSE served[k]]
        /\ menuTainted' = menuTainted \ MenuKeys
     \/ Leaves
  /\ manager' = [manager EXCEPT ![m] = IdleManager]
  /\ UNCHANGED <<open, category, product, filling, menuChanges>>

\* restaurant.service.js: the menu in the cache is left alone.
UpdateRestaurantStatus(m) ==
  /\ Requested(m, "open")
  /\ open' \in BOOLEAN
  /\ UNCHANGED <<category, product, cacheVars, manager>>

ManagerFails(m) ==
  /\ manager[m].pc # "idle"
  /\ IF manager[m].pc = "invalidate" THEN Leaves ELSE UNCHANGED <<served, menuTainted>>
  /\ manager' = [manager EXCEPT ![m] = IdleManager]
  /\ UNCHANGED <<open, category, product, filling, menuChanges>>

Saves(m) ==
  \/ CreateProduct(m) \/ UpdateCategory(m) \/ UpdateProduct(m) \/ WriteModifier(m)
  \/ DeleteProduct(m) \/ DeleteCategory(m)

ManagerStep(m) ==
  \/ \E c \in Category :
       \/ CreateCategory(m, c) \/ ReadForCategoryUpdate(m, c) \/ CountProducts(m, c)
       \/ \E p \in Product : ReadForProduct(m, c, p) \/ ReadForMove(m, p, c)
  \/ \E p \in Product :
       ReadForProductUpdate(m, p) \/ ReadForModifier(m, p) \/ ReadForProductDelete(m, p)
  \/ Saves(m) \/ InvalidateMenu(m) \/ UpdateRestaurantStatus(m) \/ ManagerFails(m)

MenuStep ==
  \/ \E k \in CacheKey : ReadMenu(k) \/ StoreMenu(k) \/ ExpireMenu(k)
  \/ \E m \in Manager : ManagerStep(m)

\* Redis counts the seconds of every menu, and a menu that was read is answered.
MenuFairness == \A k \in CacheKey : WF_menuVars(StoreMenu(k)) /\ WF_menuVars(ExpireMenu(k))

-----------------------------------------------------------------------------
(* Properties *)

\* A cached menu that was right when it was stored is deleted by whoever changes what it
\* shows, under both keys and however requests overlap.
MenuChangesAreInvalidated ==
  \A k \in CacheKey :
    (served[k] # None /\ served[k] # Catalog) =>
      \/ k \in menuTainted
      \/ \E m \in Manager : manager[m].pc = "invalidate"

\* "Cannot delete category containing products": while one manager at a time creates,
\* moves and deletes, a product on the menu never sits in a category that is gone.
CategoriesKeepTheirProducts ==
  \A p \in Product : ProductFound(p) => CategoryFound(product[p].category)

\* Once changes stop, nobody is shown an outdated menu for ever: not after a deletion
\* Redis refused, and not after the restaurant was closed.
StaleMenusEnd ==
  <>[](\A k \in CacheKey : served[k] # None => open /\ served[k] = Catalog)
=============================================================================
