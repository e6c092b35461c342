------------------------------ MODULE Catalogue -------------------------------
(***************************************************************************)
(* Inventory and seller listings (platform/commerce.py and the catalogue   *)
(* routes of platform/api/routes.py), with the merchants and principals of *)
(* Accounts, and what orders (Checkout) do to the same rows.               *)
(*                                                                         *)
(* publish_seller_listing and the quick creation of a listing read the     *)
(* merchant, and the former the listing and the item, without a lock.      *)
(* Everything else here is one step: SKUs, slugs and the item of a listing *)
(* are unique, and a request that loses the race for one is rolled back.   *)
(***************************************************************************)
EXTENDS Accounts

CONSTANTS
  Items,        \* inventory items; each has one listing at most, named alike
  ItemStatuses, \* statuses operators create items with
  MaxOrders     \* bound of the live orders of an item

StockStatuses == {"intake", "inspection", "available", "reserved", "sold", "returned", "archived"}
PageStatuses == {"draft", "active", "reserved", "sold", "archived"}

ASSUME CatalogueAssumption == ItemStatuses \subseteq StockStatuses /\ MaxOrders \in Nat

VARIABLES
  item,     \* rows of inventory_items
  page,     \* rows of seller_listings, by their item
  draft,    \* per request: the item it publishes, with the rows it read
  held,     \* per item: live orders
  disturbed \* history: items published over a change since they were read

catalogueVars == <<vars, item, page, draft, held, disturbed>>

ItemRow == [merchant: Merchants, status: StockStatuses]
PageRow == [merchant: Merchants, status: PageStatuses]
Draft == [item: Items, stock: ItemRow \cup {None}, page: PageRow \cup {None}]

ASSUME CatalogueRowAssumption == None \notin ItemRow \cup PageRow /\ None \notin Draft

CatalogueTypeOK ==
  /\ AccountsTypeOK
  /\ item \in [Items -> ItemRow \cup {None}]
  /\ page \in [Items -> PageRow \cup {None}]
  /\ draft \in [Requests -> Draft \cup {None}]
  /\ held \in [Items -> 0 .. MaxOrders]
  /\ disturbed \subseteq Items

CatalogueInit ==
  /\ Init
  /\ item = [i \in Items |-> None] /\ page = [i \in Items |-> None]
  /\ draft = [q \in Requests |-> None]
  /\ held = [i \in Items |-> 0]
  /\ disturbed = {}

-----------------------------------------------------------------------------
\* A request of an operator that is one step here.
OperatorStep(c) ==
  /\ Serving /\ \E p \in Authenticated(c) : StaffWith(p, {"admin", "operator"})
  /\ KeepKeys(c)
  /\ UNCHANGED <<now, mode, accountVars, auth, request, deployVars, published, retired, raced, spent>>

CreateItem(c, i, m, status) ==
  /\ OperatorStep(c)
  /\ item[i] = None /\ merchant[m] # None
  /\ item' = [item EXCEPT ![i] = [merchant |-> m, status |-> status]]
  /\ UNCHANGED <<page, draft, held, disturbed>>

CreateListing(c, i, m) ==
  /\ OperatorStep(c)
  /\ item[i] # None /\ item[i].merchant = m /\ page[i] = None
  /\ page' = [page EXCEPT ![i] = [merchant |-> m, status |-> "draft"]]
  /\ UNCHANGED <<item, draft, held, disturbed>>

-----------------------------------------------------------------------------
IsActive(m) == m # None /\ merchant[m] # None /\ merchant[m].status = "active"

\* The merchants a principal may list a phone for at once: a seller's own, or
\* any for an operator.
ListsFor(p) ==
  IF IsCustomer(p) THEN {OwnedMerchant(p.user)}
  ELSE IF StaffWith(p, {"admin", "operator"}) THEN Merchants ELSE {}

BeginQuick(q, c) ==
  \E p \in Authenticated(c) : \E m \in ListsFor(p) :
    /\ IsActive(m)
    /\ Begin(q, "quick", c, None, {}, m)
    /\ UNCHANGED <<item, page, draft, held, disturbed>>

FinishQuick(q, i) ==
  /\ request[q] # None /\ request[q].op = "quick"
  /\ item[i] = None
  /\ item' = [item EXCEPT ![i] = [merchant |-> request[q].target, status |-> "available"]]
  /\ page' = [page EXCEPT ![i] = [merchant |-> request[q].target, status |-> "active"]]
  /\ auth' = Flushed(request[q]) /\ End(q)
  /\ UNCHANGED <<now, mode, accountVars, deployVars, oidcVars, raced, spent, draft, held, disturbed>>

\* Mutant: the item's status is not looked at.
PublishableAnyStock(i) == page[i] # None /\ IsActive(page[i].merchant)

Publishable(i) == page[i] # None /\ IsActive(page[i].merchant)
                  /\ item[i].status \in {"available", "reserved"}

BeginPublish(q, c, i) ==
  \E p \in Authenticated(c) :
    /\ StaffWith(p, {"admin", "operator"}) /\ Publishable(i)
    /\ Begin(q, "publish", c, None, {}, None)
    /\ draft' = [draft EXCEPT ![q] = [item |-> i, stock |-> item[i], page |-> page[i]]]
    /\ UNCHANGED <<item, page, held, disturbed>>

Republished(stock) == IF stock.status = "reserved" THEN [stock EXCEPT !.status = "available"] ELSE stock

FinishPublish(q) ==
  /\ request[q] # None /\ request[q].op = "publish"
  /\ LET d == draft[q]
     IN  /\ page' = [page EXCEPT ![d.item] = Columns(@, d.page, [d.page EXCEPT !.status = "active"])]
         /\ item' = [item EXCEPT ![d.item] = Columns(@, d.stock, Republished(d.stock))]
         /\ disturbed' = IF <<page[d.item], item[d.item]>> # <<d.page, d.stock>>
                         THEN disturbed \cup {d.item} ELSE disturbed
  /\ draft' = [draft EXCEPT ![q] = None]
  /\ auth' = Flushed(request[q]) /\ End(q)
  /\ UNCHANGED <<now, mode, accountVars, deployVars, oidcVars, raced, spent, held>>

Abort(q) ==
  /\ AbortRequest(q)
  /\ draft' = [draft EXCEPT ![q] = None]
  /\ UNCHANGED <<item, page, held, disturbed>>

-----------------------------------------------------------------------------
\* What place_order and the release of a reservation do to these rows; both
\* lock them first.
Reserve(i) ==
  /\ page[i] # None /\ page[i].status = "active" /\ IsActive(page[i].merchant)
  /\ item[i].status = "available" /\ held[i] < MaxOrders
  /\ page' = [page EXCEPT ![i].status = "reserved"]
  /\ item' = [item EXCEPT ![i].status = "reserved"]
  /\ held' = [held EXCEPT ![i] = @ + 1]
  /\ UNCHANGED <<vars, draft, disturbed>>

Release(i) ==
  /\ held[i] > 0
  /\ held' = [held EXCEPT ![i] = @ - 1]
  /\ page' = [page EXCEPT ![i].status = IF @ = "reserved" THEN "active" ELSE @]
  /\ item' = [item EXCEPT ![i].status = IF @ = "reserved" THEN "available" ELSE @]
  /\ UNCHANGED <<vars, draft, disturbed>>

-----------------------------------------------------------------------------
CatalogueStep ==
  \/ \E c \in Credential, i \in Items, m \in Merchants :
       \/ \E status \in ItemStatuses : CreateItem(c, i, m, status)
       \/ CreateListing(c, i, m)
  \/ \E q \in Requests, c \in Credential :
       BeginQuick(q, c) \/ \E i \in Items : BeginPublish(q, c, i)
  \/ \E q \in Requests : FinishPublish(q) \/ Abort(q) \/ \E i \in Items : FinishQuick(q, i)
  \/ \E i \in Items : Reserve(i) \/ Release(i)

AccountsStep ==
  /\ ServerNext \/ StaffNext \/ RequestNext \/ UserNext \/ OutsideNext
  /\ UNCHANGED <<item, page, draft, held, disturbed>>

CatalogueNext == CatalogueStep \/ AccountsStep

CatalogueSpec == CatalogueInit /\ [][CatalogueNext]_catalogueVars

-----------------------------------------------------------------------------
\* store_listings, get_store_listing: what buyers can see.
Offered(i) == page[i] # None /\ page[i].status = "active" /\ IsActive(page[i].merchant)

\* A phone that is offered can be ordered, unless its listing was published
\* by a request that read it before it was changed.
OffersSellable ==
  \A i \in Items : Offered(i) => item[i].status = "available" \/ i \in disturbed
=============================================================================
