------------------------------ MODULE Checkout ------------------------------
(***************************************************************************)
(* One shop's inventory and checkout (app/modules/sales, items and         *)
(* subscriptions): the item rows, the invoice sequence and sales total on  *)
(* the shop row, the sales, their idempotency records, and the HTTP        *)
(* requests that sell, create, import, edit, archive and clear items.      *)
(*                                                                         *)
(* A request is one READ COMMITTED transaction (get_db); a step is one     *)
(* locking statement or the commit.  Row locks are held until the request  *)
(* ends.  Writes become visible at the commit, so a request that rolls     *)
(* back leaves only its released locks behind.                             *)
(*                                                                         *)
(* get_shop_context loads the Shop object before any lock is taken, and    *)
(* the session's identity map hands the same unrefreshed object to every   *)
(* later SELECT ... FOR UPDATE of that shop.  seenNext and seenTotal are   *)
(* the two attributes of that copy a checkout uses; is_active is always    *)
(* true in it.                                                             *)
(*                                                                         *)
(* An item's stock is its quantity or, in weight mode, its stock_weight    *)
(* (then quantity is 1 while weight remains, else 0).  Prices are left     *)
(* out: every sale adds 1 to the shop's total, and a checkout whose rate   *)
(* is missing or whose confirmed total no longer matches is a Rollback.    *)
(*                                                                         *)
(* Definitions whose name ends in _Mutant are plausible bugs of the one    *)
(* that follows them; the runs' properties are shown to reject them.       *)
(***************************************************************************)
EXTENDS Integers, FiniteSets, FiniteSetsExt

CONSTANTS
  Items,      \* item rows, present or to come
  Requests,   \* slots of concurrent HTTP requests
  Keys,       \* idempotency keys
  None,       \* Python's None
  Carts,      \* payloads of a checkout: for each item a kind and an amount
  Entries,    \* payloads of a creation, an import or an edit, as far as stock goes
  MaxStock,   \* bound: the largest stock of an item at the start
  MaxArrivals,\* bound: requests in a behaviour
  ItemLimit   \* the entitlement's item_limit

Modes == {"quantity", "weight"}

ASSUME ConstantsAssumption ==
  /\ None \notin Items \cup Requests \cup Carts
  /\ IsFiniteSet(Items)
  /\ Carts \subseteq [Items -> [kind : Modes, amount : Nat]]
  /\ Entries \subseteq [item : Items \cup {None}, mode : Modes,
                         total : Nat, stock : Nat, count : Nat]
  /\ None \notin Entries
  /\ MaxStock \in Nat
  /\ MaxArrivals \in Nat
  /\ ItemLimit \in Nat

VARIABLES
  \* Item rows: stock_mode, status ("none": no such row), the quantity or
  \* stock_weight, net_weight, the weight already gone when the row was imported,
  \* and the sum of the item's sale lines
  mode, itemStatus, stock, total, opening, sold,
  \* the Shop row: is_active, next_invoice_sequence, total_sales_amount
  active, next, shopTotal,
  \* the sales, as [key, seq], and sale_idempotency: the payload of each key
  sales, result,
  \* each request: its operation, where it is, its payload, the item rows it has
  \* yet to lock, the one it is blocked on, its copy of the shop, its number
  op, pc, key, cart, edit, wants, waiting, seenNext, seenTotal, seq,
  \* row locks: the request that holds each
  itemLock, shopLock,
  \* requests so far
  arrivals

itemVars == <<mode, itemStatus, stock, total, opening, sold>>
shopVars == <<active, next, shopTotal>>
saleVars == <<sales, result>>
inputVars == <<op, key, cart, edit, seenNext, seenTotal>>
waitVars == <<wants, waiting>>
lockVars == <<itemLock, shopLock>>
vars == <<itemVars, shopVars, saleVars, inputVars, pc, waitVars, seq, lockVars,
          arrivals>>

-----------------------------------------------------------------------------
Available(i) == itemStatus[i] = "in_stock"
Lines(c) == {i \in Items : c[i].amount > 0}
Numbers == {x.seq : x \in sales}
Held(r) == {i \in Items : itemLock[i] = r}
Open(r) == pc[r] # "idle"

\* count_active_items: records in stock (nothing in the code reserves one).
ActiveItems == {i \in Items : Available(i) /\ stock[i] > 0}

\* A shop that has been stocked and has sold nothing yet.
Init ==
  /\ itemStatus \in [Items -> {"none", "in_stock"}]
  /\ mode \in [Items -> Modes]
  /\ stock \in [Items -> 0..MaxStock]
  /\ \A i \in Items :
       \/ Available(i) /\ (mode[i] = "weight" => stock[i] > 0)
       \/ itemStatus[i] = "none" /\ mode[i] = "quantity" /\ stock[i] = 0
  /\ total = stock
  /\ opening = [i \in Items |-> 0]
  /\ sold = [i \in Items |-> 0]
  /\ Cardinality(ActiveItems) <= ItemLimit
  /\ active = TRUE /\ next = 1 /\ shopTotal = 0
  /\ sales = {}
  /\ result = [k \in Keys |-> None]
  /\ op = [r \in Requests |-> "none"]
  /\ pc = [r \in Requests |-> "idle"]
  /\ key = [r \in Requests |-> None]
  /\ cart = [r \in Requests |-> None]
  /\ edit = [r \in Requests |-> None]
  /\ wants = [r \in Requests |-> {}]
  /\ waiting = [r \in Requests |-> None]
  /\ seenNext = [r \in Requests |-> 1]
  /\ seenTotal = [r \in Requests |-> 0]
  /\ seq = [r \in Requests |-> 0]
  /\ itemLock = [i \in Items |-> None]
  /\ shopLock = None
  /\ arrivals = 0

\* get_shop_context admits the request and loads the shop.
Begin(r, o, step) ==
  /\ pc[r] = "idle"
  /\ active
  /\ arrivals < MaxArrivals
  /\ arrivals' = arrivals + 1
  /\ op' = [op EXCEPT ![r] = o]
  /\ pc' = [pc EXCEPT ![r] = step]
  /\ seenNext' = [seenNext EXCEPT ![r] = next]
  /\ seenTotal' = [seenTotal EXCEPT ![r] = shopTotal]
  /\ UNCHANGED <<waiting, seq, lockVars, itemVars, shopVars, saleVars>>

\* The request is over: its transaction has ended and all its locks are free.
Finish(r) ==
  /\ op' = [op EXCEPT ![r] = "none"]
  /\ pc' = [pc EXCEPT ![r] = "idle"]
  /\ key' = [key EXCEPT ![r] = None]
  /\ cart' = [cart EXCEPT ![r] = None]
  /\ edit' = [edit EXCEPT ![r] = None]
  /\ wants' = [wants EXCEPT ![r] = {}]
  /\ waiting' = [waiting EXCEPT ![r] = None]
  /\ seenNext' = [seenNext EXCEPT ![r] = 1]
  /\ seenTotal' = [seenTotal EXCEPT ![r] = 0]
  /\ seq' = [seq EXCEPT ![r] = 0]
  /\ itemLock' = [i \in Items |-> IF itemLock[i] = r THEN None ELSE itemLock[i]]
  /\ shopLock' = IF shopLock = r THEN None ELSE shopLock
  /\ UNCHANGED arrivals

Rollback_Mutant(r) ==  \* the failed request's session is never closed
  /\ Open(r)
  /\ pc' = [pc EXCEPT ![r] = "idle"]
  /\ wants' = [wants EXCEPT ![r] = {}] /\ waiting' = [waiting EXCEPT ![r] = None]
  /\ UNCHANGED <<lockVars, inputVars, seq, itemVars, shopVars, saleVars, arrivals>>

\* The handler raises, a statement times out, the client goes away, or the
\* database picks the request as a deadlock victim.
Rollback(r) ==
  /\ Open(r)
  /\ Finish(r)
  /\ UNCHANGED <<itemVars, shopVars, saleVars>>

-----------------------------------------------------------------------------
(* Row locks on items: SELECT ... FOR UPDATE in the order the planner finds *)
(* the rows.                                                                *)

LockItem(r, i) ==
  /\ pc[r] = "locking"
  /\ i \in wants[r] /\ waiting[r] \in {None, i}
  /\ itemLock[i] = None
  /\ itemLock' = [itemLock EXCEPT ![i] = r]
  /\ wants' = [wants EXCEPT ![r] = @ \ {i}]
  /\ waiting' = [waiting EXCEPT ![r] = None]
  /\ UNCHANGED <<inputVars, pc, seq, shopLock, itemVars, shopVars, saleVars, arrivals>>

AwaitItem(r, i) ==
  /\ pc[r] = "locking"
  /\ i \in wants[r] /\ waiting[r] = None
  /\ itemLock[i] # None
  /\ waiting' = [waiting EXCEPT ![r] = i]
  /\ UNCHANGED <<inputVars, pc, wants, seq, lockVars, itemVars, shopVars, saleVars, arrivals>>

AllLocked(r) == pc[r] = "locking" /\ wants[r] = {}

-----------------------------------------------------------------------------
(* POST /sales.                                                             *)

BeginSale(r, k, c) ==
  /\ Begin(r, "sale", "begun")
  /\ key' = [key EXCEPT ![r] = k]
  /\ cart' = [cart EXCEPT ![r] = c]
  /\ UNCHANGED <<edit, wants>>

\* pg_advisory_xact_lock on the shop and the key, held to the end.
KeyFree(k) ==
  ~\E q \in Requests : op[q] = "sale" /\ pc[q] \in {"locking", "numbered"} /\ key[q] = k

LookupBody(r) ==
  LET known == result[key[r]] IN
  \/ /\ known # None
     /\ Finish(r)
     /\ UNCHANGED <<itemVars, shopVars, saleVars>>
  \/ /\ known = None
     /\ pc' = [pc EXCEPT ![r] = "locking"]
     /\ wants' = [wants EXCEPT
                   ![r] = {i \in Lines(cart[r]) : itemStatus[i] # "none"}]
     /\ UNCHANGED <<inputVars, waiting, seq, lockVars, itemVars, shopVars, saleVars, arrivals>>

Lookup_Mutant(r) ==  \* no advisory lock on the key
  pc[r] = "begun" /\ LookupBody(r)

\* The key's earlier result is returned (or refused, if the payload differs).
Lookup(r) ==
  /\ pc[r] = "begun"
  /\ KeyFree(key[r])
  /\ LookupBody(r)

CanSell_Mutant(r) ==  \* the status of the locked rows is not looked at
  /\ Lines(cart[r]) \subseteq Held(r)
  /\ \A i \in Lines(cart[r]) :
       cart[r][i].kind = mode[i] /\ cart[r][i].amount <= stock[i]

\* Every row was found, is in stock, is sold in its mode and has enough.
CanSell(r) ==
  /\ Lines(cart[r]) \subseteq Held(r)
  /\ \A i \in Lines(cart[r]) :
       Available(i) /\ cart[r][i].kind = mode[i] /\ cart[r][i].amount <= stock[i]

\* The invoice number chosen under the shop's lock: the first from the copied
\* sequence on that no committed sale has.
FirstFree(from, n) == n \notin Numbers /\ \A m \in from..(n - 1) : m \in Numbers

NumberSale_Mutant(r) ==  \* the sequence is advanced ahead of the sale
  /\ AllLocked(r) /\ op[r] = "sale" /\ CanSell(r) /\ shopLock = None
  /\ \E n \in seenNext[r]..(seenNext[r] + Cardinality(sales)) :
       /\ FirstFree(seenNext[r], n)
       /\ seq' = [seq EXCEPT ![r] = n]
       /\ next' = n + 1
  /\ shopLock' = r
  /\ pc' = [pc EXCEPT ![r] = "numbered"]
  /\ UNCHANGED <<inputVars, waitVars, itemLock, itemVars, active, shopTotal, saleVars, arrivals>>

NumberSale(r) ==
  /\ AllLocked(r) /\ op[r] = "sale" /\ CanSell(r)
  /\ shopLock = None
  /\ \E n \in seenNext[r]..(seenNext[r] + Cardinality(sales)) :
       FirstFree(seenNext[r], n) /\ seq' = [seq EXCEPT ![r] = n]
  /\ shopLock' = r
  /\ pc' = [pc EXCEPT ![r] = "numbered"]
  /\ UNCHANGED <<inputVars, waitVars, itemLock, itemVars, shopVars, saleVars, arrivals>>

\* The lines leave stock; an item with none left is sold.
SellLines(c) ==
  /\ stock' = [i \in Items |-> stock[i] - c[i].amount]
  /\ sold' = [i \in Items |-> sold[i] + c[i].amount]
  /\ itemStatus' = [i \in Items |->
       IF i \notin Lines(c) THEN itemStatus[i]
       ELSE IF stock[i] > c[i].amount THEN "in_stock" ELSE "sold"]
  /\ UNCHANGED <<mode, total, opening>>

CommitSale_Mutant(r) ==  \* the idempotency record is not written
  /\ pc[r] = "numbered"
  /\ sales' = sales \cup {[key |-> key[r], seq |-> seq[r]]}
  /\ next' = seq[r] + 1 /\ shopTotal' = seenTotal[r] + 1
  /\ SellLines(cart[r])
  /\ Finish(r)
  /\ UNCHANGED <<active, result>>

\* Sale, lines, job and idempotency record are written and the request commits.
\* The shop's new totals are computed from the copy.
CommitSale(r) ==
  /\ pc[r] = "numbered"
  /\ sales' = sales \cup {[key |-> key[r], seq |-> seq[r]]}
  /\ result' = [result EXCEPT ![key[r]] = cart[r]]
  /\ next' = seq[r] + 1
  /\ shopTotal' = seenTotal[r] + 1
  /\ SellLines(cart[r])
  /\ Finish(r)
  /\ UNCHANGED active

-----------------------------------------------------------------------------
(* Stock entry: create_item, import_inventory_csv and update_item.          *)

\* Rows left to bring in, which bounds the behaviours TLC looks at.
Room ==
  Cardinality({i \in Items : itemStatus[i] = "none"})
    - MapThenSumSet(LAMBDA q : edit[q].count,
                    {q \in Requests : op[q] \in {"create", "import"}})

\* POST /items and the CSV import bring new rows, one or count of them.
BeginEntry(r, o, e) ==
  /\ e.count <= Room
  /\ o = "create" => e.count = 1 /\ (e.mode = "weight" => e.stock = e.total)
  /\ e.item = None /\ e.count > 0
  /\ e.mode = "weight" => e.total > 0 /\ e.stock <= e.total
  /\ e.mode = "quantity" => e.total = e.stock
  /\ Begin(r, o, "locking")
  /\ edit' = [edit EXCEPT ![r] = e]
  /\ UNCHANGED <<key, cart, wants>>

\* PATCH /items/{id}: the fields that touch stock, as they are to be.
BeginUpdate(r, e) ==
  /\ e.item \in Items /\ itemStatus[e.item] \notin {"none", "archived"}
  /\ e.total = e.stock /\ e.count = 0
  /\ Begin(r, "update", "locking")
  /\ edit' = [edit EXCEPT ![r] = e]
  /\ wants' = [wants EXCEPT ![r] = {e.item}]
  /\ UNCHANGED <<key, cart>>

Consumed(i) == IF mode[i] = "weight" THEN total[i] - stock[i] ELSE 0

Editable_Mutant(e) ==  \* the new total is not compared with what is gone
  /\ Available(e.item)
  /\ e.mode # mode[e.item] => sold[e.item] = 0
  /\ e.mode = "weight" => e.total > 0

Editable(e) ==
  /\ Available(e.item)
  /\ e.mode # mode[e.item] => sold[e.item] = 0
  /\ e.mode = "weight" => e.total > 0 /\ e.total >= Consumed(e.item)

Remaining_Mutant(e) == e.total  \* the new total is taken for the remainder

\* reconcile_remaining_weight; a quantity is entered as it is.
Remaining(e) ==
  IF e.mode = "weight" THEN e.total - Consumed(e.item) ELSE e.total

\* Records the request makes active; an import counts every accepted row.
Slots(r) ==
  CASE op[r] = "create" -> IF edit[r].stock > 0 THEN 1 ELSE 0
    [] op[r] = "import" -> edit[r].count
    [] op[r] = "update" ->
         IF stock[edit[r].item] = 0 /\ Remaining(edit[r]) > 0 THEN 1 ELSE 0
    [] OTHER -> 0

Allowed(r) ==
  /\ AllLocked(r) /\ op[r] \in {"create", "import", "update"}
  /\ op[r] = "update" => Editable(edit[r])

Activate_Mutant(r) ==  \* counting without the shop's lock
  /\ Allowed(r) /\ Slots(r) > 0
  /\ Cardinality(ActiveItems) + Slots(r) <= ItemLimit
  /\ pc' = [pc EXCEPT ![r] = "counted"]
  /\ UNCHANGED <<inputVars, waitVars, seq, lockVars, itemVars, shopVars, saleVars, arrivals>>

\* enforce_item_activation_capacity locks the shop, then counts.
Activate(r) ==
  /\ Allowed(r) /\ Slots(r) > 0
  /\ shopLock = None
  /\ Cardinality(ActiveItems) + Slots(r) <= ItemLimit
  /\ shopLock' = r
  /\ pc' = [pc EXCEPT ![r] = "counted"]
  /\ UNCHANGED <<inputVars, waitVars, seq, itemLock, itemVars, shopVars, saleVars, arrivals>>

MayWrite(r) == pc[r] = "counted" \/ (Allowed(r) /\ Slots(r) = 0)

CommitEntry(r) ==
  LET e == edit[r] IN
  /\ op[r] \in {"create", "import"}
  /\ MayWrite(r)
  /\ \E new \in SUBSET {i \in Items : itemStatus[i] = "none"} :
       /\ Cardinality(new) = e.count
       /\ mode' = [i \in Items |-> IF i \in new THEN e.mode ELSE mode[i]]
       /\ itemStatus' = [i \in Items |-> IF i \in new THEN "in_stock" ELSE itemStatus[i]]
       /\ stock' = [i \in Items |-> IF i \in new THEN e.stock ELSE stock[i]]
       /\ total' = [i \in Items |-> IF i \in new THEN e.total ELSE total[i]]
       /\ opening' = [i \in Items |-> IF i \in new THEN e.total - e.stock ELSE opening[i]]
  /\ Finish(r)
  /\ UNCHANGED <<sold, shopVars, saleVars>>

CommitUpdate(r) ==
  LET e == edit[r]
      i == e.item IN
  /\ op[r] = "update"
  /\ MayWrite(r)
  /\ mode' = [mode EXCEPT ![i] = e.mode]
  /\ stock' = [stock EXCEPT ![i] = Remaining(e)]
  /\ total' = [total EXCEPT ![i] = e.total]
  /\ opening' = [opening EXCEPT ![i] = IF e.mode = mode[i] THEN @ ELSE 0]
  /\ itemStatus' = [itemStatus EXCEPT
       ![i] = IF e.mode = "weight" /\ Remaining(e) = 0 THEN "sold" ELSE @]
  /\ Finish(r)
  /\ UNCHANGED <<sold, shopVars, saleVars>>

-----------------------------------------------------------------------------
(* delete_item, delete_items and clear_in_stock_inventory.                  *)

BeginDelete(r, chosen) ==
  /\ chosen # {} /\ \A i \in chosen : itemStatus[i] \notin {"none", "archived"}
  /\ Begin(r, "delete", "locking")
  /\ wants' = [wants EXCEPT ![r] = chosen]
  /\ UNCHANGED <<key, cart, edit>>

BeginClear(r) ==
  /\ Begin(r, "clear", "locking")
  /\ wants' = [wants EXCEPT ![r] = {i \in Items : Available(i)}]
  /\ UNCHANGED <<key, cart, edit>>

\* quantity becomes 0; stock_weight keeps its value.
Archive(gone) ==
  /\ itemStatus' = [i \in Items |-> IF i \in gone THEN "archived" ELSE itemStatus[i]]
  /\ stock' = [i \in Items |->
       IF i \in gone /\ mode[i] = "quantity" THEN 0 ELSE stock[i]]
  /\ UNCHANGED <<mode, total, opening, sold>>

\* All of the selection, or none of it.
CommitDelete(r) ==
  /\ AllLocked(r) /\ op[r] = "delete"
  /\ \A i \in Held(r) : Available(i)
  /\ Archive(Held(r))
  /\ Finish(r)
  /\ UNCHANGED <<shopVars, saleVars>>

\* The locking statement re-evaluates its condition on the rows it waited for.
CommitClear(r) ==
  /\ AllLocked(r) /\ op[r] = "clear"
  /\ Archive({i \in Held(r) : Available(i)})
  /\ Finish(r)
  /\ UNCHANGED <<shopVars, saleVars>>

\* An account deletion deactivates the shop under its row lock.
Deactivate ==
  /\ active /\ shopLock = None
  /\ active' = FALSE
  /\ UNCHANGED <<next, shopTotal, saleVars, itemVars>>
  /\ UNCHANGED <<inputVars, pc, waitVars, seq, lockVars, arrivals>>

-----------------------------------------------------------------------------
Arrive(r) ==
  \/ \E k \in Keys, c \in Carts : BeginSale(r, k, c)
  \/ \E e \in Entries :
       BeginEntry(r, "create", e) \/ BeginEntry(r, "import", e) \/ BeginUpdate(r, e)
  \/ \E chosen \in SUBSET Items : BeginDelete(r, chosen)
  \/ BeginClear(r)

Progress(r) ==
  \/ Lookup(r)
  \/ \E i \in Items : LockItem(r, i) \/ AwaitItem(r, i)
  \/ NumberSale(r) \/ CommitSale(r)
  \/ Activate(r) \/ CommitEntry(r) \/ CommitUpdate(r)
  \/ CommitDelete(r) \/ CommitClear(r)

Next ==
  \/ \E r \in Requests : Arrive(r) \/ Progress(r) \/ Rollback(r)
  \/ Deactivate

Spec == Init /\ [][Next]_vars

\* The checks of a request whose rows are locked refuse it.
Refused(r) ==
  /\ AllLocked(r)
  /\ \/ op[r] = "sale" /\ ~CanSell(r)
     \/ op[r] = "update" /\ ~Editable(edit[r])
     \/ op[r] = "delete" /\ \E i \in Held(r) : ~Available(i)
     \/ /\ Allowed(r) /\ Slots(r) > 0
        /\ Cardinality(ActiveItems) + Slots(r) > ItemLimit

\* The request waits on a cycle of requests, each blocked by the next.
Deadlocked(r) ==
  \E S \in SUBSET Requests :
    /\ r \in S
    /\ \A q \in S : waiting[q] # None
    /\ {itemLock[waiting[q]] : q \in S} = S

\* A request runs on, a refused one raises, and the database resolves a
\* deadlock by ending one of its members.
Fairness ==
  \A r \in Requests :
    /\ WF_vars(Progress(r))
    /\ WF_vars((Refused(r) \/ Deadlocked(r)) /\ Rollback(r))

FairSpec == Spec /\ Fairness

-----------------------------------------------------------------------------
TypeOK ==
  /\ mode \in [Items -> Modes]
  /\ itemStatus \in [Items -> {"none", "in_stock", "sold", "archived"}]
  /\ stock \in [Items -> Nat] /\ total \in [Items -> Nat]
  /\ opening \in [Items -> Nat] /\ sold \in [Items -> Nat]
  /\ active \in BOOLEAN /\ next \in Nat \ {0} /\ shopTotal \in Nat
  /\ sales \subseteq [key : Keys, seq : Nat \ {0}]
  /\ result \in [Keys -> Carts \cup {None}]
  /\ op \in [Requests -> {"none", "sale", "create", "import", "update",
                          "delete", "clear"}]
  /\ pc \in [Requests -> {"idle", "begun", "locking", "numbered", "counted"}]
  /\ key \in [Requests -> Keys \cup {None}]
  /\ cart \in [Requests -> Carts \cup {None}]
  /\ edit \in [Requests -> Entries \cup {None}]
  /\ wants \in [Requests -> SUBSET Items]
  /\ waiting \in [Requests -> Items \cup {None}]
  /\ seenNext \in [Requests -> Nat \ {0}] /\ seenTotal \in [Requests -> Nat]
  /\ seq \in [Requests -> Nat]
  /\ itemLock \in [Items -> Requests \cup {None}]
  /\ shopLock \in Requests \cup {None}
  /\ arrivals \in 0..MaxArrivals

\* Weight is conserved: what is gone from a weighted row is what it was imported
\* without plus the grams on its sale lines, through any interleaving of sales,
\* edits of the total, mode changes and archiving (reconcile_remaining_weight).
WeightLedger ==
  \A i \in Items :
    itemStatus[i] # "none" /\ mode[i] = "weight" =>
      total[i] = stock[i] + opening[i] + sold[i]

\* A purchase is sold once: however often and however concurrently a checkout
\* is repeated with its idempotency key, one sale carries the key.
SoldOnce == \A x, y \in sales : x.key = y.key => x = y

\* A numbered checkout meets no unique constraint when it commits: neither its
\* key (uq on shop and idempotency_key) nor its number (uq_sales_shop_invoice)
\* has been taken, though it started from a stale copy of the sequence.
CommitCannotCollide ==
  \A r \in Requests :
    pc[r] = "numbered" => result[key[r]] = None /\ seq[r] \notin Numbers

\* Invoice numbers have no gap and none is used twice: rolled-back and
\* concurrent checkouts leave exactly 1 .. next_invoice_sequence - 1 in use.
InvoiceNumbersGapless == Numbers = 1..(next - 1)

\* The plan's limit on active inventory records is never exceeded, whatever
\* creations, imports and edits race ("Item activation locks the shop before
\* counting").
ActiveItemsWithinLimit == Cardinality(ActiveItems) <= ItemLimit

\* A row that is sold or archived stays so with its stock: no sale that locked
\* it late, no edit and no clear-out brings it back or sells from it.
GoneStaysGone ==
  [][\A i \in Items :
       itemStatus[i] \in {"sold", "archived"} =>
         itemStatus'[i] = itemStatus[i] /\ stock'[i] = stock[i]]_vars

\* Every request ends, deadlocks between multi-row lockers included.
EveryRequestEnds == \A r \in Requests : Open(r) ~> ~Open(r)

\* total_sales_amount is the sum of the shop's sales, as its migration defined it.
TotalIsSumOfSales == shopTotal = Cardinality(sales)
=============================================================================
