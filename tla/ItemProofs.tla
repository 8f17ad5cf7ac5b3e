----------------------------- MODULE ItemProofs -----------------------------
(***************************************************************************)
(* Proofs about the items of a shop: how requests at the same time share   *)
(* them (Checkout), and what one row may say and what it costs             *)
(* (ItemCatalogue).                                                        *)
(*                                                                         *)
(* Checkout: weight is conserved, a purchase is sold once, a commit meets  *)
(* no unique constraint, invoice numbers have no gap, the active records   *)
(* stay within the limit, and what is gone from stock stays gone.          *)
(*                                                                         *)
(* ItemCatalogue: what the validators accept fits the table.  Normalize is *)
(* followed through its two halves, Valid of its result gives every CHECK  *)
(* constraint, and rounding to the columns keeps it; an edit merges a row  *)
(* that was valid before with what it asks, and the fields it leaves       *)
(* unwritten are those normalization would not have changed.  A price: the *)
(* Decimals of pricing.py and the SQL of the dashboard are the same        *)
(* product, rounded at different places.  A file: a row's line reads back  *)
(* as the row, and lines and rows are one to one.                          *)
(***************************************************************************)
EXTENDS Checkout, ItemCatalogue, FiniteSetTheorems, TLAPS

-----------------------------------------------------------------------------
(* Checkout.                                                                *)

\* What an open request carries.
RequestOK ==
  \A r \in Requests :
    /\ pc[r] \in {"begun", "numbered"} => op[r] = "sale"
    /\ pc[r] = "counted" => op[r] \in {"create", "import", "update"}
    /\ op[r] = "sale" => key[r] \in Keys /\ cart[r] \in Carts
    /\ op[r] \in {"create", "import", "update"} => edit[r] \in Entries
    /\ op[r] \in {"create", "import"} => edit[r].stock <= edit[r].total
    /\ op[r] = "create" => edit[r].count = 1
    /\ op[r] = "update" => edit[r].item \in Items

\* What the row locks protect: the rows of a numbered sale still suffice, and
\* the row of an edit may still be edited.
LockOK ==
  \A r \in Requests :
    /\ pc[r] = "numbered" => shopLock = r /\ CanSell(r)
    /\ pc[r] = "counted" => shopLock = r
    /\ pc[r] = "counted" /\ op[r] = "update" =>
         itemLock[edit[r].item] = r /\ Editable(edit[r])
    /\ pc[r] = "locking" /\ op[r] = "update" =>
         edit[r].item \in wants[r] \/ itemLock[edit[r].item] = r

\* Checkouts past their lookup have different keys, none of them known.
KeyOK ==
  /\ \A q, r \in Requests :
       op[q] = "sale" /\ op[r] = "sale"
         /\ pc[q] \in {"locking", "numbered"} /\ pc[r] \in {"locking", "numbered"}
         /\ key[q] = key[r] => q = r
  /\ \A r \in Requests :
       op[r] = "sale" /\ pc[r] \in {"locking", "numbered"} => result[key[r]] = None
  /\ \A x \in sales : result[x.key] # None

\* A copy of the sequence is never ahead, and a number taken under the shop's
\* lock is the next one.
NumberOK ==
  /\ Numbers = 1..(next - 1)
  /\ \A r \in Requests : seenNext[r] <= next
  /\ \A r \in Requests : pc[r] = "numbered" => seq[r] = next

\* A row that is not there has sold nothing.
StockOK ==
  /\ WeightLedger
  /\ \A i \in Items : itemStatus[i] = "none" => sold[i] = 0

Typed == TypeOK /\ RequestOK /\ LockOK
IInv == Typed /\ KeyOK /\ SoldOnce /\ NumberOK /\ StockOK

-----------------------------------------------------------------------------
LEMMA TypedStep == TypeOK /\ RequestOK /\ LockOK /\ NumberOK /\ [Next]_vars => TypeOK' /\ RequestOK'
<1> SUFFICES ASSUME TypeOK, RequestOK, LockOK, NumberOK, [Next]_vars PROVE TypeOK' /\ RequestOK'
  OBVIOUS
<1> USE ConstantsAssumption
    DEF TypeOK, RequestOK,
        itemVars, shopVars, saleVars, inputVars, waitVars, lockVars, Available, Modes
<1>1. ASSUME NEW r \in Requests, NEW k \in Keys, NEW c \in Carts, BeginSale(r, k, c)
      PROVE  TypeOK' /\ RequestOK'
  BY <1>1 DEF BeginSale, Begin
<1>2. ASSUME NEW r \in Requests, NEW e \in Entries, BeginEntry(r, "create", e)
      PROVE  TypeOK' /\ RequestOK'
  BY <1>2 DEF BeginEntry, Begin
<1>3. ASSUME NEW r \in Requests, NEW e \in Entries, BeginEntry(r, "import", e)
      PROVE  TypeOK' /\ RequestOK'
  BY <1>3 DEF BeginEntry, Begin
<1>4. ASSUME NEW r \in Requests, NEW e \in Entries, BeginUpdate(r, e)
      PROVE  TypeOK' /\ RequestOK'
  BY <1>4 DEF BeginUpdate, Begin
<1>5. ASSUME NEW r \in Requests, NEW chosen \in SUBSET Items, BeginDelete(r, chosen)
      PROVE  TypeOK' /\ RequestOK'
  BY <1>5 DEF BeginDelete, Begin
<1>6. ASSUME NEW r \in Requests, BeginClear(r)
      PROVE  TypeOK' /\ RequestOK'
  BY <1>6 DEF BeginClear, Begin
<1>7. ASSUME NEW r \in Requests, Lookup(r)
      PROVE  TypeOK' /\ RequestOK'
  <2>1. CASE result[key[r]] # None
    <3>1. Finish(r) /\ UNCHANGED <<itemVars, shopVars, saleVars>>
      BY <1>7, <2>1 DEF Lookup, LookupBody
    <3> QED
      BY <3>1 DEF Finish
  <2>2. CASE result[key[r]] = None
    <3>1. /\ op[r] = "sale" /\ KeyFree(key[r])
          /\ pc' = [pc EXCEPT ![r] = "locking"]
          /\ wants' = [wants EXCEPT
                         ![r] = {i \in Lines(cart[r]) : itemStatus[i] # "none"}]
          /\ UNCHANGED <<inputVars, waiting, seq, lockVars, itemVars, shopVars, saleVars,
                         arrivals>>
      BY <1>7, <2>2 DEF Lookup, LookupBody
    <3> QED
      BY <2>2, <3>1 DEF KeyFree, Lines
  <2> QED
    BY <2>1, <2>2
<1>8. ASSUME NEW r \in Requests, NEW i \in Items, LockItem(r, i)
      PROVE  TypeOK' /\ RequestOK'
  BY <1>8 DEF LockItem
<1>9. ASSUME NEW r \in Requests, NEW i \in Items, AwaitItem(r, i)
      PROVE  TypeOK' /\ RequestOK'
  BY <1>9 DEF AwaitItem
<1>10. ASSUME NEW r \in Requests, NumberSale(r)
      PROVE  TypeOK' /\ RequestOK'
  BY <1>10 DEF NumberSale, AllLocked, FirstFree
<1>11. ASSUME NEW r \in Requests, CommitSale(r)
      PROVE  TypeOK' /\ RequestOK'
  <2>1. cart[r] \in Carts /\ key[r] \in Keys /\ seq[r] \in Nat
    BY <1>11 DEF CommitSale
  <2>2. \A i \in Items : cart[r][i].amount \in Nat
    BY <2>1
  <2>3. \A i \in Items : cart[r][i].amount <= stock[i]
    BY <1>11, <2>2 DEF CommitSale, LockOK, CanSell, Lines, Held
  <2>4. stock' \in [Items -> Nat] /\ sold' \in [Items -> Nat]
          /\ itemStatus' \in [Items -> {"none", "in_stock", "sold", "archived"}]
    BY <1>11, <2>2, <2>3 DEF CommitSale, SellLines, Lines
  <2>5. seq[r] # 0
    BY <1>11 DEF CommitSale, LockOK, NumberOK
  <2>6. /\ next' \in Nat \ {0} /\ shopTotal' \in Nat
        /\ sales' \subseteq [key : Keys, seq : Nat \ {0}]
        /\ result' \in [Keys -> Carts \cup {None}]
    BY <1>11, <2>1, <2>5 DEF CommitSale
  <2>7. RequestOK'
    BY <1>11 DEF CommitSale, Finish
  <2> QED
    BY <1>11, <2>4, <2>6, <2>7 DEF CommitSale, SellLines, Finish
<1>12. ASSUME NEW r \in Requests, Activate(r)
      PROVE  TypeOK' /\ RequestOK'
  BY <1>12 DEF Activate, Allowed, AllLocked
<1>13. ASSUME NEW r \in Requests, CommitEntry(r)
      PROVE  TypeOK' /\ RequestOK'
  BY <1>13 DEF CommitEntry, MayWrite, Allowed, AllLocked, Finish
<1>14. ASSUME NEW r \in Requests, CommitUpdate(r)
      PROVE  TypeOK' /\ RequestOK'
  BY <1>14 DEF CommitUpdate, MayWrite, Allowed, AllLocked, Remaining, Consumed, Finish, LockOK,
     Editable
<1>15. ASSUME NEW r \in Requests, CommitDelete(r)
      PROVE  TypeOK' /\ RequestOK'
  BY <1>15 DEF CommitDelete, AllLocked, Archive, Finish
<1>16. ASSUME NEW r \in Requests, CommitClear(r)
      PROVE  TypeOK' /\ RequestOK'
  BY <1>16 DEF CommitClear, AllLocked, Archive, Finish
<1>17. ASSUME NEW r \in Requests, Rollback(r)
      PROVE  TypeOK' /\ RequestOK'
  BY <1>17 DEF Rollback, Open, Finish
<1>18. CASE Deactivate
  BY <1>18 DEF Deactivate
<1>19. CASE UNCHANGED vars
  BY <1>19 DEF vars
<1> HIDE DEF TypeOK, RequestOK,
             itemVars, shopVars, saleVars, inputVars, waitVars, lockVars, Available, Modes
<1> QED
  BY <1>1, <1>2, <1>3, <1>4, <1>5, <1>6, <1>7, <1>8, <1>9, <1>10, <1>11, <1>12, <1>13,
     <1>14, <1>15, <1>16, <1>17, <1>18, <1>19
  DEF Next, Arrive, Progress

LEMMA LockStep == TypeOK /\ RequestOK /\ LockOK /\ [Next]_vars => LockOK'
<1> SUFFICES ASSUME TypeOK, RequestOK, LockOK, [Next]_vars PROVE LockOK'
  OBVIOUS
<1> USE ConstantsAssumption
    DEF TypeOK, RequestOK, LockOK, CanSell, Editable, Consumed, Lines, Held,
        itemVars, shopVars, saleVars, inputVars, waitVars, lockVars, Available, Modes
<1>1. ASSUME NEW r \in Requests, NEW k \in Keys, NEW c \in Carts, BeginSale(r, k, c)
      PROVE  LockOK'
  BY <1>1 DEF BeginSale, Begin
<1>2. ASSUME NEW r \in Requests, NEW e \in Entries, BeginEntry(r, "create", e)
      PROVE  LockOK'
  BY <1>2 DEF BeginEntry, Begin
<1>3. ASSUME NEW r \in Requests, NEW e \in Entries, BeginEntry(r, "import", e)
      PROVE  LockOK'
  BY <1>3 DEF BeginEntry, Begin
<1>4. ASSUME NEW r \in Requests, NEW e \in Entries, BeginUpdate(r, e)
      PROVE  LockOK'
  BY <1>4 DEF BeginUpdate, Begin
<1>5. ASSUME NEW r \in Requests, NEW chosen \in SUBSET Items, BeginDelete(r, chosen)
      PROVE  LockOK'
  BY <1>5 DEF BeginDelete, Begin
<1>6. ASSUME NEW r \in Requests, BeginClear(r)
      PROVE  LockOK'
  BY <1>6 DEF BeginClear, Begin
<1>7. ASSUME NEW r \in Requests, Lookup(r)
      PROVE  LockOK'
  <2>1. CASE result[key[r]] # None
    <3>1. Finish(r) /\ UNCHANGED <<itemVars, shopVars, saleVars>>
      BY <1>7, <2>1 DEF Lookup, LookupBody
    <3> QED
      BY <3>1 DEF Finish
  <2>2. CASE result[key[r]] = None
    <3>1. /\ op[r] = "sale"
          /\ pc' = [pc EXCEPT ![r] = "locking"]
          /\ wants' = [wants EXCEPT
                         ![r] = {i \in Lines(cart[r]) : itemStatus[i] # "none"}]
          /\ UNCHANGED <<inputVars, waiting, seq, lockVars, itemVars, shopVars, saleVars,
                         arrivals>>
      BY <1>7, <2>2 DEF Lookup, LookupBody
    <3> QED
      BY <3>1
  <2> QED
    BY <2>1, <2>2
<1>8. ASSUME NEW r \in Requests, NEW i \in Items, LockItem(r, i)
      PROVE  LockOK'
  BY <1>8 DEF LockItem
<1>9. ASSUME NEW r \in Requests, NEW i \in Items, AwaitItem(r, i)
      PROVE  LockOK'
  BY <1>9 DEF AwaitItem
<1>10. ASSUME NEW r \in Requests, NumberSale(r)
      PROVE  LockOK'
  BY <1>10 DEF NumberSale, AllLocked, FirstFree
<1>11. ASSUME NEW r \in Requests, CommitSale(r)
      PROVE  LockOK'
  BY <1>11 DEF CommitSale, SellLines, Finish
<1>12. ASSUME NEW r \in Requests, Activate(r)
      PROVE  LockOK'
  BY <1>12 DEF Activate, Allowed, AllLocked
<1>13. ASSUME NEW r \in Requests, CommitEntry(r)
      PROVE  LockOK'
  BY <1>13 DEF CommitEntry, MayWrite, Allowed, AllLocked, Finish
<1>14. ASSUME NEW r \in Requests, CommitUpdate(r)
      PROVE  LockOK'
  <2>1. op[r] = "update" /\ itemLock[edit[r].item] = r
    BY <1>14 DEF CommitUpdate, MayWrite, Allowed, AllLocked
  <2>2. /\ \A i \in Items : i # edit[r].item =>
             /\ mode'[i] = mode[i] /\ stock'[i] = stock[i] /\ total'[i] = total[i]
             /\ itemStatus'[i] = itemStatus[i] /\ sold'[i] = sold[i]
        /\ Finish(r)
    BY <1>14, <2>1 DEF CommitUpdate
  <2>3. ASSUME NEW q \in Requests, q # r
        PROVE  /\ \A i \in Items : itemLock[i] = q => i # edit[r].item /\ itemLock'[i] = q
               /\ op'[q] = op[q] /\ pc'[q] = pc[q] /\ cart'[q] = cart[q]
               /\ edit'[q] = edit[q] /\ wants'[q] = wants[q]
               /\ shopLock = q => shopLock' = q
    BY <2>1, <2>2, <2>3 DEF Finish
  <2>4. pc'[r] = "idle"
    BY <2>2 DEF Finish
  <2> QED
    BY <2>2, <2>3, <2>4
<1>15. ASSUME NEW r \in Requests, CommitDelete(r)
      PROVE  LockOK'
  BY <1>15 DEF CommitDelete, AllLocked, Archive, Finish
<1>16. ASSUME NEW r \in Requests, CommitClear(r)
      PROVE  LockOK'
  BY <1>16 DEF CommitClear, AllLocked, Archive, Finish
<1>17. ASSUME NEW r \in Requests, Rollback(r)
      PROVE  LockOK'
  BY <1>17 DEF Rollback, Open, Finish
<1>18. CASE Deactivate
  BY <1>18 DEF Deactivate
<1>19. CASE UNCHANGED vars
  BY <1>19 DEF vars
<1> HIDE DEF TypeOK, RequestOK, LockOK, CanSell, Editable, Consumed, Lines, Held,
             itemVars, shopVars, saleVars, inputVars, waitVars, lockVars, Available, Modes
<1> QED
  BY <1>1, <1>2, <1>3, <1>4, <1>5, <1>6, <1>7, <1>8, <1>9, <1>10, <1>11, <1>12, <1>13,
     <1>14, <1>15, <1>16, <1>17, <1>18, <1>19
  DEF Next, Arrive, Progress

LEMMA KeyStep ==
  TypeOK /\ RequestOK /\ LockOK /\ KeyOK /\ SoldOnce /\ [Next]_vars => KeyOK' /\ SoldOnce'
<1> SUFFICES ASSUME TypeOK, RequestOK, LockOK, KeyOK, SoldOnce, [Next]_vars
             PROVE  KeyOK' /\ SoldOnce'
  OBVIOUS
<1> USE ConstantsAssumption
    DEF TypeOK, RequestOK, KeyOK, SoldOnce,
        itemVars, shopVars, saleVars, inputVars, waitVars, lockVars, Available, Modes
<1>1. ASSUME NEW r \in Requests, NEW k \in Keys, NEW c \in Carts, BeginSale(r, k, c)
      PROVE  KeyOK' /\ SoldOnce'
  BY <1>1 DEF BeginSale, Begin
<1>2. ASSUME NEW r \in Requests, NEW e \in Entries, BeginEntry(r, "create", e)
      PROVE  KeyOK' /\ SoldOnce'
  BY <1>2 DEF BeginEntry, Begin
<1>3. ASSUME NEW r \in Requests, NEW e \in Entries, BeginEntry(r, "import", e)
      PROVE  KeyOK' /\ SoldOnce'
  BY <1>3 DEF BeginEntry, Begin
<1>4. ASSUME NEW r \in Requests, NEW e \in Entries, BeginUpdate(r, e)
      PROVE  KeyOK' /\ SoldOnce'
  BY <1>4 DEF BeginUpdate, Begin
<1>5. ASSUME NEW r \in Requests, NEW chosen \in SUBSET Items, BeginDelete(r, chosen)
      PROVE  KeyOK' /\ SoldOnce'
  BY <1>5 DEF BeginDelete, Begin
<1>6. ASSUME NEW r \in Requests, BeginClear(r)
      PROVE  KeyOK' /\ SoldOnce'
  BY <1>6 DEF BeginClear, Begin
<1>7. ASSUME NEW r \in Requests, Lookup(r)
      PROVE  KeyOK' /\ SoldOnce'
  <2>1. CASE result[key[r]] # None
    <3>1. Finish(r) /\ UNCHANGED <<itemVars, shopVars, saleVars>>
      BY <1>7, <2>1 DEF Lookup, LookupBody
    <3> QED
      BY <3>1 DEF Finish
  <2>2. CASE result[key[r]] = None
    <3>1. /\ op[r] = "sale" /\ KeyFree(key[r])
          /\ pc' = [pc EXCEPT ![r] = "locking"]
          /\ wants' = [wants EXCEPT
                         ![r] = {i \in Lines(cart[r]) : itemStatus[i] # "none"}]
          /\ UNCHANGED <<inputVars, waiting, seq, lockVars, itemVars, shopVars, saleVars,
                         arrivals>>
      BY <1>7, <2>2 DEF Lookup, LookupBody
    <3> QED
      BY <2>2, <3>1 DEF KeyFree, Lines
  <2> QED
    BY <2>1, <2>2
<1>8. ASSUME NEW r \in Requests, NEW i \in Items, LockItem(r, i)
      PROVE  KeyOK' /\ SoldOnce'
  BY <1>8 DEF LockItem
<1>9. ASSUME NEW r \in Requests, NEW i \in Items, AwaitItem(r, i)
      PROVE  KeyOK' /\ SoldOnce'
  BY <1>9 DEF AwaitItem
<1>10. ASSUME NEW r \in Requests, NumberSale(r)
      PROVE  KeyOK' /\ SoldOnce'
  BY <1>10 DEF NumberSale, AllLocked, FirstFree
<1>11. ASSUME NEW r \in Requests, CommitSale(r)
      PROVE  KeyOK' /\ SoldOnce'
  BY <1>11 DEF CommitSale, SellLines, Finish
<1>12. ASSUME NEW r \in Requests, Activate(r)
      PROVE  KeyOK' /\ SoldOnce'
  BY <1>12 DEF Activate, Allowed, AllLocked
<1>13. ASSUME NEW r \in Requests, CommitEntry(r)
      PROVE  KeyOK' /\ SoldOnce'
  BY <1>13 DEF CommitEntry, MayWrite, Allowed, AllLocked, Finish
<1>14. ASSUME NEW r \in Requests, CommitUpdate(r)
      PROVE  KeyOK' /\ SoldOnce'
  BY <1>14 DEF CommitUpdate, MayWrite, Allowed, AllLocked, Remaining, Consumed, Finish
<1>15. ASSUME NEW r \in Requests, CommitDelete(r)
      PROVE  KeyOK' /\ SoldOnce'
  BY <1>15 DEF CommitDelete, AllLocked, Archive, Finish
<1>16. ASSUME NEW r \in Requests, CommitClear(r)
      PROVE  KeyOK' /\ SoldOnce'
  BY <1>16 DEF CommitClear, AllLocked, Archive, Finish
<1>17. ASSUME NEW r \in Requests, Rollback(r)
      PROVE  KeyOK' /\ SoldOnce'
  BY <1>17 DEF Rollback, Open, Finish
<1>18. CASE Deactivate
  BY <1>18 DEF Deactivate
<1>19. CASE UNCHANGED vars
  BY <1>19 DEF vars
<1> HIDE DEF TypeOK, RequestOK, KeyOK, SoldOnce,
             itemVars, shopVars, saleVars, inputVars, waitVars, lockVars, Available, Modes
<1> QED
  BY <1>1, <1>2, <1>3, <1>4, <1>5, <1>6, <1>7, <1>8, <1>9, <1>10, <1>11, <1>12, <1>13,
     <1>14, <1>15, <1>16, <1>17, <1>18, <1>19
  DEF Next, Arrive, Progress

LEMMA NumberStep == TypeOK /\ RequestOK /\ LockOK /\ NumberOK /\ [Next]_vars => NumberOK'
<1> SUFFICES ASSUME TypeOK, RequestOK, LockOK, NumberOK, [Next]_vars PROVE NumberOK'
  OBVIOUS
<1> USE ConstantsAssumption
    DEF TypeOK, RequestOK, LockOK, NumberOK,
        itemVars, shopVars, saleVars, inputVars, waitVars, lockVars, Available, Modes
<1>1. ASSUME NEW r \in Requests, NEW k \in Keys, NEW c \in Carts, BeginSale(r, k, c)
      PROVE  NumberOK'
  BY <1>1 DEF BeginSale, Begin, Numbers
<1>2. ASSUME NEW r \in Requests, NEW e \in Entries, BeginEntry(r, "create", e)
      PROVE  NumberOK'
  BY <1>2 DEF BeginEntry, Begin, Numbers
<1>3. ASSUME NEW r \in Requests, NEW e \in Entries, BeginEntry(r, "import", e)
      PROVE  NumberOK'
  BY <1>3 DEF BeginEntry, Begin, Numbers
<1>4. ASSUME NEW r \in Requests, NEW e \in Entries, BeginUpdate(r, e)
      PROVE  NumberOK'
  BY <1>4 DEF BeginUpdate, Begin, Numbers
<1>5. ASSUME NEW r \in Requests, NEW chosen \in SUBSET Items, BeginDelete(r, chosen)
      PROVE  NumberOK'
  BY <1>5 DEF BeginDelete, Begin, Numbers
<1>6. ASSUME NEW r \in Requests, BeginClear(r)
      PROVE  NumberOK'
  BY <1>6 DEF BeginClear, Begin, Numbers
<1>7. ASSUME NEW r \in Requests, Lookup(r)
      PROVE  NumberOK'
  <2>1. CASE result[key[r]] # None
    <3>1. Finish(r) /\ UNCHANGED <<itemVars, shopVars, saleVars>>
      BY <1>7, <2>1 DEF Lookup, LookupBody
    <3> QED
      BY <3>1 DEF Finish, Numbers
  <2>2. CASE result[key[r]] = None
    <3>1. /\ op[r] = "sale" /\ KeyFree(key[r])
          /\ pc' = [pc EXCEPT ![r] = "locking"]
          /\ wants' = [wants EXCEPT
                         ![r] = {i \in Lines(cart[r]) : itemStatus[i] # "none"}]
          /\ UNCHANGED <<inputVars, waiting, seq, lockVars, itemVars, shopVars, saleVars,
                         arrivals>>
      BY <1>7, <2>2 DEF Lookup, LookupBody
    <3> QED
      BY <2>2, <3>1 DEF KeyFree, Lines, Numbers
  <2> QED
    BY <2>1, <2>2
<1>8. ASSUME NEW r \in Requests, NEW i \in Items, LockItem(r, i)
      PROVE  NumberOK'
  BY <1>8 DEF LockItem, Numbers
<1>9. ASSUME NEW r \in Requests, NEW i \in Items, AwaitItem(r, i)
      PROVE  NumberOK'
  BY <1>9 DEF AwaitItem, Numbers
<1>10. ASSUME NEW r \in Requests, NumberSale(r)
      PROVE  NumberOK'
  <2>1. PICK n \in seenNext[r]..(seenNext[r] + Cardinality(sales)) :
           FirstFree(seenNext[r], n) /\ seq' = [seq EXCEPT ![r] = n]
    BY <1>10 DEF NumberSale
  <2>2. n \in Int /\ n >= 1
    BY <2>1
  <2>3. n = next
    BY <2>1, <2>2 DEF FirstFree
  <2>4. UNCHANGED <<sales, next, seenNext>> /\ pc' = [pc EXCEPT ![r] = "numbered"]
    BY <1>10 DEF NumberSale
  <2>5. seq' = [seq EXCEPT ![r] = next]
    BY <2>1, <2>3
  <2> QED
    BY <2>4, <2>5 DEF Numbers
<1>11. ASSUME NEW r \in Requests, CommitSale(r)
      PROVE  NumberOK'
  <2>1. sales' = sales \cup {[key |-> key[r], seq |-> seq[r]]}
    BY <1>11 DEF CommitSale
  <2>2. Numbers' = Numbers \cup {seq[r]}
    <3> DEFINE new == [key |-> key[r], seq |-> seq[r]]
    <3>1. new.seq = seq[r] /\ sales' = sales \cup {new}
      BY <2>1
    <3>2. Numbers' = {x.seq : x \in sales'}
      BY DEF Numbers
    <3> HIDE DEF new
    <3>3. {x.seq : x \in sales \cup {new}} = {x.seq : x \in sales} \cup {new.seq}
      OBVIOUS
    <3> QED
      BY <3>1, <3>2, <3>3 DEF Numbers
  <2>3. seq[r] = next /\ next' = next + 1
    BY <1>11 DEF CommitSale
  <2>4. Numbers' = 1..(next' - 1)
    BY <2>2, <2>3
  <2>5. \A q \in Requests : q # r => pc[q] # "numbered"
    BY <1>11 DEF CommitSale, LockOK
  <2> QED
    BY <1>11, <2>3, <2>4, <2>5 DEF CommitSale, Finish
<1>12. ASSUME NEW r \in Requests, Activate(r)
      PROVE  NumberOK'
  BY <1>12 DEF Activate, Allowed, AllLocked, Numbers
<1>13. ASSUME NEW r \in Requests, CommitEntry(r)
      PROVE  NumberOK'
  BY <1>13 DEF CommitEntry, MayWrite, Allowed, AllLocked, Finish, Numbers
<1>14. ASSUME NEW r \in Requests, CommitUpdate(r)
      PROVE  NumberOK'
  BY <1>14 DEF CommitUpdate, MayWrite, Allowed, AllLocked, Remaining, Consumed, Finish, Numbers
<1>15. ASSUME NEW r \in Requests, CommitDelete(r)
      PROVE  NumberOK'
  BY <1>15 DEF CommitDelete, AllLocked, Archive, Finish, Numbers
<1>16. ASSUME NEW r \in Requests, CommitClear(r)
      PROVE  NumberOK'
  BY <1>16 DEF CommitClear, AllLocked, Archive, Finish, Numbers
<1>17. ASSUME NEW r \in Requests, Rollback(r)
      PROVE  NumberOK'
  BY <1>17 DEF Rollback, Open, Finish, Numbers
<1>18. CASE Deactivate
  BY <1>18 DEF Deactivate, Numbers
<1>19. CASE UNCHANGED vars
  BY <1>19 DEF vars, Numbers
<1> HIDE DEF TypeOK, RequestOK, LockOK, NumberOK,
             itemVars, shopVars, saleVars, inputVars, waitVars, lockVars, Available, Modes
<1> QED
  BY <1>1, <1>2, <1>3, <1>4, <1>5, <1>6, <1>7, <1>8, <1>9, <1>10, <1>11, <1>12, <1>13,
     <1>14, <1>15, <1>16, <1>17, <1>18, <1>19
  DEF Next, Arrive, Progress

LEMMA StockStep == TypeOK /\ RequestOK /\ LockOK /\ StockOK /\ [Next]_vars => StockOK'
<1> SUFFICES ASSUME TypeOK, RequestOK, LockOK, StockOK, [Next]_vars PROVE StockOK'
  OBVIOUS
<1> USE ConstantsAssumption
    DEF TypeOK, RequestOK, LockOK, StockOK, WeightLedger, CanSell, Editable, Consumed, Lines, Held,
        itemVars, shopVars, saleVars, inputVars, waitVars, lockVars, Available, Modes
<1>1. ASSUME NEW r \in Requests, NEW k \in Keys, NEW c \in Carts, BeginSale(r, k, c)
      PROVE  StockOK'
  BY <1>1 DEF BeginSale, Begin
<1>2. ASSUME NEW r \in Requests, NEW e \in Entries, BeginEntry(r, "create", e)
      PROVE  StockOK'
  BY <1>2 DEF BeginEntry, Begin
<1>3. ASSUME NEW r \in Requests, NEW e \in Entries, BeginEntry(r, "import", e)
      PROVE  StockOK'
  BY <1>3 DEF BeginEntry, Begin
<1>4. ASSUME NEW r \in Requests, NEW e \in Entries, BeginUpdate(r, e)
      PROVE  StockOK'
  BY <1>4 DEF BeginUpdate, Begin
<1>5. ASSUME NEW r \in Requests, NEW chosen \in SUBSET Items, BeginDelete(r, chosen)
      PROVE  StockOK'
  BY <1>5 DEF BeginDelete, Begin
<1>6. ASSUME NEW r \in Requests, BeginClear(r)
      PROVE  StockOK'
  BY <1>6 DEF BeginClear, Begin
<1>7. ASSUME NEW r \in Requests, Lookup(r)
      PROVE  StockOK'
  BY <1>7 DEF Lookup, LookupBody, KeyFree, Finish
<1>8. ASSUME NEW r \in Requests, NEW i \in Items, LockItem(r, i)
      PROVE  StockOK'
  BY <1>8 DEF LockItem
<1>9. ASSUME NEW r \in Requests, NEW i \in Items, AwaitItem(r, i)
      PROVE  StockOK'
  BY <1>9 DEF AwaitItem
<1>10. ASSUME NEW r \in Requests, NumberSale(r)
      PROVE  StockOK'
  BY <1>10 DEF NumberSale, AllLocked, FirstFree
<1>11. ASSUME NEW r \in Requests, CommitSale(r)
      PROVE  StockOK'
  BY <1>11 DEF CommitSale, SellLines, Finish
<1>12. ASSUME NEW r \in Requests, Activate(r)
      PROVE  StockOK'
  BY <1>12 DEF Activate, Allowed, AllLocked
<1>13. ASSUME NEW r \in Requests, CommitEntry(r)
      PROVE  StockOK'
  BY <1>13 DEF CommitEntry, MayWrite, Allowed, AllLocked, Finish
<1>14. ASSUME NEW r \in Requests, CommitUpdate(r)
      PROVE  StockOK'
  BY <1>14 DEF CommitUpdate, MayWrite, Allowed, AllLocked, Remaining, Consumed, Finish
<1>15. ASSUME NEW r \in Requests, CommitDelete(r)
      PROVE  StockOK'
  BY <1>15 DEF CommitDelete, AllLocked, Archive, Finish
<1>16. ASSUME NEW r \in Requests, CommitClear(r)
      PROVE  StockOK'
  BY <1>16 DEF CommitClear, AllLocked, Archive, Finish
<1>17. ASSUME NEW r \in Requests, Rollback(r)
      PROVE  StockOK'
  BY <1>17 DEF Rollback, Open, Finish
<1>18. CASE Deactivate
  BY <1>18 DEF Deactivate
<1>19. CASE UNCHANGED vars
  BY <1>19 DEF vars
<1> HIDE DEF TypeOK, RequestOK, LockOK, StockOK, WeightLedger, CanSell, Editable, Consumed,
             Lines, Held, itemVars, shopVars, saleVars, inputVars, waitVars, lockVars,
             Available, Modes
<1> QED
  BY <1>1, <1>2, <1>3, <1>4, <1>5, <1>6, <1>7, <1>8, <1>9, <1>10, <1>11, <1>12, <1>13,
     <1>14, <1>15, <1>16, <1>17, <1>18, <1>19
  DEF Next, Arrive, Progress

-----------------------------------------------------------------------------
LEMMA InitIInv == Init => IInv
<1> SUFFICES ASSUME Init PROVE IInv
  OBVIOUS
<1> USE ConstantsAssumption DEF Init
<1>1. TypeOK
  BY DEF TypeOK, Available, Modes
<1>2. RequestOK /\ LockOK
  BY DEF RequestOK, LockOK
<1>3. KeyOK /\ SoldOnce
  BY DEF KeyOK, SoldOnce
<1>4. NumberOK
  BY DEF NumberOK, Numbers
<1>5. StockOK
  BY <1>1 DEF StockOK, WeightLedger, TypeOK
<1> QED
  BY <1>1, <1>2, <1>3, <1>4, <1>5 DEF IInv, Typed

LEMMA IInvStep == IInv /\ [Next]_vars => IInv'
  BY TypedStep, LockStep, KeyStep, NumberStep, StockStep DEF IInv, Typed

LEMMA Invariance == Spec => []IInv
  BY InitIInv, IInvStep, PTL DEF Spec

-----------------------------------------------------------------------------
\* Stock never goes negative and every variable keeps its type, for any number
\* of items, requests and keys and any payloads.
THEOREM TypeCorrectness == Spec => []TypeOK
<1>1. IInv => TypeOK
  BY DEF IInv, Typed
<1> QED
  BY <1>1, Invariance, PTL

\* Weight is conserved by every interleaving of sales, edits, imports and archiving.
THEOREM WeightConserved == Spec => []WeightLedger
<1>1. IInv => WeightLedger
  BY DEF IInv, StockOK
<1> QED
  BY <1>1, Invariance, PTL

\* One sale per idempotency key.
THEOREM PurchaseSoldOnce == Spec => []SoldOnce
<1>1. IInv => SoldOnce
  BY DEF IInv
<1> QED
  BY <1>1, Invariance, PTL

\* A numbered checkout's key and invoice number are both still free.
THEOREM CommitsDoNotCollide == Spec => []CommitCannotCollide
<1>1. IInv => CommitCannotCollide
  <2> SUFFICES ASSUME IInv, NEW r \in Requests, pc[r] = "numbered"
               PROVE  result[key[r]] = None /\ seq[r] \notin Numbers
    BY DEF CommitCannotCollide
  <2>1. result[key[r]] = None
    BY DEF IInv, Typed, RequestOK, KeyOK
  <2>2. seq[r] = next /\ Numbers = 1..(next - 1) /\ next \in Nat
    BY DEF IInv, Typed, TypeOK, NumberOK
  <2> QED
    BY <2>1, <2>2
<1> QED
  BY <1>1, Invariance, PTL

\* The invoice numbers in use are exactly those below next_invoice_sequence.
THEOREM NumbersGapless == Spec => []InvoiceNumbersGapless
<1>1. IInv => InvoiceNumbersGapless
  BY DEF IInv, NumberOK, InvoiceNumbersGapless
<1> QED
  BY <1>1, Invariance, PTL

\* What is sold or archived stays gone, with its stock, at every step.
THEOREM GoneForGood == Spec => GoneStaysGone
<1> DEFINE Kept == \A i \in Items :
             itemStatus[i] \in {"sold", "archived"} =>
               itemStatus'[i] = itemStatus[i] /\ stock'[i] = stock[i]
<1>1. IInv /\ [Next]_vars => Kept
  <2> SUFFICES ASSUME IInv, [Next]_vars PROVE Kept
    OBVIOUS
  <2> USE ConstantsAssumption
      DEF IInv, Typed, TypeOK, RequestOK, LockOK, Available, itemVars
  <2>1. CASE UNCHANGED itemVars
    BY <2>1
  <2>2. ASSUME NEW r \in Requests, CommitSale(r) PROVE Kept
    <3>1. \A i \in Items : cart[r][i].amount \in Nat
      BY <2>2 DEF CommitSale
    <3>2. \A i \in Items : itemStatus[i] # "in_stock" => cart[r][i].amount = 0
      BY <2>2, <3>1 DEF CommitSale, CanSell, Lines
    <3>3. \A i \in Items : itemStatus[i] # "in_stock" =>
            itemStatus'[i] = itemStatus[i] /\ stock'[i] = stock[i] - 0
      BY <2>2, <3>1, <3>2 DEF CommitSale, SellLines, Lines
    <3> QED
      BY <3>3
  <2>3. ASSUME NEW r \in Requests, CommitEntry(r) PROVE Kept
    BY <2>3 DEF CommitEntry
  <2>4. ASSUME NEW r \in Requests, CommitUpdate(r) PROVE Kept
    BY <2>4 DEF CommitUpdate, MayWrite, Allowed, Editable
  <2>5. ASSUME NEW r \in Requests, CommitDelete(r) PROVE Kept
    BY <2>5 DEF CommitDelete, Archive, Held
  <2>6. ASSUME NEW r \in Requests, CommitClear(r) PROVE Kept
    BY <2>6 DEF CommitClear, Archive, Held
  <2>7. ASSUME NEW r \in Requests, Arrive(r) PROVE UNCHANGED itemVars
    BY <2>7 DEF Arrive, BeginSale, BeginEntry, BeginUpdate, BeginDelete, BeginClear, Begin
  <2>8. ASSUME NEW r \in Requests,
               \/ Lookup(r) \/ NumberSale(r) \/ Activate(r) \/ Rollback(r)
               \/ \E i \in Items : LockItem(r, i) \/ AwaitItem(r, i)
        PROVE  UNCHANGED itemVars
    BY <2>8 DEF Lookup, LookupBody, NumberSale, Activate, Rollback, LockItem, AwaitItem
  <2>9. CASE Deactivate
    BY <2>9 DEF Deactivate
  <2> QED
    BY <2>1, <2>2, <2>3, <2>4, <2>5, <2>6, <2>7, <2>8, <2>9 DEF Next, Progress, vars
<1> QED
  BY <1>1, Invariance, PTL DEF Spec, GoneStaysGone

-----------------------------------------------------------------------------
(* The limit on active records.                                             *)

\* The request that has counted under the shop's lock finds room for its records
\* still when it writes them.
CapacityOK ==
  /\ ActiveItemsWithinLimit
  /\ \A r \in Requests :
       pc[r] = "counted" => Cardinality(ActiveItems) + Slots(r) <= ItemLimit

LEMMA ActiveCount ==
  /\ ActiveItems \subseteq Items /\ ActiveItems' \subseteq Items
  /\ IsFiniteSet(ActiveItems) /\ IsFiniteSet(ActiveItems')
  /\ Cardinality(ActiveItems) \in Nat /\ Cardinality(ActiveItems') \in Nat
<1>1. ActiveItems \subseteq Items /\ ActiveItems' \subseteq Items
  BY DEF ActiveItems
<1>2. IsFiniteSet(ActiveItems) /\ IsFiniteSet(ActiveItems')
  BY <1>1, FS_Subset, ConstantsAssumption
<1> QED
  BY <1>1, <1>2, FS_CardinalityType

\* What a request asks for depends on its payload and, in an edit, on the item's row.
LEMMA SlotsType ==
  ASSUME TypeOK, RequestOK, NEW r \in Requests
  PROVE  Slots(r) \in Nat
<1>1. CASE op[r] = "import"
  <2>1. edit[r] \in Entries
    BY <1>1 DEF RequestOK
  <2>2. edit[r].count \in Nat
    BY <2>1, ConstantsAssumption
  <2> QED
    BY <1>1, <2>2 DEF Slots
<1>2. CASE op[r] # "import"
  BY <1>2 DEF Slots
<1> QED
  BY <1>1, <1>2

LEMMA SlotsStay ==
  ASSUME TypeOK, NEW r \in Requests,
         op'[r] = op[r], edit'[r] = edit[r],
         op[r] = "update" => /\ stock'[edit[r].item] = stock[edit[r].item]
                             /\ total'[edit[r].item] = total[edit[r].item]
                             /\ mode'[edit[r].item] = mode[edit[r].item]
  PROVE  Slots(r)' = Slots(r)
<1>1. CASE op[r] = "create"
  BY <1>1 DEF Slots
<1>2. CASE op[r] = "import"
  BY <1>2 DEF Slots
<1>3. CASE op[r] = "update"
  <2>1. Consumed(edit[r].item)' = Consumed(edit[r].item)
    BY <1>3 DEF Consumed
  <2>2. Remaining(edit[r])' = Remaining(edit[r])
    BY <2>1 DEF Remaining
  <2> QED
    BY <1>3, <2>2 DEF Slots
<1>4. CASE op[r] \notin {"create", "import", "update"}
  BY <1>4 DEF Slots
<1> QED
  BY <1>1, <1>2, <1>3, <1>4

\* No step changes what a request that has counted asks for: it holds the row.
LEMMA CountedStays ==
  ASSUME IInv, [Next]_vars, NEW r \in Requests, pc'[r] = "counted"
  PROVE  Slots(r)' = Slots(r) /\ (pc[r] = "counted" \/ Activate(r))
<1>0. TypeOK /\ RequestOK /\ LockOK
  BY DEF IInv, Typed
<1> DEFINE Kept == /\ op'[r] = op[r] /\ edit'[r] = edit[r]
                   /\ pc[r] = "counted" \/ Activate(r)
                   /\ op[r] = "update" =>
                        /\ stock'[edit[r].item] = stock[edit[r].item]
                        /\ total'[edit[r].item] = total[edit[r].item]
                        /\ mode'[edit[r].item] = mode[edit[r].item]
<1>a. pc[r] = "counted" /\ op[r] = "update" =>
        edit[r].item \in Items /\ itemLock[edit[r].item] = r /\ Available(edit[r].item)
  BY <1>0 DEF RequestOK, LockOK, Editable
<1>1. ASSUME UNCHANGED <<itemVars, op, edit, pc>>
      PROVE  Kept
  BY <1>1 DEF itemVars
<1>2. ASSUME NEW q \in Requests, Arrive(q)
      PROVE  Kept
  <2>1. UNCHANGED itemVars /\ q # r
    BY <1>0, <1>2 DEF Arrive, BeginSale, BeginEntry, BeginUpdate, BeginDelete, BeginClear,
       Begin, TypeOK
  <2>2. op'[r] = op[r] /\ edit'[r] = edit[r] /\ pc'[r] = pc[r]
    BY <1>0, <1>2, <2>1 DEF Arrive, BeginSale, BeginEntry, BeginUpdate, BeginDelete,
       BeginClear, Begin, TypeOK
  <2> QED
    BY <2>1, <2>2 DEF itemVars
<1>3. ASSUME NEW q \in Requests, Finish(q)
      PROVE  op'[r] = op[r] /\ edit'[r] = edit[r] /\ pc'[r] = pc[r] /\ q # r
  BY <1>0, <1>3 DEF Finish, TypeOK
<1>4. ASSUME NEW q \in Requests, Rollback(q) \/ Lookup(q)
      PROVE  Kept
  BY <1>0, <1>3, <1>4 DEF Rollback, Lookup, LookupBody, itemVars, inputVars, TypeOK
<1>5. ASSUME NEW q \in Requests, Activate(q) \/ NumberSale(q)
      PROVE  Kept
  BY <1>0, <1>5 DEF Activate, NumberSale, itemVars, inputVars, TypeOK
<1>6. ASSUME NEW q \in Requests, CommitSale(q)
      PROVE  Kept
  <2>1. q # r /\ op'[r] = op[r] /\ edit'[r] = edit[r] /\ pc[r] = "counted"
    BY <1>3, <1>6 DEF CommitSale
  <2>2. mode' = mode /\ total' = total /\ \A i \in Items : stock'[i] = stock[i] - cart[q][i].amount
    BY <1>6 DEF CommitSale, SellLines
  <2>3. ASSUME op[r] = "update"
        PROVE  stock'[edit[r].item] = stock[edit[r].item]
    <3>1. edit[r].item \notin Lines(cart[q])
      BY <1>0, <1>6, <1>a, <2>1, <2>3 DEF CommitSale, LockOK, CanSell, Held
    <3>2. cart[q] \in Carts
      BY <1>0, <1>6 DEF CommitSale, RequestOK
    <3>3. cart[q][edit[r].item].amount = 0
      BY <1>a, <2>1, <2>3, <3>1, <3>2, ConstantsAssumption DEF Lines
    <3>4. stock[edit[r].item] \in Nat
      BY <1>0, <1>a, <2>1, <2>3 DEF TypeOK
    <3> QED
      BY <1>a, <2>1, <2>2, <2>3, <3>3, <3>4
  <2> QED
    BY <2>1, <2>2, <2>3
<1>7. ASSUME NEW q \in Requests, CommitEntry(q)
      PROVE  Kept
  <2>1. op'[r] = op[r] /\ edit'[r] = edit[r] /\ pc[r] = "counted"
    BY <1>3, <1>7 DEF CommitEntry
  <2>2. \A i \in Items : itemStatus[i] # "none" =>
          stock'[i] = stock[i] /\ total'[i] = total[i] /\ mode'[i] = mode[i]
    BY <1>7 DEF CommitEntry
  <2> QED
    BY <1>a, <2>1, <2>2 DEF Available
<1>8. ASSUME NEW q \in Requests, CommitUpdate(q)
      PROVE  Kept
  <2>1. q # r /\ op'[r] = op[r] /\ edit'[r] = edit[r] /\ pc[r] = "counted"
    BY <1>3, <1>8 DEF CommitUpdate
  <2>2. itemLock[edit[q].item] = q
    BY <1>0, <1>8 DEF CommitUpdate, MayWrite, Allowed, AllLocked, LockOK
  <2>3. op[r] = "update" => edit[r].item # edit[q].item
    BY <1>a, <2>1, <2>2
  <2> QED
    BY <1>0, <1>8, <1>a, <2>1, <2>3 DEF CommitUpdate, TypeOK
<1>9. ASSUME NEW q \in Requests, CommitDelete(q) \/ CommitClear(q)
      PROVE  Kept
  <2>1. q # r /\ op'[r] = op[r] /\ edit'[r] = edit[r] /\ pc[r] = "counted"
    BY <1>3, <1>9 DEF CommitDelete, CommitClear
  <2>2. mode' = mode /\ total' = total
        /\ \A i \in Items : itemLock[i] # q => stock'[i] = stock[i]
    BY <1>0, <1>9 DEF CommitDelete, CommitClear, Archive, Held, TypeOK
  <2> QED
    BY <1>a, <2>1, <2>2
<1>10. Kept
  BY <1>1, <1>2, <1>4, <1>5, <1>6, <1>7, <1>8, <1>9 DEF Next, Progress, LockItem, AwaitItem,
     Deactivate, vars, inputVars
<1> QED
  BY <1>0, <1>10, SlotsStay

\* A step that leaves no more active records than there were.
LEMMA CapacityKept ==
  ASSUME IInv, [Next]_vars, CapacityOK, ActiveItems' \subseteq ActiveItems,
         \A r \in Requests : Activate(r) => ActiveItems' = ActiveItems
  PROVE  CapacityOK'
<1>0. TypeOK /\ RequestOK
  BY DEF IInv, Typed
<1>1. Cardinality(ActiveItems') <= Cardinality(ActiveItems)
  BY ActiveCount, FS_Subset
<1>2. ActiveItemsWithinLimit'
  BY <1>1, ActiveCount, ConstantsAssumption DEF CapacityOK, ActiveItemsWithinLimit
<1>3. ASSUME NEW r \in Requests, pc'[r] = "counted"
      PROVE  Cardinality(ActiveItems)' + Slots(r)' <= ItemLimit
  <2>1. Cardinality(ActiveItems) + Slots(r) <= ItemLimit
    BY <1>3, CountedStays DEF CapacityOK, Activate
  <2>2. Slots(r)' = Slots(r) /\ Slots(r) \in Nat
    BY <1>0, <1>3, CountedStays, SlotsType
  <2> QED
    BY <1>1, <2>1, <2>2, ActiveCount, ConstantsAssumption
<1> QED
  BY <1>2, <1>3 DEF CapacityOK

\* The step that writes the records a request has counted, and ends the request.
LEMMA CapacityUsed ==
  ASSUME IInv, [Next]_vars, CapacityOK, NEW r \in Requests, pc[r] = "counted",
         pc'[r] # "counted",
         Cardinality(ActiveItems') <= Cardinality(ActiveItems) + Slots(r)
  PROVE  CapacityOK'
<1>0. TypeOK /\ RequestOK /\ LockOK
  BY DEF IInv, Typed
<1>1. Cardinality(ActiveItems) + Slots(r) <= ItemLimit
  BY DEF CapacityOK
<1>2. Slots(r) \in Nat
  BY <1>0, SlotsType
<1>3. ActiveItemsWithinLimit'
  BY <1>1, <1>2, ActiveCount, ConstantsAssumption DEF ActiveItemsWithinLimit
<1>4. ASSUME NEW q \in Requests, pc'[q] = "counted"
      PROVE  FALSE
  <2>1. pc[q] = "counted" \/ Activate(q)
    BY <1>4, CountedStays
  <2>2. shopLock = r /\ r # None
    BY <1>0, ConstantsAssumption DEF LockOK
  <2>3. pc[q] = "counted"
    BY <2>1, <2>2 DEF Activate
  <2>4. q = r
    BY <1>0, <2>2, <2>3 DEF LockOK
  <2> QED
    BY <1>4, <2>4
<1> QED
  BY <1>3, <1>4 DEF CapacityOK

LEMMA CapacityStep == IInv /\ CapacityOK /\ [Next]_vars => CapacityOK'
<1> SUFFICES ASSUME IInv, CapacityOK, [Next]_vars PROVE CapacityOK'
  OBVIOUS
<1>0. TypeOK /\ RequestOK /\ LockOK
  BY DEF IInv, Typed
<1>1. ASSUME UNCHANGED itemVars
      PROVE  CapacityOK'
  <2>1. ActiveItems' = ActiveItems
    BY <1>1 DEF ActiveItems, Available, itemVars
  <2> QED
    BY <2>1, CapacityKept
<1>2. ASSUME NEW r \in Requests, CommitSale(r)
      PROVE  CapacityOK'
  <2>1. cart[r] \in Carts /\ Lines(cart[r]) \subseteq Items
    BY <1>0, <1>2 DEF CommitSale, RequestOK, Lines
  <2>2. \A i \in Items : cart[r][i].amount \in Nat
    BY <2>1, ConstantsAssumption
  <2>3. \A i \in Lines(cart[r]) : Available(i)
    BY <1>0, <1>2 DEF CommitSale, LockOK, CanSell
  <2>4. ActiveItems' \subseteq ActiveItems
    <3> SUFFICES ASSUME NEW i \in Items, itemStatus'[i] = "in_stock", stock'[i] > 0
                 PROVE  itemStatus[i] = "in_stock" /\ stock[i] > 0
      BY DEF ActiveItems, Available
    <3>1. itemStatus[i] = "in_stock"
      BY <1>2, <2>3 DEF CommitSale, SellLines, Available
    <3>2. stock'[i] = stock[i] - cart[r][i].amount /\ stock[i] \in Nat
      BY <1>0, <1>2 DEF CommitSale, SellLines, TypeOK
    <3> QED
      BY <2>2, <3>1, <3>2
  <2>5. \A q \in Requests : ~Activate(q)
    <3>1. shopLock = r /\ r # None
      BY <1>0, <1>2, ConstantsAssumption DEF CommitSale, LockOK
    <3> QED
      BY <3>1 DEF Activate
  <2> QED
    BY <2>4, <2>5, CapacityKept
<1>3. ASSUME NEW r \in Requests, CommitEntry(r) \/ CommitUpdate(r)
      PROVE  pc'[r] = "idle" /\ (pc[r] = "counted" \/ Slots(r) = 0)
  BY <1>0, <1>3 DEF CommitEntry, CommitUpdate, MayWrite, Finish, TypeOK
<1>4. ASSUME NEW r \in Requests, CommitEntry(r) \/ CommitUpdate(r) \/ CommitDelete(r)
                                   \/ CommitClear(r)
      PROVE  \A q \in Requests : ~Activate(q)
  <2>1. pc'[r] = "idle" /\ pc[r] # "idle"
    BY <1>0, <1>4 DEF CommitEntry, CommitUpdate, CommitDelete, CommitClear, MayWrite, Allowed,
       AllLocked, Finish, TypeOK
  <2>2. ASSUME NEW q \in Requests, Activate(q)
        PROVE  pc'[r] = pc[r] \/ pc'[r] = "counted"
    BY <1>0, <2>2 DEF Activate, TypeOK
  <2> QED
    BY <2>1, <2>2
<1>5. ASSUME NEW r \in Requests, CommitEntry(r)
      PROVE  CapacityOK'
  <2> DEFINE e == edit[r]
  <2>1. PICK new \in SUBSET {i \in Items : itemStatus[i] = "none"} :
          /\ Cardinality(new) = e.count
          /\ itemStatus' = [i \in Items |-> IF i \in new THEN "in_stock" ELSE itemStatus[i]]
          /\ stock' = [i \in Items |-> IF i \in new THEN e.stock ELSE stock[i]]
    BY <1>5 DEF CommitEntry
  <2>2. IsFiniteSet(new)
    BY <2>1, FS_Subset, ConstantsAssumption
  <2>3. ActiveItems' \subseteq ActiveItems \cup new
    BY <2>1 DEF ActiveItems, Available
  <2>4. e.stock = 0 => ActiveItems' \subseteq ActiveItems
    BY <2>1 DEF ActiveItems, Available
  <2>5. e \in Entries /\ op[r] \in {"create", "import"}
    BY <1>0, <1>5 DEF CommitEntry, RequestOK
  <2>6. e.stock \in Nat /\ e.count \in Nat
    BY <2>5, ConstantsAssumption
  <2>7. CASE Slots(r) = 0
    <3>1. ActiveItems' \subseteq ActiveItems
      <4>1. CASE op[r] = "create"
        BY <2>4, <2>6, <2>7, <4>1 DEF Slots
      <4>2. CASE op[r] = "import"
        <5>1. Cardinality(new) = 0
          BY <2>1, <2>7, <4>2 DEF Slots
        <5>2. new = {}
          BY <2>2, <5>1, FS_EmptySet
        <5> QED
          BY <2>3, <5>2
      <4> QED
        BY <2>5, <4>1, <4>2
    <3> QED
      BY <1>4, <1>5, <3>1, CapacityKept
  <2>8. CASE Slots(r) # 0
    <3>1. Slots(r) = Cardinality(new)
      BY <1>0, <2>1, <2>5, <2>8 DEF Slots, RequestOK
    <3>2. /\ IsFiniteSet(ActiveItems \cup new)
          /\ Cardinality(ActiveItems \cup new) <= Cardinality(ActiveItems) + Cardinality(new)
      <4>1. /\ IsFiniteSet(ActiveItems \cup new)
            /\ Cardinality(ActiveItems \cup new)
                 = Cardinality(ActiveItems) + Cardinality(new)
                   - Cardinality(ActiveItems \cap new)
        BY <2>2, ActiveCount, FS_Union
      <4>2. Cardinality(ActiveItems \cap new) \in Nat /\ Cardinality(new) \in Nat
        BY <2>2, FS_Subset, FS_CardinalityType
      <4> QED
        BY <4>1, <4>2, ActiveCount
    <3>3. Cardinality(ActiveItems') <= Cardinality(ActiveItems \cup new)
      BY <2>3, <3>2, FS_Subset
    <3>4. /\ Cardinality(ActiveItems') \in Nat /\ Cardinality(ActiveItems) \in Nat
          /\ Cardinality(ActiveItems \cup new) \in Nat /\ Slots(r) \in Nat
      BY <2>2, <3>1, <3>2, ActiveCount, FS_CardinalityType
    <3>5. Cardinality(ActiveItems') <= Cardinality(ActiveItems) + Slots(r)
      BY <3>1, <3>2, <3>3, <3>4
    <3>6. pc[r] = "counted" /\ pc'[r] = "idle"
      BY <1>3, <1>5, <2>8
    <3> QED
      BY <3>5, <3>6, CapacityUsed
  <2> QED
    BY <2>7, <2>8
<1>6. ASSUME NEW r \in Requests, CommitUpdate(r)
      PROVE  CapacityOK'
  <2> DEFINE i == edit[r].item
  <2>1. i \in Items /\ op[r] = "update"
    BY <1>0, <1>6 DEF CommitUpdate, RequestOK
  <2>2. itemStatus[i] = "in_stock"
    BY <1>0, <1>6 DEF CommitUpdate, MayWrite, Allowed, LockOK, Editable, Available
  <2>3. /\ stock'[i] = Remaining(edit[r])
        /\ \A j \in Items : j # i => stock'[j] = stock[j] /\ itemStatus'[j] = itemStatus[j]
    BY <1>0, <1>6, <2>1 DEF CommitUpdate, TypeOK
  <2>4. ActiveItems' \subseteq ActiveItems \cup {i}
    BY <2>1, <2>3 DEF ActiveItems, Available
  <2>5. stock[i] \in Nat /\ stock'[i] \in Nat
    <3>1. TypeOK'
      BY IInvStep DEF IInv, Typed
    <3> QED
      BY <1>0, <2>1, <3>1 DEF TypeOK
  <2>6. CASE Slots(r) = 0
    <3>1. stock[i] > 0 \/ ~(stock'[i] > 0)
      BY <2>1, <2>3, <2>5, <2>6 DEF Slots
    <3>2. ActiveItems' \subseteq ActiveItems
      BY <2>1, <2>2, <2>3, <3>1 DEF ActiveItems, Available
    <3> QED
      BY <1>4, <1>6, <3>2, CapacityKept
  <2>7. CASE Slots(r) # 0
    <3>1. Slots(r) = 1
      BY <2>1, <2>7 DEF Slots
    <3>2. /\ IsFiniteSet(ActiveItems \cup {i})
          /\ Cardinality(ActiveItems \cup {i}) \in {Cardinality(ActiveItems),
                                                    Cardinality(ActiveItems) + 1}
      BY ActiveCount, FS_AddElement
    <3>3. Cardinality(ActiveItems') <= Cardinality(ActiveItems \cup {i})
      BY <2>4, <3>2, FS_Subset
    <3>4. Cardinality(ActiveItems') <= Cardinality(ActiveItems) + Slots(r)
      BY <3>1, <3>2, <3>3, ActiveCount
    <3>5. pc[r] = "counted" /\ pc'[r] = "idle"
      BY <1>3, <1>6, <2>7
    <3> QED
      BY <3>4, <3>5, CapacityUsed
  <2> QED
    BY <2>6, <2>7
<1>7. ASSUME NEW r \in Requests, CommitDelete(r) \/ CommitClear(r)
      PROVE  CapacityOK'
  <2>1. ActiveItems' \subseteq ActiveItems
    BY <1>0, <1>7 DEF CommitDelete, CommitClear, Archive, ActiveItems, Available, TypeOK
  <2> QED
    BY <1>4, <1>7, <2>1, CapacityKept
<1>8. ASSUME NEW r \in Requests, Lookup(r)
      PROVE  UNCHANGED itemVars
  BY <1>8 DEF Lookup, LookupBody
<1>9. ASSUME NEW r \in Requests, Arrive(r)
      PROVE  UNCHANGED itemVars
  BY <1>9 DEF Arrive, BeginSale, BeginEntry, BeginUpdate, BeginDelete, BeginClear, Begin
<1>10. ASSUME NEW r \in Requests, NEW i \in Items, LockItem(r, i) \/ AwaitItem(r, i)
       PROVE  UNCHANGED itemVars
  BY <1>10 DEF LockItem, AwaitItem
<1>11. ASSUME NEW r \in Requests, NumberSale(r) \/ Activate(r) \/ Rollback(r)
       PROVE  UNCHANGED itemVars
  BY <1>11 DEF NumberSale, Activate, Rollback
<1>12. ASSUME Deactivate \/ UNCHANGED vars
       PROVE  UNCHANGED itemVars
  BY <1>12 DEF Deactivate, vars
<1> QED
  BY <1>1, <1>2, <1>5, <1>6, <1>7, <1>8, <1>9, <1>10, <1>11, <1>12 DEF Next, Progress

\* The plan's limit on active records holds whatever creations, imports and edits race:
\* enforce_item_activation_capacity counts under the shop's lock, sales and archiving
\* only make room, and the row of an edit is locked until it is written.
THEOREM LimitHolds == Spec => []ActiveItemsWithinLimit
<1>1. Init => CapacityOK
  BY DEF Init, CapacityOK, ActiveItemsWithinLimit
<1>2. CapacityOK => ActiveItemsWithinLimit
  BY DEF CapacityOK
<1> QED
  BY <1>1, <1>2, CapacityStep, Invariance, PTL DEF Spec

-----------------------------------------------------------------------------
(* ItemCatalogue: forms.                                                    *)

\* The forms as a set of records.
Forms ==
  [name : Texts, category : {"ring", "unique", "other"},
   item_type : {"jewellery", "stone"}, stock_mode : {"quantity", "weight"},
   pricing_method : Methods \cup {"none"}, metal : Metals,
   purity : Nat, net_weight : Nat, making_charge : Nat, fixed_rate : Optional,
   stock_weight : Optional, ratti : Optional, rate_per_ratti : Optional, quantity : Nat]

\* A form after normalization: it says how it is priced, and at what fixed rate.
Normal == {q \in Forms : q.pricing_method \in Methods /\ q.fixed_rate \in Nat}

-----------------------------------------------------------------------------
LEMMA FormIsRecord ==
  ASSUME NEW p, Form(p)
  PROVE  p \in Forms
<1>1. DOMAIN p = {"name", "category", "item_type", "stock_mode", "pricing_method", "metal",
                  "purity", "net_weight", "making_charge", "fixed_rate", "stock_weight",
                  "ratti", "rate_per_ratti", "quantity"}
  BY DEF Form, Fields
<1>2. p = [f \in DOMAIN p |-> p[f]]
  BY DEF Form, Partial
<1>3. \A f \in DOMAIN p : p[f] \in Fields[f]
  BY DEF Form, Partial
<1>4. /\ p.name \in Fields.name /\ p.category \in Fields.category
      /\ p.item_type \in Fields.item_type /\ p.stock_mode \in Fields.stock_mode
      /\ p.pricing_method \in Fields.pricing_method /\ p.metal \in Fields.metal
      /\ p.purity \in Fields.purity /\ p.net_weight \in Fields.net_weight
      /\ p.making_charge \in Fields.making_charge /\ p.fixed_rate \in Fields.fixed_rate
      /\ p.stock_weight \in Fields.stock_weight /\ p.ratti \in Fields.ratti
      /\ p.rate_per_ratti \in Fields.rate_per_ratti /\ p.quantity \in Fields.quantity
  BY <1>1, <1>3
<1>5. QED
  BY <1>1, <1>2, <1>4 DEF Fields, Forms

LEMMA FormDomain ==
  ASSUME NEW p \in Forms
  PROVE  /\ DOMAIN p = {"name", "category", "item_type", "stock_mode", "pricing_method",
                        "metal", "purity", "net_weight", "making_charge", "fixed_rate",
                        "stock_weight", "ratti", "rate_per_ratti", "quantity"}
         /\ DOMAIN p = DOMAIN Fields
  BY DEF Forms, Fields

LEMMA RecordIsForm ==
  ASSUME NEW p \in Forms
  PROVE  Form(p)
<1>1. \A f \in DOMAIN p : p[f] \in Fields[f]
  BY FormDomain DEF Forms, Fields
<1>2. p = [f \in DOMAIN p |-> p[f]]
  BY DEF Forms
<1>3. QED BY <1>1, <1>2, FormDomain DEF Form, Partial

-----------------------------------------------------------------------------
(* Rounding.                                                                *)

LEMMA DivisionBounds ==
  ASSUME NEW a \in Nat, NEW d \in Nat \ {0}
  PROVE  /\ a \div d \in Nat
         /\ d * (a \div d) <= a /\ a < d * (a \div d) + d
  OBVIOUS

LEMMA DivisionUnique ==
  ASSUME NEW a \in Nat, NEW d \in Nat \ {0}, NEW q \in Int, d * q <= a, a < d * q + d
  PROVE  a \div d = q
<1>1. a \div d \in Nat /\ d * (a \div d) <= a /\ a < d * (a \div d) + d
  BY DivisionBounds
<1>2. DEFINE e == a \div d
<1>3. e \in Int /\ d * e < d * q + d /\ d * q < d * e + d
  BY <1>1
<1>4. d * (e - q) < d /\ d * (q - e) < d
  BY <1>3
<1>5. e - q < 1 /\ q - e < 1
  BY <1>3, <1>4
<1>6. QED BY <1>3, <1>5

LEMMA StoredType ==
  ASSUME NEW x \in Optional, Fine \in Nat \ {0}
  PROVE  /\ Stored(x) \in Optional
         /\ x \in Nat => Stored(x) \in Nat
         /\ x = Null <=> Stored(x) = Null
         /\ x = 0 => Stored(x) = 0
  BY DivisionBounds DEF Stored, Optional, Null

\* A column keeps a number of its own precision.
LEMMA StoredSent ==
  ASSUME NEW x \in Optional, Fine \in Nat \ {0}
  PROVE  /\ Stored(Sent(x)) = x
         /\ Sent(x) \in Optional
         /\ x \in Nat => Sent(x) \in Nat
         /\ x = Null <=> Sent(x) = Null
<1>1. CASE x = Null
  BY <1>1 DEF Stored, Sent, Null, Optional
<1>2. CASE x \in Nat
  <2>1. x * Fine \in Nat
    BY <1>2
  <2>2. (2 * (x * Fine) + Fine) \div (2 * Fine) = x
    <3>1. /\ (2 * Fine) * x <= 2 * (x * Fine) + Fine
          /\ 2 * (x * Fine) + Fine < (2 * Fine) * x + 2 * Fine
      BY <1>2, <2>1
    <3>2. QED BY <1>2, <2>1, <3>1, DivisionUnique
  <2>3. QED BY <1>2, <2>1, <2>2 DEF Stored, Sent, Null, Optional
<1>3. QED BY <1>1, <1>2 DEF Optional

-----------------------------------------------------------------------------
(* Normalization.                                                           *)

\* A form with a name and a metal.
Filled(q) == q.name # "" /\ q.metal # ""

\* What a normalized form that passed validation says, in the terms of the table.
Sound(q) ==
  /\ q.purity \in 0..100 /\ Filled(q) /\ q.metal # "Stone"
  /\ \/ /\ q.item_type = "stone" /\ q.metal = "stone"
        /\ q.pricing_method = "rate_per_ratti" /\ q.stock_mode = "quantity"
        /\ q.purity = 0 /\ q.net_weight = 0 /\ q.making_charge = 0 /\ q.fixed_rate = 0
        /\ q.stock_weight = Null /\ q.ratti > 0 /\ q.rate_per_ratti > 0
     \/ /\ q.item_type = "jewellery" /\ q.metal # "stone"
        /\ q.pricing_method # "rate_per_ratti" /\ q.ratti = Null /\ q.rate_per_ratti = Null
  /\ \/ q.stock_mode = "quantity" /\ q.stock_weight = Null
     \/ /\ q.stock_mode = "weight" /\ q.item_type = "jewellery"
        /\ q.pricing_method # "fixed_rate" /\ q.net_weight > 0
        /\ q.stock_weight \in 0..q.net_weight
        /\ q.quantity = IF q.stock_weight > 0 THEN 1 ELSE 0
  /\ \/ q.item_type = "stone"
     \/ /\ q.pricing_method = "fixed_rate" /\ q.fixed_rate > 0
        /\ q.making_charge = 0 /\ q.stock_mode = "quantity"
     \/ /\ q.pricing_method \in {"fixed_making_charge", "making_charge_per_gram"}
        /\ q.fixed_rate = 0
        /\ q.stock_mode = "weight" \/ q.net_weight > 0

\* The fields the first half of normalization leaves alone.
SameButMethod(q, p) ==
  /\ q.name = p.name /\ q.category = p.category /\ q.item_type = p.item_type
  /\ q.stock_mode = p.stock_mode /\ q.ratti = p.ratti
  /\ q.rate_per_ratti = p.rate_per_ratti /\ q.quantity = p.quantity

LEMMA StoneFields ==
  ASSUME NEW q \in Forms
  PROVE  [q EXCEPT !.metal = "stone", !.purity = 0, !.net_weight = 0,
                   !.making_charge = 0, !.fixed_rate = 0, !.stock_weight = Null] \in Forms
  BY DEF Forms, Optional, Metals

LEMMA FixedRateFields ==
  ASSUME NEW q \in Forms, NEW rate \in Nat, NEW weight \in Nat
  PROVE  [q EXCEPT !.fixed_rate = rate, !.making_charge = 0, !.stock_weight = Null,
                   !.net_weight = weight] \in Forms
  BY DEF Forms, Optional

LEMMA MethodType ==
  ASSUME NEW p \in Forms
  PROVE  NormalizeMethod(p) \in Normal /\ SameButMethod(NormalizeMethod(p), p)
<1> DEFINE method == IF p.pricing_method # "none" THEN p.pricing_method
                     ELSE IF p.item_type = "stone" THEN "rate_per_ratti"
                     ELSE LegacyMethod(p.category)
           fixed == IF p.fixed_rate = Null THEN 0 ELSE p.fixed_rate
           q == [p EXCEPT !.pricing_method = method, !.fixed_rate = fixed]
<1>1. LegacyMethod(p.category) \in Methods
  BY DEF LegacyMethod, Methods
<1>2. method \in Methods /\ fixed \in Nat
  BY <1>1 DEF Forms, Methods, Optional
<1>3. q \in Forms /\ q.pricing_method = method /\ q.fixed_rate = fixed
      /\ SameButMethod(q, p) /\ q.making_charge = p.making_charge
  <2> HIDE DEF method, fixed
  <2>1. QED BY <1>2 DEF Forms, Optional, SameButMethod
<1>4. /\ p.item_type = "stone" =>
           NormalizeMethod(p) =
             [q EXCEPT !.metal = "stone", !.purity = 0, !.net_weight = 0,
                       !.making_charge = 0, !.fixed_rate = 0, !.stock_weight = Null]
      /\ p.item_type # "stone" /\ method = "fixed_rate" =>
           NormalizeMethod(p) =
             [q EXCEPT !.fixed_rate = IF p.fixed_rate = Null THEN p.making_charge ELSE @,
                       !.making_charge = 0, !.stock_weight = Null,
                       !.net_weight = IF p.pricing_method = "none" /\ p.category = "unique"
                                      THEN 0 ELSE @]
      /\ p.item_type # "stone" /\ method # "fixed_rate" =>
           NormalizeMethod(p) = [q EXCEPT !.fixed_rate = 0]
  BY DEF NormalizeMethod
<1> HIDE DEF q
<1>5. CASE p.item_type = "stone"
  <2>1. NormalizeMethod(p) =
          [q EXCEPT !.metal = "stone", !.purity = 0, !.net_weight = 0,
                    !.making_charge = 0, !.fixed_rate = 0, !.stock_weight = Null]
    BY <1>4, <1>5
  <2>2. NormalizeMethod(p) \in Forms
    BY <1>3, <2>1, StoneFields
  <2>3. NormalizeMethod(p).fixed_rate = 0 /\ NormalizeMethod(p).pricing_method = method
    BY <1>3, <2>1 DEF Forms
  <2>4. SameButMethod(NormalizeMethod(p), p)
    BY <1>3, <2>1 DEF Forms, SameButMethod
  <2>5. QED BY <1>2, <2>2, <2>3, <2>4 DEF Normal
<1>6. CASE p.item_type # "stone" /\ method = "fixed_rate"
  <2> DEFINE rate == IF p.fixed_rate = Null THEN p.making_charge ELSE q.fixed_rate
             weight == IF p.pricing_method = "none" /\ p.category = "unique"
                       THEN 0 ELSE q.net_weight
  <2>1. rate \in Nat /\ weight \in Nat
    BY <1>2, <1>3 DEF Forms
  <2>2. NormalizeMethod(p) = [q EXCEPT !.fixed_rate = rate, !.making_charge = 0,
                                       !.stock_weight = Null, !.net_weight = weight]
    BY <1>4, <1>6
  <2> HIDE DEF rate, weight
  <2>3. NormalizeMethod(p) \in Forms
    <3>1. q \in Forms BY <1>3
    <3>2. [q EXCEPT !.fixed_rate = rate, !.making_charge = 0, !.stock_weight = Null,
                    !.net_weight = weight] \in Forms
      BY <3>1, <2>1, FixedRateFields
    <3>3. QED BY <2>2, <3>2
  <2>4. NormalizeMethod(p).fixed_rate \in Nat /\ NormalizeMethod(p).pricing_method = method
    BY <1>3, <2>1, <2>2 DEF Forms
  <2>5. SameButMethod(NormalizeMethod(p), p)
    BY <1>3, <2>2 DEF Forms, SameButMethod
  <2>6. QED BY <1>2, <2>3, <2>4, <2>5 DEF Normal
<1>7. CASE p.item_type # "stone" /\ method # "fixed_rate"
  <2>1. NormalizeMethod(p) \in Forms /\ NormalizeMethod(p).fixed_rate = 0
        /\ NormalizeMethod(p).pricing_method = method /\ SameButMethod(NormalizeMethod(p), p)
    BY <1>3, <1>4, <1>7 DEF Forms, Optional, SameButMethod
  <2>2. QED BY <1>2, <2>1 DEF Normal
<1>8. QED BY <1>5, <1>6, <1>7

\* The fields the second half leaves alone.
SameButStock(q, r) ==
  /\ q.name = r.name /\ q.category = r.category /\ q.item_type = r.item_type
  /\ q.stock_mode = r.stock_mode /\ q.pricing_method = r.pricing_method
  /\ q.metal = r.metal /\ q.purity = r.purity /\ q.making_charge = r.making_charge
  /\ q.fixed_rate = r.fixed_rate /\ q.ratti = r.ratti
  /\ q.rate_per_ratti = r.rate_per_ratti

LEMMA StockType ==
  ASSUME NEW q \in Normal
  PROVE  NormalizeStock(q) \in Normal /\ SameButStock(NormalizeStock(q), q)
<1>1. CASE q.stock_mode # "weight"
  <2>1. NormalizeStock(q) = [q EXCEPT !.stock_weight = Null]
    BY <1>1 DEF NormalizeStock
  <2>2. QED BY <2>1 DEF Normal, Forms, Optional, SameButStock
<1>2. CASE q.stock_mode = "weight"
  <2> DEFINE weight == IF q.net_weight = 0 /\ q.stock_weight > 0
                      THEN q.stock_weight ELSE q.net_weight
             remaining == IF q.stock_weight = Null THEN weight ELSE q.stock_weight
             quantity == IF remaining > 0 THEN 1 ELSE 0
  <2>1. NormalizeStock(q) = [q EXCEPT !.net_weight = weight, !.stock_weight = remaining,
                                      !.quantity = quantity]
    BY <1>2 DEF NormalizeStock
  <2>2. weight \in Nat /\ remaining \in Optional /\ quantity \in Nat
    BY DEF Normal, Forms, Optional, Null
  <2> HIDE DEF weight, remaining, quantity
  <2>3. QED BY <2>1, <2>2 DEF Normal, Forms, SameButStock
<1>3. QED BY <1>1, <1>2

LEMMA NormalizeType ==
  ASSUME NEW p \in Forms
  PROVE  /\ Normalize(p) \in Normal /\ Normalize(p) \in Forms
         /\ Normalize(p).item_type = p.item_type
         /\ Normalize(p).stock_mode = p.stock_mode
         /\ Normalize(p).name = p.name
         /\ Normalize(p).category = p.category
         /\ Normalize(p).ratti = p.ratti
         /\ Normalize(p).rate_per_ratti = p.rate_per_ratti
<1>1. NormalizeMethod(p) \in Normal BY MethodType
<1>2. /\ Normalize(p) \in Normal
      /\ SameButStock(Normalize(p), NormalizeMethod(p))
  BY <1>1, StockType DEF Normalize
<1>3. Normalize(p) \in Forms
  BY <1>2 DEF Normal
<1>4. QED BY <1>2, <1>3, MethodType DEF SameButStock, SameButMethod

\* validate_modes accepts a normalized form only if it is sound.
LEMMA ValidIsSound ==
  ASSUME NEW p \in Forms, Valid(Normalize(p))
  PROVE  Sound(Normalize(p))
<1> DEFINE m == NormalizeMethod(p)
           q == Normalize(p)
<1>1. m \in Normal /\ q \in Normal /\ q = NormalizeStock(m)
  BY MethodType, NormalizeType DEF Normalize
<1>2. q.item_type = m.item_type /\ q.pricing_method = m.pricing_method /\ q.metal = m.metal
      /\ q.purity = m.purity /\ q.making_charge = m.making_charge
      /\ q.fixed_rate = m.fixed_rate /\ q.stock_mode = m.stock_mode
  BY <1>1, StockType DEF SameButStock
<1>3. Filled(q)
  BY DEF Valid, Filled
<1>4. q.item_type # "stone" => q.metal \notin {"stone", "Stone"}
  BY DEF Valid, Lower, Strip
<1>5. CASE q.item_type = "stone"
  <2>1. q.pricing_method = "rate_per_ratti" /\ q.stock_mode = "quantity"
        /\ q.ratti > 0 /\ q.rate_per_ratti > 0
    BY <1>5 DEF Valid
  <2>2. p.item_type = "stone"
    BY <1>5, NormalizeType
  <2>3. m.metal = "stone" /\ m.purity = 0 /\ m.net_weight = 0 /\ m.making_charge = 0
        /\ m.fixed_rate = 0
    BY <2>2 DEF NormalizeMethod, Forms
  <2>4. q.net_weight = 0 /\ q.stock_weight = Null
    BY <1>1, <1>2, <2>1, <2>3 DEF NormalizeStock, Normal, Forms
  <2>5. QED BY <1>2, <1>3, <1>5, <2>1, <2>3, <2>4 DEF Sound
<1>6. CASE q.item_type # "stone" /\ q.stock_mode = "quantity"
  <2>1. p.item_type = "jewellery" /\ q.item_type = "jewellery"
    BY <1>1, <1>6, NormalizeType DEF Normal, Forms
  <2>2. q.purity \in 0..100 /\ q.pricing_method # "rate_per_ratti"
        /\ q.ratti = Null /\ q.rate_per_ratti = Null
        /\ IF q.pricing_method = "fixed_rate" THEN q.fixed_rate > 0 ELSE q.net_weight > 0
    BY <1>6 DEF Valid
  <2>3. q.stock_weight = Null
    BY <1>1, <1>2, <1>6 DEF NormalizeStock, Normal, Forms
  <2>4. m.pricing_method = "fixed_rate" => m.making_charge = 0
    BY <1>2, <2>1 DEF NormalizeMethod, Forms
  <2>5. m.pricing_method # "fixed_rate" => m.fixed_rate = 0
    BY <1>2, <2>1 DEF NormalizeMethod, Forms
  <2>6. q.pricing_method \in Methods
    BY <1>1 DEF Normal
  <2>7. QED BY <1>2, <1>3, <1>4, <1>6, <2>1, <2>2, <2>3, <2>4, <2>5, <2>6 DEF Sound, Methods
<1>7. CASE q.item_type # "stone" /\ q.stock_mode = "weight"
  <2>1. p.item_type = "jewellery" /\ q.item_type = "jewellery"
    BY <1>1, <1>7, NormalizeType DEF Normal, Forms
  <2>2. q.purity \in 0..100 /\ q.pricing_method # "rate_per_ratti"
        /\ q.ratti = Null /\ q.rate_per_ratti = Null
        /\ q.pricing_method # "fixed_rate" /\ q.net_weight > 0
        /\ q.stock_weight \in 0..q.net_weight
    BY <1>7 DEF Valid
  <2>3. q.quantity = IF q.stock_weight > 0 THEN 1 ELSE 0
    BY <1>1, <1>2, <1>7 DEF NormalizeStock, Normal, Forms
  <2>4. m.pricing_method # "fixed_rate" => m.fixed_rate = 0
    BY <1>2, <2>1 DEF NormalizeMethod, Forms
  <2>5. q.pricing_method \in Methods
    BY <1>1 DEF Normal
  <2>6. QED BY <1>2, <1>3, <1>4, <1>7, <2>1, <2>2, <2>3, <2>4, <2>5 DEF Sound, Methods
<1>8. QED BY <1>1, <1>5, <1>6, <1>7 DEF Normal, Forms

-----------------------------------------------------------------------------
(* A form whose numbers the columns keep as they are.                       *)

Exact(x) == x = Sent(Stored(x)) /\ Stored(x) <= Limit

LEMMA ExactZero ==
  ASSUME CatalogueAssumption
  PROVE  Exact(0) /\ Exact(Null)
<1>1. Fine \in Nat \ {0} /\ Limit \in Nat \ {0}
  BY DEF CatalogueAssumption
<1>2. Stored(0) = 0 /\ Stored(Null) = Null
  BY <1>1, StoredType DEF Optional
<1>3. QED BY <1>1, <1>2 DEF Exact, Sent, Null

LEMMA ExactOrder ==
  ASSUME CatalogueAssumption, NEW x \in Nat, NEW y \in Nat, Exact(x), Exact(y)
  PROVE  /\ x > 0 <=> Stored(x) > 0
         /\ x <= y => Stored(x) <= Stored(y)
<1>1. Fine \in Nat \ {0}
  BY DEF CatalogueAssumption
<1>2. Stored(x) \in Nat /\ Stored(y) \in Nat
  BY <1>1, StoredType DEF Optional
<1>3. x = Stored(x) * Fine /\ y = Stored(y) * Fine
  BY <1>2 DEF Exact, Sent, Null
<1>4. x > 0 <=> Stored(x) > 0
  BY <1>1, <1>2, <1>3
<1>5. ASSUME x <= y PROVE Stored(x) <= Stored(y)
  <2>1. (Stored(y) - Stored(x)) * Fine >= 0
    BY <1>1, <1>2, <1>3, <1>5
  <2>2. QED BY <1>1, <1>2, <2>1
<1>6. QED BY <1>4, <1>5

LEMMA OddNumbers ==
  ASSUME CatalogueAssumption, NEW r, \A f \in DOMAIN r \cap Decimals : r[f] \in Optional
  PROVE  ~Odd(r) <=> \A f \in DOMAIN r \cap Decimals : Exact(r[f])
<1>1. Fine \in Nat \ {0} /\ Limit \in Nat \ {0}
  BY DEF CatalogueAssumption
<1>2. \A x \in Optional : Stored(x) \in Int
  BY <1>1, StoredType DEF Optional, Null
<1>3. \A x \in Optional : Exact(x) <=> ~(x # Sent(Stored(x)) \/ Stored(x) > Limit)
  BY <1>1, <1>2 DEF Exact
<1>4. QED BY <1>3 DEF Odd

LEMMA FormNumbers ==
  ASSUME NEW p \in Forms
  PROVE  /\ DOMAIN p \cap Decimals = Decimals
         /\ \A f \in Decimals : p[f] \in Optional
  BY FormDomain DEF Forms, Decimals, Weights, Amounts, Optional

\* Every number of q is 0, left out, or a number of p.
FromNumbers(q, p) ==
  \A f \in Decimals : q[f] = 0 \/ q[f] = Null \/ \E g \in Decimals : q[f] = p[g]

LEMMA MethodNumbers ==
  ASSUME NEW p \in Forms
  PROVE  FromNumbers(NormalizeMethod(p), p)
<1> DEFINE q == NormalizeMethod(p)
<1>1. /\ q.net_weight \in {0, p.net_weight}
      /\ q.stock_weight \in {Null, p.stock_weight}
      /\ q.ratti = p.ratti /\ q.rate_per_ratti = p.rate_per_ratti
      /\ q.making_charge \in {0, p.making_charge}
      /\ q.fixed_rate \in {0, p.making_charge, p.fixed_rate}
  BY DEF NormalizeMethod, Forms
<1>2. QED BY <1>1 DEF FromNumbers, Decimals, Weights, Amounts

LEMMA StockNumbers ==
  ASSUME NEW q \in Normal
  PROVE  FromNumbers(NormalizeStock(q), q)
<1> DEFINE r == NormalizeStock(q)
<1>1. /\ r.net_weight \in {q.stock_weight, q.net_weight}
      /\ r.stock_weight \in {Null, q.stock_weight, q.net_weight}
      /\ r.ratti = q.ratti /\ r.rate_per_ratti = q.rate_per_ratti
      /\ r.making_charge = q.making_charge /\ r.fixed_rate = q.fixed_rate
  BY DEF NormalizeStock, Normal, Forms
<1>2. QED BY <1>1 DEF FromNumbers, Decimals, Weights, Amounts

LEMMA NormalizeExact ==
  ASSUME CatalogueAssumption, NEW p \in Forms, ~Odd(p)
  PROVE  \A f \in Decimals : Exact(Normalize(p)[f])
<1>1. \A f \in Decimals : Exact(p[f])
  BY OddNumbers, FormNumbers
<1>2. \A f \in Decimals : Exact(NormalizeMethod(p)[f])
  BY <1>1, MethodNumbers, ExactZero DEF FromNumbers
<1>3. QED BY <1>2, MethodType, StockNumbers, ExactZero DEF FromNumbers, Normalize

LEMMA ColumnFields ==
  ASSUME NEW q \in Forms
  PROVE  /\ DOMAIN Columns(q) = DOMAIN q
         /\ \A f \in Decimals : Columns(q)[f] = Stored(q[f])
         /\ Columns(q).name = q.name /\ Columns(q).category = q.category
         /\ Columns(q).item_type = q.item_type /\ Columns(q).stock_mode = q.stock_mode
         /\ Columns(q).pricing_method = q.pricing_method /\ Columns(q).metal = q.metal
         /\ Columns(q).purity = q.purity /\ Columns(q).quantity = q.quantity
  BY FormDomain DEF Columns, Decimals, Weights, Amounts

\* A sound form with exact numbers makes a row that satisfies every CHECK constraint.
LEMMA SoundFits ==
  ASSUME CatalogueAssumption, NEW q \in Forms, Sound(q), \A f \in Decimals : Exact(q[f])
  PROVE  Fits(Columns(q))
<1> DEFINE c == Columns(q)
<1>1. Fine \in Nat \ {0}
  BY DEF CatalogueAssumption
<1>2. /\ c.net_weight = Stored(q.net_weight) /\ c.stock_weight = Stored(q.stock_weight)
      /\ c.ratti = Stored(q.ratti) /\ c.rate_per_ratti = Stored(q.rate_per_ratti)
      /\ c.making_charge = Stored(q.making_charge) /\ c.fixed_rate = Stored(q.fixed_rate)
      /\ c.item_type = q.item_type /\ c.stock_mode = q.stock_mode
      /\ c.pricing_method = q.pricing_method /\ c.metal = q.metal
      /\ c.purity = q.purity /\ c.quantity = q.quantity
  BY ColumnFields DEF Decimals, Weights, Amounts
<1>3. \A f \in Decimals : c[f] <= Limit
  BY ColumnFields DEF Exact
<1>4. /\ Exact(q.net_weight) /\ Exact(q.stock_weight) /\ Exact(q.ratti)
      /\ Exact(q.rate_per_ratti) /\ Exact(q.making_charge) /\ Exact(q.fixed_rate)
  BY DEF Decimals, Weights, Amounts
<1>5. /\ q.net_weight \in Nat /\ q.making_charge \in Nat
      /\ q.fixed_rate \in Optional /\ q.stock_weight \in Optional
      /\ q.ratti \in Optional /\ q.rate_per_ratti \in Optional
  BY DEF Forms
<1>6. \A x \in Optional : Exact(x) /\ x > 0 => Stored(x) > 0
  BY ExactOrder DEF Optional, Null
<1>7. \A x \in Optional : /\ x = 0 => Stored(x) = 0
                          /\ x = Null => Stored(x) = Null
                          /\ x \in Nat => Stored(x) \in Nat
  BY <1>1, StoredType
<1> DEFINE Keeps(x, y) == (x = 0 => y = 0) /\ (x > 0 => y > 0) /\ (x = Null => y = Null)
<1>8. \A x \in Optional : Exact(x) => Keeps(x, Stored(x))
  BY <1>6, <1>7
<1>9. /\ Keeps(q.net_weight, c.net_weight) /\ Keeps(q.making_charge, c.making_charge)
      /\ Keeps(q.fixed_rate, c.fixed_rate) /\ Keeps(q.stock_weight, c.stock_weight)
      /\ Keeps(q.ratti, c.ratti) /\ Keeps(q.rate_per_ratti, c.rate_per_ratti)
  <2> HIDE DEF Keeps, c
  <2>1. q.net_weight \in Optional /\ q.making_charge \in Optional
    BY <1>5 DEF Optional
  <2>2. QED BY <1>2, <1>4, <1>5, <1>8, <2>1
<1>10. /\ q.net_weight = 0 => c.net_weight = 0
       /\ q.net_weight > 0 => c.net_weight > 0
       /\ q.making_charge = 0 => c.making_charge = 0
       /\ q.fixed_rate = 0 => c.fixed_rate = 0
       /\ q.fixed_rate > 0 => c.fixed_rate > 0
       /\ q.stock_weight = Null => c.stock_weight = Null
       /\ q.ratti = Null => c.ratti = Null
       /\ q.ratti > 0 => c.ratti > 0
       /\ q.rate_per_ratti = Null => c.rate_per_ratti = Null
       /\ q.rate_per_ratti > 0 => c.rate_per_ratti > 0
  BY <1>9
<1>11. q.stock_weight \in 0..q.net_weight => c.stock_weight \in 0..c.net_weight
  BY <1>2, <1>4, <1>5, <1>7, ExactOrder DEF Optional
<1> HIDE DEF c
<1>12. /\ \/ /\ c.item_type = "stone" /\ c.metal = "stone"
            /\ c.pricing_method = "rate_per_ratti" /\ c.stock_mode = "quantity"
            /\ c.purity = 0 /\ c.net_weight = 0 /\ c.making_charge = 0 /\ c.fixed_rate = 0
            /\ c.stock_weight = Null /\ c.ratti > 0 /\ c.rate_per_ratti > 0
         \/ /\ c.item_type = "jewellery" /\ c.metal # "stone"
            /\ c.pricing_method # "rate_per_ratti"
            /\ c.ratti = Null /\ c.rate_per_ratti = Null
  BY <1>2, <1>10 DEF Sound
<1>13. \/ c.stock_mode = "quantity" /\ c.stock_weight = Null
       \/ /\ c.stock_mode = "weight" /\ c.item_type = "jewellery"
          /\ c.pricing_method # "fixed_rate" /\ c.net_weight > 0
          /\ c.stock_weight \in 0..c.net_weight /\ c.quantity \in {0, 1}
  BY <1>2, <1>10, <1>11 DEF Sound
<1>14. \/ c.item_type = "stone"
       \/ /\ c.pricing_method = "fixed_rate" /\ c.fixed_rate > 0
          /\ c.making_charge = 0 /\ c.stock_mode = "quantity"
       \/ /\ c.pricing_method \in {"fixed_making_charge", "making_charge_per_gram"}
          /\ c.fixed_rate = 0
          /\ c.stock_mode = "weight" \/ c.net_weight > 0
  BY <1>2, <1>10 DEF Sound
<1>15. QED BY <1>3, <1>12, <1>13, <1>14 DEF Fits, c

-----------------------------------------------------------------------------
(* The row a normalized form makes.                                         *)

RowOf(q, status) == Over(Columns(q), [status |-> status])

LEMMA RowWhole ==
  ASSUME NEW q \in Forms, NEW status
  PROVE  /\ DOMAIN RowOf(q, status) = DOMAIN Fields \cup {"status"}
         /\ \A f \in DOMAIN Fields : RowOf(q, status)[f] = Columns(q)[f]
         /\ RowOf(q, status).status = status
<1> DEFINE c == Columns(q)
<1>1. DOMAIN c = DOMAIN Fields
  BY ColumnFields, FormDomain
<1>2. "status" \notin DOMAIN Fields
  BY DEF Fields
<1> QED
  BY <1>1, <1>2 DEF RowOf, Over

LEMMA RowFields ==
  ASSUME NEW q \in Forms, NEW status
  PROVE  /\ DOMAIN RowOf(q, status) = DOMAIN Fields \cup {"status"}
         /\ \A f \in DOMAIN Fields : RowOf(q, status)[f] = Columns(q)[f]
         /\ \A f \in Decimals : RowOf(q, status)[f] = Stored(q[f])
         /\ RowOf(q, status).name = q.name /\ RowOf(q, status).category = q.category
         /\ RowOf(q, status).item_type = q.item_type
         /\ RowOf(q, status).stock_mode = q.stock_mode
         /\ RowOf(q, status).pricing_method = q.pricing_method
         /\ RowOf(q, status).metal = q.metal /\ RowOf(q, status).purity = q.purity
         /\ RowOf(q, status).quantity = q.quantity
         /\ RowOf(q, status).status = status
<1> DEFINE r == RowOf(q, status)
           c == Columns(q)
<1>1. Decimals \subseteq DOMAIN Fields
      /\ {"name", "category", "item_type", "stock_mode", "pricing_method", "metal", "purity",
          "quantity"} \subseteq DOMAIN Fields
  BY DEF Fields, Decimals, Weights, Amounts
<1>2. /\ DOMAIN r = DOMAIN Fields \cup {"status"} /\ r.status = status
      /\ \A f \in DOMAIN Fields : r[f] = c[f]
  BY RowWhole
<1> QED
  BY <1>1, <1>2, ColumnFields

LEMMA NewRowFields ==
  ASSUME NEW q \in Forms
  PROVE  /\ DOMAIN NewRow(q) = DOMAIN Fields \cup {"status"}
         /\ \A f \in Decimals : NewRow(q)[f] = Stored(q[f])
         /\ NewRow(q).name = q.name /\ NewRow(q).category = q.category
         /\ NewRow(q).item_type = q.item_type /\ NewRow(q).stock_mode = q.stock_mode
         /\ NewRow(q).pricing_method = q.pricing_method
         /\ NewRow(q).metal = q.metal /\ NewRow(q).purity = q.purity
         /\ NewRow(q).quantity = q.quantity /\ NewRow(q).status = "in_stock"
<1>1. PICK status : status = "in_stock"
  OBVIOUS
<1>2. NewRow(q) = RowOf(q, status)
  BY <1>1 DEF NewRow, RowOf
<1> DEFINE r == RowOf(q, status)
<1>3. DOMAIN r = DOMAIN Fields \cup {"status"}
  BY RowFields
<1>4. \A f \in Decimals : r[f] = Stored(q[f])
  BY RowFields
<1>5. /\ r.name = q.name /\ r.category = q.category
      /\ r.item_type = q.item_type /\ r.stock_mode = q.stock_mode
      /\ r.pricing_method = q.pricing_method
      /\ r.metal = q.metal /\ r.purity = q.purity
      /\ r.quantity = q.quantity
  BY RowFields
<1>6. r.status = status
  BY RowFields
<1>7. QED BY <1>1, <1>2, <1>3, <1>4, <1>5, <1>6

LEMMA RowFits ==
  ASSUME NEW q \in Forms, NEW status
  PROVE  Fits(RowOf(q, status)) <=> Fits(Columns(q))
<1> DEFINE r == RowOf(q, status)
           c == Columns(q)
<1>1. \A f \in Decimals : r[f] = c[f]
  BY RowFields, ColumnFields
<1>2. /\ r.net_weight = c.net_weight /\ r.stock_weight = c.stock_weight
      /\ r.ratti = c.ratti /\ r.rate_per_ratti = c.rate_per_ratti
      /\ r.making_charge = c.making_charge /\ r.fixed_rate = c.fixed_rate
  BY <1>1 DEF Decimals, Weights, Amounts
<1>3. /\ r.item_type = c.item_type /\ r.stock_mode = c.stock_mode
      /\ r.pricing_method = c.pricing_method /\ r.metal = c.metal
      /\ r.purity = c.purity /\ r.quantity = c.quantity
  BY RowFields, ColumnFields
<1> HIDE DEF r, c
<1>4. Fits(r) <=> Fits(c)
  BY <1>1, <1>2, <1>3 DEF Fits
<1>5. QED BY <1>4 DEF r, c

LEMMA RowType ==
  ASSUME CatalogueAssumption, NEW q \in Normal, Sound(q),
         NEW status \in {"in_stock", "sold", "archived"}, Fits(RowOf(q, status))
  PROVE  RowOf(q, status) \in Rows
<1> DEFINE r == RowOf(q, status)
<1>1. q \in Forms /\ q.pricing_method \in Methods /\ q.fixed_rate \in Nat
  BY DEF Normal
<1>2. Fine \in Nat \ {0} /\ Limit \in Nat \ {0}
  BY DEF CatalogueAssumption
<1>3. /\ r.net_weight = Stored(q.net_weight) /\ r.stock_weight = Stored(q.stock_weight)
      /\ r.ratti = Stored(q.ratti) /\ r.rate_per_ratti = Stored(q.rate_per_ratti)
      /\ r.making_charge = Stored(q.making_charge) /\ r.fixed_rate = Stored(q.fixed_rate)
  BY <1>1, RowFields DEF Decimals, Weights, Amounts
<1>4. \A x \in Nat : Stored(x) \in Nat
  BY <1>2, StoredType DEF Optional
<1>5. \A x \in Optional : Stored(x) \in Optional
  BY <1>2, StoredType
<1>6. /\ r.net_weight <= Limit /\ r.stock_weight <= Limit /\ r.ratti <= Limit
      /\ r.rate_per_ratti <= Limit /\ r.making_charge <= Limit /\ r.fixed_rate <= Limit
  BY DEF Fits, Decimals, Weights, Amounts
<1>7. /\ q.net_weight \in Nat /\ q.making_charge \in Nat /\ q.stock_weight \in Optional
      /\ q.ratti \in Optional /\ q.rate_per_ratti \in Optional
  BY <1>1 DEF Forms
<1>8. /\ r.net_weight \in 0..Limit /\ r.making_charge \in 0..Limit
      /\ r.fixed_rate \in 0..Limit
  BY <1>1, <1>2, <1>3, <1>4, <1>6, <1>7
<1>9. /\ r.stock_weight \in {Null} \cup 0..Limit /\ r.ratti \in {Null} \cup 0..Limit
      /\ r.rate_per_ratti \in {Null} \cup 0..Limit
  <2>1. \A x \in Optional : x <= Limit => x \in {Null} \cup 0..Limit
    BY <1>2 DEF Optional
  <2>2. /\ r.stock_weight \in Optional /\ r.ratti \in Optional
        /\ r.rate_per_ratti \in Optional
    BY <1>3, <1>5, <1>7
  <2> HIDE DEF r
  <2>3. QED BY <1>6, <2>1, <2>2
<1>10. /\ r.name \in RowTexts /\ r.category \in {"ring", "unique", "other"}
       /\ r.item_type \in {"jewellery", "stone"} /\ r.stock_mode \in {"quantity", "weight"}
       /\ r.pricing_method \in Methods /\ r.quantity \in Nat /\ r.status = status
  <2>1. q.name \in RowTexts
    BY <1>1 DEF Forms, Sound, Filled, RowTexts
  <2>2. QED BY <1>1, <2>1, RowFields DEF Forms
<1>11. r.metal \in RowMetals /\ r.purity \in 0..100
  <2>1. q.metal \in Metals /\ q.metal # "" /\ q.metal # "Stone" /\ q.purity \in 0..100
    BY <1>1 DEF Forms, Sound, Filled
  <2>2. QED BY <1>1, <2>1, RowFields DEF RowMetals
<1>12. DOMAIN r = {"name", "category", "item_type", "stock_mode", "pricing_method", "metal",
                   "purity", "net_weight", "making_charge", "fixed_rate", "stock_weight",
                   "ratti", "rate_per_ratti", "quantity", "status"}
  BY <1>1, RowFields DEF Fields
<1>13. r = [f \in DOMAIN r |-> r[f]]
  BY DEF RowOf, Over
<1> HIDE DEF r
<1>14. r \in Rows
  BY <1>8, <1>9, <1>10, <1>11, <1>12, <1>13 DEF Rows, Methods
<1>15. QED BY <1>14 DEF r

\* What the row says of its weight is what the form said.
LEMMA RowTells ==
  ASSUME CatalogueAssumption, NEW q \in Normal, Sound(q), NEW status,
         q.stock_mode = "weight"
  PROVE  /\ RowOf(q, status).quantity = IF q.stock_weight > 0 THEN 1 ELSE 0
         /\ (\A f \in Decimals : Exact(q[f])) =>
              (RowOf(q, status).stock_weight > 0 <=> q.stock_weight > 0)
<1>1. q \in Forms
  BY DEF Normal
<1>2. q.stock_weight \in 0..q.net_weight /\ q.net_weight \in Nat
      /\ q.quantity = IF q.stock_weight > 0 THEN 1 ELSE 0
  BY <1>1 DEF Sound, Forms
<1>3. RowOf(q, status).stock_weight = Stored(q.stock_weight)
      /\ RowOf(q, status).quantity = q.quantity
  BY <1>1, RowFields DEF Decimals, Weights, Amounts
<1>4. (\A f \in Decimals : Exact(q[f])) => Exact(q.stock_weight)
  BY DEF Decimals, Weights, Amounts
<1>5. QED BY <1>2, <1>3, <1>4, ExactOrder

-----------------------------------------------------------------------------
(* The inductive invariant.                                                 *)

ShopType == shop \in [Barcodes -> Rows \cup {NoItem}]

\* A weighed row in stock counts as one piece, also when its weight was rounded away.
WeighedIsOne ==
  \A b \in Taken :
    shop[b].stock_mode = "weight" /\ shop[b].status = "in_stock" => shop[b].quantity = 1

CatalogueInv ==
  /\ ShopType /\ CatalogueTypeOK
  /\ QuantityTellsWeight /\ WeighedIsOne
  /\ OnlyOddNumbersFail

\* What QuantityTellsWeight says of one row.
Tells(row) ==
  row.stock_mode = "weight" /\ row.status # "archived" =>
    /\ row.quantity = IF row.stock_weight > 0 THEN 1 ELSE 0
    /\ row.status = IF row.stock_weight > 0 THEN "in_stock" ELSE "sold"

InStock(row) == row.status = "in_stock" /\ row.quantity > 0

LEMMA RowIsItem ==
  ASSUME NEW row \in Rows
  PROVE  row # NoItem
  BY DEF Rows, NoItem

LEMMA TakenRows ==
  ASSUME ShopType
  PROVE  \A b \in Barcodes : b \in Taken <=> shop[b] \in Rows
  BY RowIsItem DEF ShopType, Taken

LEMMA TakenRowsNext ==
  ASSUME ShopType'
  PROVE  /\ \A b \in Barcodes : b \in Taken' <=> shop'[b] \in Rows
         /\ Taken' \subseteq Barcodes
  BY RowIsItem DEF ShopType, Taken

\* Changing some rows for others: what a save, a sale and an archiving have in common.
LEMMA RowsChange ==
  ASSUME CatalogueAssumption, CatalogueInv,
         NEW S \in SUBSET Barcodes,
         shop' \in [Barcodes -> Rows \cup {NoItem}],
         \A b \in Barcodes \ S : shop'[b] = shop[b],
         \A b \in S : shop'[b] \in Rows /\ Fits(shop'[b]),
         \A b \in S : shop'[b].stock_mode = "weight" /\ shop'[b].status = "in_stock" =>
                        shop'[b].quantity = 1,
         finer \subseteq finer', finer' \subseteq finer \cup S,
         \A b \in S \ finer' : Tells(shop'[b]),
         everSold' \subseteq Taken',
         NEW n \in Nat, CanActivate(n),
         NEW G \in SUBSET S, IsFiniteSet(G), Cardinality(G) <= n,
         \A b \in S : InStock(shop'[b]) => b \in Active \cup G,
         outcome' \in {"saved"}, odd' \in BOOLEAN
  PROVE  CatalogueInv'
<1>1. ShopType /\ CatalogueTypeOK /\ QuantityTellsWeight /\ WeighedIsOne
  BY DEF CatalogueInv
<1>2. ShopType'
  BY DEF ShopType
<1>3. \A b \in Taken : shop[b] \in Rows /\ Fits(shop[b])
  BY <1>1 DEF CatalogueTypeOK
<1>4. \A b \in Taken' : b \in Barcodes /\ (b \in S \/ (b \in Taken /\ shop'[b] = shop[b]))
  BY DEF Taken
<1>5. \A b \in Taken' : shop'[b] \in Rows /\ Fits(shop'[b])
  BY <1>3, <1>4
<1>6. Taken \subseteq Taken'
  <2>1. \A b \in Taken : b \in Barcodes
    BY DEF Taken
  <2>2. QED BY <1>1, <1>2, <2>1, TakenRows, TakenRowsNext
<1>7. finer' \subseteq Taken'
  BY <1>1, <1>2, <1>6, TakenRowsNext DEF CatalogueTypeOK
<1>8. Cardinality(Active') <= ActiveLimit
  <2>1. Active' \subseteq Active \cup G
    BY <1>4 DEF Active, InStock
  <2>2. IsFiniteSet(Active) /\ Active \subseteq Barcodes
    <3>1. Active \subseteq Barcodes BY DEF Active, Taken
    <3>2. QED BY <3>1, FS_Subset DEF CatalogueAssumption
  <2>3. /\ IsFiniteSet(Active \cup G)
        /\ Cardinality(Active \cup G) =
             Cardinality(Active) + Cardinality(G) - Cardinality(Active \cap G)
    BY <2>2, FS_Union
  <2>4. IsFiniteSet(Active \cap G)
    BY <2>2, FS_Intersection
  <2>5. /\ Cardinality(Active) \in Nat /\ Cardinality(G) \in Nat
        /\ Cardinality(Active \cap G) \in Nat /\ Cardinality(Active \cup G) \in Nat
    BY <2>2, <2>3, <2>4, FS_CardinalityType
  <2>6. Cardinality(Active') <= Cardinality(Active \cup G)
        /\ IsFiniteSet(Active')
    BY <2>1, <2>3, FS_Subset
  <2>7. Cardinality(Active') \in Nat
    BY <2>6, FS_CardinalityType
  <2>8. Cardinality(Active) <= ActiveLimit /\ ActiveLimit \in Nat
    BY <1>1 DEF CatalogueTypeOK, CatalogueAssumption
  <2>9. CASE n = 0
    BY <2>3, <2>5, <2>6, <2>7, <2>8, <2>9
  <2>10. CASE n # 0
    <3>1. Cardinality(Active) + n <= ActiveLimit
      BY <2>10 DEF CanActivate
    <3>2. QED BY <2>3, <2>5, <2>6, <2>7, <2>8, <3>1
  <2>11. QED BY <2>9, <2>10
<1>9. CatalogueTypeOK'
  BY <1>5, <1>7, <1>8 DEF CatalogueTypeOK
<1>10. QuantityTellsWeight'
  <2>1. \A b \in Taken \ finer : Tells(shop[b])
    BY <1>1 DEF QuantityTellsWeight, Tells
  <2>2. \A b \in Taken' \ finer' : Tells(shop'[b])
    BY <1>4, <2>1
  <2>3. QED BY <2>2 DEF QuantityTellsWeight, Tells
<1>11. WeighedIsOne'
  BY <1>1, <1>4 DEF WeighedIsOne
<1>12. OnlyOddNumbersFail'
  BY DEF OnlyOddNumbersFail
<1>13. QED BY <1>2, <1>9, <1>10, <1>11, <1>12 DEF CatalogueInv

\* A flush of rows that are good if they fit, and fit if they hold no odd number.
LEMMA SaveKeeps ==
  ASSUME CatalogueAssumption, CatalogueInv,
         NEW rows, NEW odds, Save(rows, odds), DOMAIN rows \subseteq Barcodes,
         odds \subseteq DOMAIN rows,
         \A b \in DOMAIN rows \ odds : Fits(rows[b]) /\ Tells(rows[b]),
         \A b \in DOMAIN rows : Fits(rows[b]) => rows[b] \in Rows,
         \A b \in DOMAIN rows :
           rows[b].stock_mode = "weight" /\ rows[b].status = "in_stock" => rows[b].quantity = 1,
         NEW n \in Nat, CanActivate(n),
         NEW G \in SUBSET (DOMAIN rows), IsFiniteSet(G), Cardinality(G) <= n,
         \A b \in DOMAIN rows : InStock(rows[b]) => b \in Active \cup G
  PROVE  CatalogueInv'
<1>1. ShopType /\ CatalogueTypeOK /\ QuantityTellsWeight /\ WeighedIsOne
  BY DEF CatalogueInv
<1>2. CASE \A b \in DOMAIN rows : Fits(rows[b])
  <2>1. shop' = Over(rows, shop) /\ outcome' = "saved" /\ finer' = finer \cup odds
        /\ everSold' = everSold /\ odd' = (odds # {})
    BY <1>2 DEF Save
  <2>2. DOMAIN shop = Barcodes
    BY <1>1 DEF ShopType
  <2>3. shop' = [b \in Barcodes |-> IF b \in DOMAIN rows THEN rows[b] ELSE shop[b]]
    BY <2>1, <2>2 DEF Over
  <2>4. \A b \in DOMAIN rows : rows[b] \in Rows /\ Fits(rows[b]) /\ shop'[b] = rows[b]
    BY <1>2, <2>3
  <2>5. \A b \in Barcodes \ DOMAIN rows : shop'[b] = shop[b]
    BY <2>3
  <2>6. shop' \in [Barcodes -> Rows \cup {NoItem}]
    BY <1>1, <2>3, <2>4 DEF ShopType
  <2>7. everSold' \subseteq Taken'
    <3>1. ShopType' BY <2>6 DEF ShopType
    <3>2. \A b \in Taken : b \in Barcodes /\ shop[b] \in Rows
      BY <1>1, TakenRows DEF Taken
    <3>3. Taken \subseteq Taken'
      BY <2>4, <2>5, <3>1, <3>2, TakenRowsNext
    <3>4. QED BY <1>1, <2>1, <3>3 DEF CatalogueTypeOK
  <2>8. \A b \in DOMAIN rows \ finer' : Tells(shop'[b])
    BY <2>1, <2>4
  <2>9. /\ finer \subseteq finer' /\ finer' \subseteq finer \cup DOMAIN rows
        /\ outcome' \in {"saved"} /\ odd' \in BOOLEAN
    BY <2>1
  <2>10. \A b \in DOMAIN rows :
           /\ shop'[b].stock_mode = "weight" /\ shop'[b].status = "in_stock" =>
                shop'[b].quantity = 1
           /\ InStock(shop'[b]) => b \in Active \cup G
    BY <2>4
  <2>11. \A b \in DOMAIN rows : shop'[b] \in Rows /\ Fits(shop'[b])
    BY <2>4
  <2> DEFINE S == DOMAIN rows
  <2>12. S \in SUBSET Barcodes /\ G \in SUBSET S
    OBVIOUS
  <2>13. /\ \A b \in Barcodes \ S : shop'[b] = shop[b]
         /\ \A b \in S : shop'[b] \in Rows /\ Fits(shop'[b])
         /\ \A b \in S : shop'[b].stock_mode = "weight" /\ shop'[b].status = "in_stock" =>
                        shop'[b].quantity = 1
         /\ finer' \subseteq finer \cup S
         /\ \A b \in S \ finer' : Tells(shop'[b])
         /\ \A b \in S : InStock(shop'[b]) => b \in Active \cup G
    BY <2>5, <2>8, <2>9, <2>10, <2>11
  <2> HIDE DEF S
  <2>14. QED BY <2>6, <2>7, <2>9, <2>12, <2>13, RowsChange
<1>3. CASE ~\A b \in DOMAIN rows : Fits(rows[b])
  <2>1. UNCHANGED <<shop, finer, everSold>> /\ outcome' = "rejected" /\ odd' = (odds # {})
    BY <1>3 DEF Save
  <2>2. odds # {}
    BY <1>3
  <2>3. Taken' = Taken /\ Active' = Active
    BY <2>1 DEF Taken, Active
  <2>4. ShopType' /\ CatalogueTypeOK' /\ QuantityTellsWeight' /\ WeighedIsOne'
    BY <1>1, <2>1, <2>3 DEF ShopType, CatalogueTypeOK, QuantityTellsWeight, WeighedIsOne
  <2>5. OnlyOddNumbersFail'
    BY <2>1, <2>2 DEF OnlyOddNumbersFail
  <2>6. QED BY <2>4, <2>5 DEF CatalogueInv
<1>4. QED BY <1>2, <1>3

LEMMA RefuseKeeps ==
  ASSUME CatalogueInv, UNCHANGED <<shop, everSold, finer>>, odd' \in BOOLEAN,
         outcome' \in {"refused", "none", "saved"}
  PROVE  CatalogueInv'
<1>1. ShopType /\ CatalogueTypeOK /\ QuantityTellsWeight /\ WeighedIsOne
  BY DEF CatalogueInv
<1>2. Taken' = Taken /\ Active' = Active
  BY DEF Taken, Active
<1>3. ShopType' /\ CatalogueTypeOK' /\ QuantityTellsWeight' /\ WeighedIsOne'
  BY <1>1, <1>2 DEF ShopType, CatalogueTypeOK, QuantityTellsWeight, WeighedIsOne
<1>4. OnlyOddNumbersFail'
  BY DEF OnlyOddNumbersFail
<1>5. QED BY <1>3, <1>4 DEF CatalogueInv

-----------------------------------------------------------------------------
(* The rows the operations save.                                            *)

\* A valid form makes a row that is good if it fits, and fits if it holds no odd number.
LEMMA GoodRow ==
  ASSUME CatalogueAssumption, NEW p \in Forms, Valid(Normalize(p)),
         NEW status \in {"in_stock", "sold"},
         Normalize(p).stock_mode = "weight" =>
           (status = "in_stock" <=> Normalize(p).stock_weight > 0)
  PROVE  LET row == RowOf(Normalize(p), status)
         IN /\ Fits(row) => row \in Rows
            /\ row.stock_mode = "weight" /\ row.status = "in_stock" => row.quantity = 1
            /\ ~Odd(p) => Fits(row) /\ Tells(row)
            /\ row.quantity = Normalize(p).quantity /\ row.status = status
<1> DEFINE q == Normalize(p)
           row == RowOf(q, status)
<1>1. q \in Normal /\ q \in Forms /\ Sound(q)
  BY NormalizeType, ValidIsSound
<1>2. row.stock_mode = q.stock_mode /\ row.status = status /\ row.quantity = q.quantity
  BY <1>1, RowFields
<1>3. Fits(row) => row \in Rows
  BY <1>1, RowType
<1>4. q.stock_mode = "weight" => row.quantity = IF q.stock_weight > 0 THEN 1 ELSE 0
  BY <1>1, RowTells
<1>5. row.stock_mode = "weight" /\ row.status = "in_stock" => row.quantity = 1
  BY <1>2, <1>4
<1>6. ASSUME ~Odd(p) PROVE Fits(row) /\ Tells(row)
  <2>1. \A f \in Decimals : Exact(q[f])
    BY <1>6, NormalizeExact
  <2>2. Fits(row)
    BY <1>1, <2>1, SoundFits, RowFits
  <2>3. q.stock_mode = "weight" => (row.stock_weight > 0 <=> q.stock_weight > 0)
    BY <1>1, <2>1, RowTells
  <2>4. Tells(row)
    BY <1>2, <1>4, <2>3 DEF Tells
  <2>5. QED BY <2>2, <2>4
<1>7. QED BY <1>2, <1>3, <1>5, <1>6

LEMMA OneRowSaved ==
  ASSUME CatalogueAssumption, CatalogueInv, NEW b \in Barcodes, NEW row, NEW o \in BOOLEAN,
         Save([c \in {b} |-> row], {c \in {b} : o}),
         Fits(row) => row \in Rows,
         row.stock_mode = "weight" /\ row.status = "in_stock" => row.quantity = 1,
         ~o => Fits(row) /\ Tells(row),
         InStock(row) => b \in Active \/ CanActivate(1)
  PROVE  CatalogueInv'
<1> DEFINE rows == [c \in {b} |-> row]
           odds == {c \in {b} : o}
<1>1. /\ DOMAIN rows = {b} /\ rows[b] = row
      /\ odds \subseteq {b} /\ (b \notin odds => ~o)
  OBVIOUS
<1>2. /\ DOMAIN rows \subseteq Barcodes /\ odds \subseteq DOMAIN rows
      /\ \A c \in DOMAIN rows \ odds : Fits(rows[c]) /\ Tells(rows[c])
      /\ \A c \in DOMAIN rows : Fits(rows[c]) => rows[c] \in Rows
      /\ \A c \in DOMAIN rows :
           rows[c].stock_mode = "weight" /\ rows[c].status = "in_stock" => rows[c].quantity = 1
      /\ Save(rows, odds)
  BY <1>1
<1>3. CASE InStock(row) /\ b \notin Active
  <2>1. CanActivate(1) /\ 1 \in Nat
    BY <1>3
  <2>2. IsFiniteSet({b}) /\ Cardinality({b}) <= 1
    <3>1. IsFiniteSet({b}) /\ Cardinality({b}) = 1 BY FS_Singleton
    <3>2. QED BY <3>1
  <2>3. {b} \in SUBSET (DOMAIN rows) /\ \A c \in DOMAIN rows : c \in Active \cup {b}
    BY <1>1
  <2> HIDE DEF rows, odds
  <2>4. QED BY <1>2, <2>1, <2>2, <2>3, SaveKeeps
<1>4. CASE ~(InStock(row) /\ b \notin Active)
  <2>1. CanActivate(0) /\ 0 \in Nat
    BY DEF CanActivate
  <2>2. IsFiniteSet({}) /\ Cardinality({}) <= 0
    BY FS_EmptySet
  <2>3. {} \in SUBSET (DOMAIN rows)
        /\ \A c \in DOMAIN rows : InStock(rows[c]) => c \in Active \cup {}
    BY <1>1, <1>4
  <2> HIDE DEF rows, odds
  <2>4. QED BY <1>2, <2>1, <2>2, <2>3, SaveKeeps
<1>5. QED BY <1>3, <1>4

LEMMA CreateStep ==
  ASSUME CatalogueAssumption, CatalogueInv, NEW b \in Edited, NEW p \in Payloads, Create(b, p)
  PROVE  CatalogueInv'
<1> DEFINE q == Normalize(p)
<1>1. b \in Barcodes /\ p \in Forms
  BY FormIsRecord DEF CatalogueAssumption
<1>2. CASE ValidNew(q) /\ (q.quantity > 0 => CanActivate(1))
           /\ Save([c \in {b} |-> NewRow(q)], {c \in {b} : Odd(p)})
  <2>1. Valid(q) /\ (q.stock_mode = "weight" => q.stock_weight = q.net_weight)
    BY <1>2 DEF ValidNew
  <2>2. Sound(q)
    BY <1>1, <2>1, ValidIsSound
  <2>3. q.stock_mode = "weight" => ("in_stock" = "in_stock" <=> q.stock_weight > 0)
    BY <2>1, <2>2 DEF Sound
  <2>4. LET row == RowOf(q, "in_stock")
        IN /\ Fits(row) => row \in Rows
           /\ row.stock_mode = "weight" /\ row.status = "in_stock" => row.quantity = 1
           /\ ~Odd(p) => Fits(row) /\ Tells(row)
           /\ row.quantity = q.quantity /\ row.status = "in_stock"
    BY <1>1, <2>1, <2>3, GoodRow
  <2>5. NewRow(q) = RowOf(q, "in_stock")
    BY DEF NewRow, RowOf
  <2>6. InStock(NewRow(q)) => CanActivate(1)
    BY <1>2, <2>4, <2>5 DEF InStock
  <2>7. Odd(p) \in BOOLEAN
    BY DEF Odd
  <2> HIDE DEF q
  <2>8. QED BY <1>1, <1>2, <2>4, <2>5, <2>6, <2>7, OneRowSaved
<1>3. CASE Refuse
  BY <1>3, RefuseKeeps DEF Refuse
<1>4. QED BY <1>2, <1>3 DEF Create

-----------------------------------------------------------------------------
(* Edits.                                                                   *)

LEMMA RowDomain ==
  ASSUME NEW row \in Rows
  PROVE  /\ DOMAIN row = DOMAIN Fields \cup {"status"} /\ "status" \notin DOMAIN Fields
         /\ row = [f \in DOMAIN row |-> row[f]]
  BY DEF Rows, Fields

LEMMA CellsForm ==
  ASSUME CatalogueAssumption, NEW row \in Rows
  PROVE  /\ Cells(row) \in Forms
         /\ \A f \in Decimals : Cells(row)[f] = Sent(row[f]) /\ Exact(Cells(row)[f])
         /\ \A f \in DOMAIN Fields \ Decimals : Cells(row)[f] = row[f]
         /\ \A f \in Decimals : Stored(Cells(row)[f]) = row[f]
<1> DEFINE c == Cells(row)
<1>1. DOMAIN c = DOMAIN Fields
  BY RowDomain DEF Cells
<1>2. Fine \in Nat \ {0} /\ Limit \in Nat \ {0}
  BY DEF CatalogueAssumption
<1>3. Decimals \subseteq DOMAIN Fields
  BY DEF Decimals, Weights, Amounts, Fields
<1>4. \A f \in Decimals : c[f] = Sent(row[f])
  BY <1>1, <1>3, RowDomain DEF Cells
<1>5. \A f \in DOMAIN Fields \ Decimals : c[f] = row[f]
  BY <1>1, RowDomain DEF Cells
<1>6. \A f \in Decimals : row[f] \in Optional /\ row[f] <= Limit
  BY <1>2 DEF Decimals, Weights, Amounts, Rows, Optional, Null
<1>7. \A f \in Decimals : Stored(c[f]) = row[f] /\ c[f] \in Optional
  BY <1>2, <1>4, <1>6, StoredSent
<1>8. \A f \in Decimals : Exact(c[f])
  BY <1>4, <1>6, <1>7 DEF Exact
<1>9. /\ c.net_weight \in Nat /\ c.making_charge \in Nat /\ c.fixed_rate \in Nat
      /\ c.stock_weight \in Optional /\ c.ratti \in Optional /\ c.rate_per_ratti \in Optional
  <2>1. row.net_weight \in Nat /\ row.making_charge \in Nat /\ row.fixed_rate \in Nat
    BY DEF Rows
  <2>2. c.net_weight = Sent(row.net_weight) /\ c.making_charge = Sent(row.making_charge)
        /\ c.fixed_rate = Sent(row.fixed_rate)
    BY <1>4 DEF Decimals, Weights, Amounts
  <2>3. \A x \in Nat : Sent(x) \in Nat
    BY <1>2, StoredSent DEF Optional
  <2>4. QED BY <1>7, <2>1, <2>2, <2>3 DEF Decimals, Weights, Amounts
<1>10. /\ c.name = row.name /\ c.category = row.category /\ c.item_type = row.item_type
       /\ c.stock_mode = row.stock_mode /\ c.pricing_method = row.pricing_method
       /\ c.metal = row.metal /\ c.purity = row.purity /\ c.quantity = row.quantity
  BY <1>5 DEF Fields, Decimals, Weights, Amounts
<1>11. c = [f \in DOMAIN c |-> c[f]]
  BY DEF Cells
<1> HIDE DEF c
<1>12. c \in Forms
  <2>1. c.name \in Texts /\ c.metal \in Metals
    BY <1>10 DEF Rows, RowTexts, RowMetals
  <2>2. QED BY <1>1, <1>9, <1>10, <1>11, <2>1 DEF Rows, Forms, Methods, Fields, Optional
<1>13. QED BY <1>4, <1>5, <1>7, <1>8, <1>12 DEF c

LEMMA OverForm ==
  ASSUME NEW r, Partial(r), NEW p \in Forms
  PROVE  /\ Over(r, p) \in Forms
         /\ \A f \in DOMAIN r : Over(r, p)[f] = r[f]
         /\ \A f \in DOMAIN Fields \ DOMAIN r : Over(r, p)[f] = p[f]
<1> DEFINE v == Over(r, p)
<1>1. DOMAIN p = DOMAIN Fields /\ \A f \in DOMAIN Fields : p[f] \in Fields[f]
  BY RecordIsForm, FormDomain DEF Form, Partial
<1>2. DOMAIN v = DOMAIN Fields
  BY <1>1 DEF Over, Partial
<1>3. \A f \in DOMAIN r : v[f] = r[f]
  BY DEF Over
<1>4. \A f \in DOMAIN Fields \ DOMAIN r : v[f] = p[f]
  BY <1>1 DEF Over
<1>5. \A f \in DOMAIN Fields : v[f] \in Fields[f]
  BY <1>1, <1>3, <1>4 DEF Partial
<1>6. v = [f \in DOMAIN v |-> v[f]]
  BY DEF Over
<1>7. Form(v)
  BY <1>2, <1>5, <1>6 DEF Form, Partial
<1>8. QED BY <1>3, <1>4, <1>7, FormIsRecord

\* Once the pricing method is known, normalization leaves it.
LEMMA KnownMethod ==
  ASSUME NEW p \in Forms, p.pricing_method # "none"
  PROVE  LET q == Normalize(p)
         IN /\ q.item_type # "stone" => q.metal = p.metal /\ q.purity = p.purity
            /\ q.pricing_method = p.pricing_method
            /\ q.item_type # "stone" /\ q.pricing_method = "fixed_rate" /\ p.fixed_rate # Null
                 => q.fixed_rate = p.fixed_rate
            /\ q.item_type # "stone" /\ q.pricing_method # "fixed_rate"
                 => q.making_charge = p.making_charge /\ q.fixed_rate = 0
            /\ q.stock_mode = "quantity" => q.quantity = p.quantity /\ q.stock_weight = Null
            /\ q.stock_mode = "quantity" /\ q.item_type # "stone"
                 => q.net_weight = p.net_weight
            /\ q.stock_mode = "weight" /\ q.item_type # "stone"
               /\ q.pricing_method # "fixed_rate" /\ p.stock_weight # Null
                 => q.stock_weight = p.stock_weight
<1> DEFINE m == NormalizeMethod(p)
           q == Normalize(p)
<1>1. /\ m \in Normal /\ q = NormalizeStock(m) /\ SameButStock(q, m) /\ SameButMethod(m, p)
  BY MethodType, StockType DEF Normalize
<1>2. m.pricing_method = p.pricing_method
  BY DEF NormalizeMethod, Forms
<1>3. p.item_type # "stone" /\ p.pricing_method = "fixed_rate" /\ p.fixed_rate # Null
        => m.fixed_rate = p.fixed_rate
  BY DEF NormalizeMethod, Forms
<1>4. p.item_type # "stone" /\ p.pricing_method # "fixed_rate"
        => m.making_charge = p.making_charge /\ m.fixed_rate = 0
           /\ m.stock_weight = p.stock_weight
  BY DEF NormalizeMethod, Forms
<1>5. p.item_type # "stone" => m.metal = p.metal /\ m.purity = p.purity
                              /\ m.net_weight = p.net_weight
  BY DEF NormalizeMethod, Forms
<1>6. m.stock_mode = "quantity" => q.quantity = m.quantity /\ q.stock_weight = Null
                                  /\ q.net_weight = m.net_weight
  BY <1>1 DEF NormalizeStock, Normal, Forms
<1>7. m.stock_mode = "weight" /\ m.stock_weight # Null => q.stock_weight = m.stock_weight
  BY <1>1 DEF NormalizeStock, Normal, Forms
<1>8. QED BY <1>1, <1>2, <1>3, <1>4, <1>5, <1>6, <1>7 DEF SameButStock, SameButMethod

\* Whatever the method turns out to be, a counted item keeps its quantity and a weighed
\* one the weight that is left.
LEMMA KeptStock ==
  ASSUME NEW p \in Forms, Sound(Normalize(p))
  PROVE  LET q == Normalize(p)
         IN /\ q.stock_mode = "quantity" => q.quantity = p.quantity
            /\ q.stock_mode = "weight" /\ p.stock_weight # Null
                 => q.stock_weight = p.stock_weight
<1> DEFINE m == NormalizeMethod(p)
           q == Normalize(p)
<1>1. /\ m \in Normal /\ q = NormalizeStock(m) /\ SameButStock(q, m) /\ SameButMethod(m, p)
  BY MethodType, StockType DEF Normalize
<1>2. q.stock_mode = "quantity" => q.quantity = p.quantity
  BY <1>1 DEF NormalizeStock, Normal, Forms, SameButStock, SameButMethod
<1>3. q.stock_mode = "weight" => q.pricing_method # "fixed_rate" /\ q.item_type = "jewellery"
  BY DEF Sound
<1>4. p.item_type # "stone" /\ m.pricing_method # "fixed_rate"
        => m.stock_weight = p.stock_weight
  BY <1>1 DEF NormalizeMethod, Normal, Forms
<1>5. m.stock_mode = "weight" /\ m.stock_weight # Null => q.stock_weight = m.stock_weight
  BY <1>1 DEF NormalizeStock, Normal, Forms
<1>6. QED BY <1>1, <1>2, <1>3, <1>4, <1>5 DEF SameButStock, SameButMethod

LEMMA ExactDifference ==
  ASSUME CatalogueAssumption, NEW x \in Nat, NEW y \in Nat, Exact(x), Exact(y), y <= x
  PROVE  Exact(x - y)
<1>1. Fine \in Nat \ {0} /\ Limit \in Nat
  BY DEF CatalogueAssumption
<1> DEFINE u == Stored(x)
           v == Stored(y)
<1>2. u \in Nat /\ v \in Nat /\ v <= u /\ u <= Limit
  BY <1>1, StoredType, ExactOrder DEF Optional, Exact
<1>3. x = u * Fine /\ y = v * Fine
  BY <1>2 DEF Exact, Sent, Null
<1> HIDE DEF u, v
<1>4. u - v \in Nat /\ u - v <= Limit
  BY <1>1, <1>2
<1>5. x - y = (u - v) * Fine
  BY <1>1, <1>2, <1>3
<1>6. x - y = Sent(u - v)
  BY <1>4, <1>5 DEF Sent, Null
<1>7. Stored(x - y) = u - v
  BY <1>1, <1>4, <1>6, StoredSent DEF Optional
<1>8. QED BY <1>4, <1>6, <1>7 DEF Exact

\* The three fields an edit of a weighed item sets together.
LEMMA EditedWeightFields ==
  ASSUME CatalogueAssumption, NEW row \in Rows, Fits(row), NEW r, Partial(r),
         EditedWeight(row, r) # NoItem
  PROVE  LET w == EditedWeight(row, r)
         IN /\ DOMAIN w = {"net_weight", "stock_weight", "quantity"}
            /\ Partial(w)
            /\ w.net_weight > 0 /\ w.stock_weight \in 0..w.net_weight
            /\ w.quantity = IF w.stock_weight > 0 THEN 1 ELSE 0
            /\ ~Odd(r) => ~Odd(w)
<1> DEFINE now == Cells(row)
           asked == IF "stock_weight" \in DOMAIN r THEN r.stock_weight ELSE Null
           weight == IF row.stock_mode = "weight"
                    THEN IF "net_weight" \in DOMAIN r THEN r.net_weight ELSE now.net_weight
                    ELSE IF "net_weight" \in DOMAIN r /\ r.net_weight > 0 THEN r.net_weight
                    ELSE IF asked = Null THEN 0 ELSE asked
           consumed == IF row.stock_mode = "weight"
                       THEN now.net_weight - now.stock_weight ELSE 0
           w == EditedWeight(row, r)
<1>1. Fine \in Nat \ {0}
  BY DEF CatalogueAssumption
<1>2. /\ "net_weight" \in DOMAIN r => r.net_weight \in Nat
      /\ "stock_weight" \in DOMAIN r => r.stock_weight \in Optional
  BY DEF Partial, Fields
<1>3. now.net_weight \in Nat /\ Exact(now.net_weight) /\ Exact(now.stock_weight)
  BY CellsForm DEF Forms, Decimals, Weights, Amounts
<1>4. row.stock_mode = "weight" => now.stock_weight \in Nat /\ now.stock_weight <= now.net_weight
  <2>1. row.stock_mode = "weight" =>
          row.stock_weight \in Nat /\ row.net_weight \in Nat
          /\ row.stock_weight <= row.net_weight
    BY DEF Fits, Rows
  <2>2. now.stock_weight = Sent(row.stock_weight) /\ now.net_weight = Sent(row.net_weight)
    BY CellsForm DEF Decimals, Weights, Amounts
  <2>3. \A x, y \in Nat : x <= y => Sent(x) \in Nat /\ Sent(x) <= Sent(y)
    <3> SUFFICES ASSUME NEW x \in Nat, NEW y \in Nat, x <= y
                 PROVE  x * Fine \in Nat /\ x * Fine <= y * Fine
      BY DEF Sent, Null
    <3>1. (y - x) * Fine >= 0
      BY <1>1
    <3>2. QED BY <1>1, <3>1
  <2>4. QED BY <2>1, <2>2, <2>3
<1>5. weight \in Nat /\ consumed \in Nat
  BY <1>2, <1>3, <1>4 DEF Optional, Null
<1>6. weight > 0 /\ weight >= consumed
      /\ w = [net_weight |-> weight, stock_weight |-> weight - consumed,
              quantity |-> IF weight > consumed THEN 1 ELSE 0]
  <2> HIDE DEF weight, consumed
  <2>1. w = NoItem \/ (weight > 0 /\ weight >= consumed
          /\ w = [net_weight |-> weight, stock_weight |-> weight - consumed,
                  quantity |-> IF weight > consumed THEN 1 ELSE 0])
    BY <1>5 DEF EditedWeight, weight, consumed
  <2>2. QED BY <2>1
<1> HIDE DEF w
<1>7. ~Odd(r) => Exact(weight) /\ Exact(consumed)
  <2>1. \A f \in DOMAIN r \cap Decimals : r[f] \in Optional
    BY DEF Partial, Fields, Decimals, Weights, Amounts, Optional
  <2>2. ASSUME ~Odd(r)
        PROVE  /\ "net_weight" \in DOMAIN r => Exact(r.net_weight)
               /\ "stock_weight" \in DOMAIN r => Exact(r.stock_weight)
    BY <2>1, <2>2, OddNumbers DEF Decimals, Weights, Amounts
  <2>3. row.stock_mode = "weight" => Exact(now.net_weight - now.stock_weight)
    BY <1>3, <1>4, ExactDifference
  <2>4. QED BY <1>3, <2>2, <2>3, ExactZero
<1> HIDE DEF weight, consumed
<1>8. /\ DOMAIN w = {"net_weight", "stock_weight", "quantity"}
      /\ w.net_weight = weight /\ w.stock_weight = weight - consumed
      /\ w.quantity = IF weight > consumed THEN 1 ELSE 0
      /\ w = [f \in DOMAIN w |-> w[f]]
  BY <1>6
<1>9. weight - consumed \in 0..weight /\ (weight - consumed > 0 <=> weight > consumed)
  BY <1>5, <1>6
<1>10. Partial(w)
  BY <1>5, <1>8, <1>9 DEF Partial, Fields, Optional
<1>11. ASSUME ~Odd(r) PROVE ~Odd(w)
  <2>1. Exact(weight) /\ Exact(weight - consumed)
    BY <1>5, <1>6, <1>7, <1>11, ExactDifference
  <2>2. DOMAIN w \cap Decimals = {"net_weight", "stock_weight"}
    BY <1>8 DEF Decimals, Weights, Amounts
  <2>3. \A f \in DOMAIN w \cap Decimals : w[f] \in Optional /\ Exact(w[f])
    BY <1>5, <1>8, <1>9, <2>1, <2>2 DEF Optional
  <2>4. QED BY <2>3, OddNumbers
<1>12. QED BY <1>6, <1>8, <1>9, <1>10, <1>11 DEF w

\* What an edit asks for in the end: a weighed item's three fields, and what it named.
Asked(row, r, newMode) ==
  IF newMode = "weight" /\ EditedWeight(row, r) # NoItem THEN Over(EditedWeight(row, r), r) ELSE r

LEMMA AskedFields ==
  ASSUME CatalogueAssumption, NEW row \in Rows, Fits(row), NEW r, Partial(r), NEW newMode,
         newMode = "weight" => EditedWeight(row, r) # NoItem
  PROVE  LET asked == Asked(row, r, newMode)
         IN /\ Partial(asked)
            /\ ~Odd(r) => ~Odd(asked)
            /\ newMode # "weight" => asked = r
            /\ \A f \in {"stock_mode", "item_type"} :
                 /\ f \in DOMAIN asked <=> f \in DOMAIN r
                 /\ f \in DOMAIN r => asked[f] = r[f]
            /\ newMode = "weight" =>
                 /\ {"net_weight", "stock_weight", "quantity"} \subseteq DOMAIN asked
                 /\ asked.stock_weight \in Nat
                 /\ asked.quantity = IF asked.stock_weight > 0 THEN 1 ELSE 0
<1> DEFINE w == EditedWeight(row, r)
           asked == Asked(row, r, newMode)
<1>1. CASE newMode # "weight"
  <2>1. asked = r
    BY <1>1 DEF Asked
  <2>2. QED BY <1>1, <2>1
<1>2. CASE newMode = "weight"
  <2>1. /\ DOMAIN w = {"net_weight", "stock_weight", "quantity"}
        /\ Partial(w)
        /\ w.net_weight > 0 /\ w.stock_weight \in 0..w.net_weight
        /\ w.quantity = IF w.stock_weight > 0 THEN 1 ELSE 0
        /\ ~Odd(r) => ~Odd(w)
    BY <1>2, EditedWeightFields
  <2>2. asked = Over(w, r)
    BY <1>2 DEF Asked
  <2> HIDE DEF w, asked
  <2>3. /\ DOMAIN asked = DOMAIN w \cup DOMAIN r
        /\ \A f \in DOMAIN w : asked[f] = w[f]
        /\ \A f \in DOMAIN r \ DOMAIN w : asked[f] = r[f]
        /\ asked = [f \in DOMAIN asked |-> asked[f]]
    BY <2>2 DEF Over
  <2>4. /\ DOMAIN asked \subseteq DOMAIN Fields
        /\ \A f \in DOMAIN asked : asked[f] \in Fields[f]
    BY <2>1, <2>3 DEF Partial
  <2>5. Partial(asked)
    BY <2>3, <2>4 DEF Partial
  <2>6. ASSUME ~Odd(r) PROVE ~Odd(asked)
    <3>1. \A x \in {r, w, asked} : \A f \in DOMAIN x \cap Decimals : x[f] \in Optional
      BY <2>1, <2>5 DEF Partial, Fields, Decimals, Weights, Amounts, Optional
    <3>2. /\ \A f \in DOMAIN r \cap Decimals : Exact(r[f])
          /\ \A f \in DOMAIN w \cap Decimals : Exact(w[f])
      BY <2>1, <2>6, <3>1, OddNumbers
    <3>3. \A f \in DOMAIN asked \cap Decimals : Exact(asked[f])
      BY <2>3, <3>2
    <3>4. QED BY <3>1, <3>3, OddNumbers
  <2>7. /\ \A f \in {"stock_mode", "item_type"} :
             /\ f \in DOMAIN asked <=> f \in DOMAIN r
             /\ f \in DOMAIN r => asked[f] = r[f]
        /\ {"net_weight", "stock_weight", "quantity"} \subseteq DOMAIN asked
        /\ asked.stock_weight = w.stock_weight /\ asked.quantity = w.quantity
    BY <2>1, <2>3
  <2>8. w.stock_weight \in Nat
    <3>1. w.net_weight \in Nat
      BY <2>1 DEF Partial, Fields
    <3>2. QED BY <2>1, <3>1
  <2>9. QED BY <1>2, <2>1, <2>5, <2>6, <2>7, <2>8 DEF asked
<1>3. QED BY <1>1, <1>2

\* The merged form keeps the table's own numbers for what the edit leaves out.
LEMMA MergedForm ==
  ASSUME CatalogueAssumption, NEW row \in Rows, NEW asked, Partial(asked)
  PROVE  LET p == Over(asked, Cells(row))
         IN /\ p \in Forms
            /\ \A f \in DOMAIN asked : p[f] = asked[f]
            /\ \A f \in DOMAIN Fields \ (DOMAIN asked \cup Decimals) : p[f] = row[f]
            /\ \A f \in Decimals \ DOMAIN asked :
                 p[f] = Sent(row[f]) /\ Stored(p[f]) = row[f]
            /\ ~Odd(asked) => ~Odd(p)
<1> DEFINE c == Cells(row)
           p == Over(asked, c)
<1>1. c \in Forms
  BY CellsForm
<1>2. /\ p \in Forms
      /\ \A f \in DOMAIN asked : p[f] = asked[f]
      /\ \A f \in DOMAIN Fields \ DOMAIN asked : p[f] = c[f]
  BY <1>1, OverForm
<1>3. Decimals \subseteq DOMAIN Fields
  BY DEF Decimals, Weights, Amounts, Fields
<1>4. /\ \A f \in DOMAIN Fields \ (DOMAIN asked \cup Decimals) : p[f] = row[f]
      /\ \A f \in Decimals \ DOMAIN asked :
           p[f] = Sent(row[f]) /\ Stored(p[f]) = row[f] /\ Exact(p[f])
  BY <1>2, <1>3, CellsForm
<1>5. ASSUME ~Odd(asked) PROVE ~Odd(p)
  <2>1. \A f \in DOMAIN asked \cap Decimals : asked[f] \in Optional
    BY DEF Partial, Fields, Decimals, Weights, Amounts, Optional
  <2>2. \A f \in DOMAIN asked \cap Decimals : Exact(asked[f])
    BY <1>5, <2>1, OddNumbers
  <2>3. DOMAIN p \cap Decimals = Decimals /\ \A f \in Decimals : p[f] \in Optional
    BY <1>2, FormNumbers
  <2>4. \A f \in DOMAIN p \cap Decimals : Exact(p[f])
    BY <1>2, <1>4, <2>2, <2>3
  <2>5. QED BY <2>3, <2>4, OddNumbers
<1>6. QED BY <1>2, <1>4, <1>5

\* An edit writes every field its form changes: those it leaves out read the same in the
\* normalized form as in the row.
LEMMA UnwrittenStay ==
  ASSUME CatalogueAssumption, NEW row \in Rows, Fits(row), NEW asked, Partial(asked),
         Sound(Normalize(Over(asked, Cells(row)))),
         Normalize(Over(asked, Cells(row))).stock_mode = "weight"
           => "net_weight" \in DOMAIN asked
  PROVE  \A f \in DOMAIN Fields \ Written(DOMAIN asked) :
           Columns(Normalize(Over(asked, Cells(row))))[f] = row[f]
<1> DEFINE p == Over(asked, Cells(row))
           q == Normalize(p)
           c == Columns(q)
<1>1. /\ p \in Forms
      /\ \A f \in DOMAIN Fields \ (DOMAIN asked \cup Decimals) : p[f] = row[f]
      /\ \A f \in Decimals \ DOMAIN asked : p[f] = Sent(row[f]) /\ Stored(p[f]) = row[f]
  BY MergedForm
<1>2. q \in Forms /\ q.name = p.name /\ q.category = p.category
      /\ q.item_type = p.item_type /\ q.stock_mode = p.stock_mode
      /\ q.ratti = p.ratti /\ q.rate_per_ratti = p.rate_per_ratti
  BY <1>1, NormalizeType
<1>3. /\ \A f \in Decimals : c[f] = Stored(q[f])
      /\ c.name = q.name /\ c.category = q.category
      /\ c.item_type = q.item_type /\ c.stock_mode = q.stock_mode
      /\ c.pricing_method = q.pricing_method /\ c.metal = q.metal
      /\ c.purity = q.purity /\ c.quantity = q.quantity
  BY <1>2, ColumnFields
<1>4. row.pricing_method # "none" /\ row.fixed_rate \in Nat
  BY DEF Rows
<1>5. Sound(q)
  OBVIOUS
<1>6. DOMAIN Fields = {"name", "category", "item_type", "stock_mode", "pricing_method",
                       "metal", "purity", "quantity"} \cup Decimals
  BY DEF Fields, Decimals, Weights, Amounts
<1>7. q.stock_mode = "weight" => "net_weight" \in DOMAIN asked
  OBVIOUS
<1>8. LET same == q.pricing_method = p.pricing_method
      IN p.pricing_method # "none" => same
  BY <1>1, KnownMethod
<1> HIDE DEF p, c
<1>9. \A f \in {"name", "category", "item_type", "stock_mode", "pricing_method"}
             \ DOMAIN asked : c[f] = row[f]
  <2>1. \A f \in {"name", "category", "item_type", "stock_mode", "pricing_method"}
             \ DOMAIN asked : p[f] = row[f]
    BY <1>1, <1>6 DEF Decimals, Weights, Amounts
  <2>2. "pricing_method" \notin DOMAIN asked => q.pricing_method = p.pricing_method
    BY <1>4, <1>8, <2>1
  <2>3. QED BY <1>2, <1>3, <2>1, <2>2
<1>10. CASE DOMAIN asked \cap Regrouping # {}
  <2>1. Written(DOMAIN asked)
          = DOMAIN asked \cup Decimals \cup {"metal", "purity", "quantity"}
    BY <1>10 DEF Written, Regrouped
  <2>2. DOMAIN Fields \ Written(DOMAIN asked)
          \subseteq {"name", "category", "item_type", "stock_mode", "pricing_method"}
                     \ DOMAIN asked
    BY <1>6, <2>1
  <2>3. QED BY <1>9, <2>2 DEF c, p
<1>11. CASE DOMAIN asked \cap Regrouping = {}
  <2>1. Written(DOMAIN asked) = DOMAIN asked
    BY <1>11 DEF Written
  <2>2. {"category", "item_type", "pricing_method", "stock_mode", "net_weight"}
          \cap DOMAIN asked = {}
    BY <1>11 DEF Regrouping
  <2>3. /\ p.item_type = row.item_type /\ p.stock_mode = row.stock_mode
        /\ p.pricing_method = row.pricing_method /\ p.pricing_method # "none"
    BY <1>1, <1>4, <1>6, <2>2 DEF Decimals, Weights, Amounts
  <2>4. q.stock_mode = "quantity"
    BY <1>2, <1>7, <2>2 DEF Forms
  <2>5. row.stock_weight = Null /\ row.item_type = q.item_type
        /\ row.pricing_method = q.pricing_method /\ row.stock_mode = "quantity"
    BY <1>2, <1>8, <2>3, <2>4 DEF Fits
  <2>6. Stored(0) = 0 /\ Stored(Null) = Null
    BY StoredType DEF CatalogueAssumption, Optional
  <2>7. \A f \in {"metal", "purity", "quantity"} \ DOMAIN asked : p[f] = row[f]
    BY <1>1, <1>6 DEF Decimals, Weights, Amounts
  <2>8. \A f \in Decimals \ DOMAIN asked : Stored(p[f]) = row[f]
    BY <1>1
  <2>9. /\ "ratti" \notin DOMAIN asked => c.ratti = row.ratti
        /\ "rate_per_ratti" \notin DOMAIN asked => c.rate_per_ratti = row.rate_per_ratti
        /\ "stock_weight" \notin DOMAIN asked => c.stock_weight = row.stock_weight
    <3>1. q.stock_weight = Null
      BY <1>5, <2>4 DEF Sound
    <3>2. QED BY <1>2, <1>3, <2>5, <2>6, <2>8, <3>1 DEF Decimals, Weights, Amounts
  <2>10. "quantity" \notin DOMAIN asked => c.quantity = row.quantity
    <3>1. q.quantity = p.quantity
      BY <1>1, <2>3, <2>4, KnownMethod
    <3>2. QED BY <1>3, <2>7, <3>1
  <2>11. CASE q.item_type = "stone"
    <3>1. q.metal = "stone" /\ q.purity = 0 /\ q.net_weight = 0 /\ q.making_charge = 0
          /\ q.fixed_rate = 0
      BY <1>5, <2>11 DEF Sound
    <3>2. row.metal = "stone" /\ row.purity = 0 /\ row.net_weight = 0
          /\ row.making_charge = 0 /\ row.fixed_rate = 0
      BY <2>5, <2>11 DEF Fits
    <3>3. c.metal = row.metal /\ c.purity = row.purity /\ c.net_weight = row.net_weight
          /\ c.making_charge = row.making_charge /\ c.fixed_rate = row.fixed_rate
      BY <1>3, <2>6, <3>1, <3>2 DEF Decimals, Weights, Amounts
    <3>4. QED BY <1>6, <1>9, <2>1, <2>9, <2>10, <3>3 DEF Decimals, Weights, Amounts, c, p
  <2>12. CASE q.item_type # "stone"
    <3>1. /\ q.metal = p.metal /\ q.purity = p.purity /\ q.net_weight = p.net_weight
          /\ q.pricing_method = "fixed_rate" /\ p.fixed_rate # Null
               => q.fixed_rate = p.fixed_rate
          /\ q.pricing_method # "fixed_rate" => q.making_charge = p.making_charge
      BY <1>1, <2>3, <2>4, <2>12, KnownMethod
    <3>2. /\ q.pricing_method = "fixed_rate" => q.making_charge = 0 /\ row.making_charge = 0
          /\ q.pricing_method # "fixed_rate" => q.fixed_rate = 0 /\ row.fixed_rate = 0
      BY <1>5, <2>5, <2>12 DEF Sound, Fits
    <3>3. "fixed_rate" \notin DOMAIN asked => p.fixed_rate # Null
      <4>1. \A x \in Nat : Sent(x) # Null
        BY StoredSent DEF CatalogueAssumption, Optional, Null
      <4>2. QED BY <1>1, <1>4, <4>1 DEF Decimals, Weights, Amounts
    <3>4. /\ "metal" \notin DOMAIN asked => c.metal = row.metal
          /\ "purity" \notin DOMAIN asked => c.purity = row.purity
          /\ "net_weight" \notin DOMAIN asked => c.net_weight = row.net_weight
          /\ "making_charge" \notin DOMAIN asked => c.making_charge = row.making_charge
          /\ "fixed_rate" \notin DOMAIN asked => c.fixed_rate = row.fixed_rate
      BY <1>3, <2>6, <2>7, <2>8, <3>1, <3>2, <3>3 DEF Decimals, Weights, Amounts
    <3>5. QED BY <1>6, <1>9, <2>1, <2>9, <2>10, <3>4 DEF Decimals, Weights, Amounts, c, p
  <2>13. QED BY <2>11, <2>12
<1>12. QED BY <1>10, <1>11

\* So the row an accepted edit leaves is the row its form makes.
LEMMA EditedRow ==
  ASSUME CatalogueAssumption, NEW row \in Rows, Fits(row), NEW asked, Partial(asked),
         Sound(Normalize(Over(asked, Cells(row)))),
         Normalize(Over(asked, Cells(row))).stock_mode = "weight"
           => "net_weight" \in DOMAIN asked,
         NEW status
  PROVE  LET q == Normalize(Over(asked, Cells(row)))
             after == Over([f \in Written(DOMAIN asked) |-> Columns(q)[f]], row)
         IN /\ [after EXCEPT !.status = status] = RowOf(q, status)
            /\ after.status = row.status
<1> DEFINE q == Normalize(Over(asked, Cells(row)))
           c == Columns(q)
           W == Written(DOMAIN asked)
           after == Over([f \in W |-> c[f]], row)
           r == RowOf(q, status)
<1>1. q \in Forms
  BY MergedForm, NormalizeType
<1>2. W \subseteq DOMAIN Fields
  BY DEF Written, Regrouped, Decimals, Weights, Amounts, Fields, Partial
<1>3. \A f \in DOMAIN Fields \ W : c[f] = row[f]
  BY UnwrittenStay
<1>4. DOMAIN row = DOMAIN Fields \cup {"status"} /\ "status" \notin DOMAIN Fields
  BY RowDomain
<1>5. /\ DOMAIN r = DOMAIN Fields \cup {"status"} /\ r = [f \in DOMAIN r |-> r[f]]
      /\ \A f \in DOMAIN Fields : r[f] = c[f]
      /\ r.status = status
  <2>1. r = [f \in DOMAIN r |-> r[f]]
    BY DEF RowOf, Over
  <2> HIDE DEF q
  <2>2. /\ DOMAIN r = DOMAIN Fields \cup {"status"} /\ r.status = status
        /\ \A f \in DOMAIN Fields : r[f] = c[f]
    <3> HIDE DEF c, W, after, r
    <3>1. /\ DOMAIN RowOf(q, status) = DOMAIN Fields \cup {"status"}
          /\ \A f \in DOMAIN Fields : RowOf(q, status)[f] = Columns(q)[f]
          /\ RowOf(q, status).status = status
      BY <1>1, RowWhole
    <3>2. QED BY <3>1 DEF r, c
  <2>3. QED BY <2>1, <2>2
<1> HIDE DEF q, c, W, r
<1>6. DOMAIN after = DOMAIN Fields \cup {"status"}
  BY <1>2, <1>4 DEF Over
<1>7. \A f \in DOMAIN Fields : after[f] = c[f]
  BY <1>2, <1>3, <1>4 DEF Over
<1>8. after.status = row.status
  BY <1>2, <1>4 DEF Over
<1>9. [after EXCEPT !.status = status] = r
  <2> DEFINE s == [after EXCEPT !.status = status]
  <2>1. s = [f \in DOMAIN after |-> IF f = "status" THEN status ELSE after[f]]
    BY DEF Over
  <2> HIDE DEF after, s
  <2>2. DOMAIN s = DOMAIN r
    BY <1>5, <1>6, <2>1
  <2>3. \A f \in DOMAIN Fields : s[f] = r[f]
    BY <1>4, <1>5, <1>6, <1>7, <2>1
  <2>4. s.status = r.status
    BY <1>5, <1>6, <2>1
  <2>5. s = [f \in DOMAIN s |-> s[f]]
    BY <2>1
  <2>6. s = r
    BY <1>5, <2>2, <2>3, <2>4, <2>5
  <2>7. QED BY <2>6 DEF s
<1>10. QED BY <1>8, <1>9 DEF q, c, W, after, r

LEMMA UpdateStep ==
  ASSUME CatalogueAssumption, CatalogueInv, NEW b \in Edited, NEW r \in Changes, Update(b, r)
  PROVE  CatalogueInv'
<1> DEFINE row == shop[b]
           newMode == IF "stock_mode" \in DOMAIN r THEN r.stock_mode ELSE row.stock_mode
           asked == Asked(row, r, newMode)
           p == Over(asked, Cells(row))
           q == Normalize(p)
           activates == row.quantity = 0 /\ "quantity" \in DOMAIN asked /\ asked.quantity > 0
           emptied == q.stock_mode = "weight" /\ q.stock_weight = 0
           status == IF emptied THEN "sold" ELSE "in_stock"
           after == Over([f \in Written(DOMAIN asked) |-> Columns(q)[f]], row)
           saved == [after EXCEPT !.status = IF emptied THEN "sold" ELSE @]
<1>1. b \in Barcodes /\ b \in Taken /\ Partial(r)
  BY DEF CatalogueAssumption, Update
<1>2. row \in Rows /\ Fits(row)
  BY <1>1 DEF CatalogueInv, CatalogueTypeOK
<1>3. CASE /\ row.status = "in_stock"
           /\ newMode = "weight" => EditedWeight(row, r) # NoItem
           /\ activates => CanActivate(1)
           /\ Valid(q)
           /\ Save([c \in {b} |-> saved], {c \in {b} : Odd(r)})
  <2>1. /\ Partial(asked)
        /\ ~Odd(r) => ~Odd(asked)
        /\ \A f \in {"stock_mode", "item_type"} :
             /\ f \in DOMAIN asked <=> f \in DOMAIN r
             /\ f \in DOMAIN r => asked[f] = r[f]
        /\ newMode = "weight" =>
             /\ {"net_weight", "stock_weight", "quantity"} \subseteq DOMAIN asked
             /\ asked.stock_weight \in Nat
             /\ asked.quantity = IF asked.stock_weight > 0 THEN 1 ELSE 0
    <3> HIDE DEF newMode
    <3>1. newMode = "weight" => EditedWeight(row, r) # NoItem
      BY <1>3
    <3>2. QED BY <1>1, <1>2, <3>1, AskedFields
  <2> HIDE DEF asked
  <2>2. /\ p \in Forms
        /\ \A f \in DOMAIN asked : p[f] = asked[f]
        /\ \A f \in DOMAIN Fields \ (DOMAIN asked \cup Decimals) : p[f] = row[f]
        /\ ~Odd(asked) => ~Odd(p)
    BY <1>2, <2>1, MergedForm
  <2>3. q \in Forms /\ Sound(q) /\ q.stock_mode = p.stock_mode
    BY <1>3, <2>2, NormalizeType, ValidIsSound
  <2>4. {"stock_mode", "quantity"} \subseteq DOMAIN Fields \ Decimals
    BY DEF Fields, Decimals, Weights, Amounts
  <2>5. q.stock_mode = newMode
    BY <2>1, <2>2, <2>3, <2>4
  <2>6. /\ q.stock_mode = "quantity" => q.quantity = p.quantity
        /\ q.stock_mode = "weight" /\ p.stock_weight # Null
             => q.stock_weight = p.stock_weight
    BY <2>2, <2>3, KeptStock
  <2>7. q.stock_mode = "weight" => "net_weight" \in DOMAIN asked
    BY <2>1, <2>5
  <2>8. /\ \A s : [after EXCEPT !.status = s] = RowOf(q, s)
        /\ after.status = row.status
    <3> HIDE DEF newMode
    <3>1. Sound(Normalize(Over(asked, Cells(row))))
          /\ (Normalize(Over(asked, Cells(row))).stock_mode = "weight"
                => "net_weight" \in DOMAIN asked)
      BY <2>3, <2>7
    <3>2. ASSUME NEW s
          PROVE  [after EXCEPT !.status = s] = RowOf(q, s) /\ after.status = row.status
      <4>1. row \in Rows /\ Fits(row) /\ Partial(asked)
        BY <1>2, <2>1
      <4> HIDE DEF asked, row
      <4>2. LET n == Normalize(Over(asked, Cells(row)))
                a == Over([f \in Written(DOMAIN asked) |-> Columns(n)[f]], row)
            IN [a EXCEPT !.status = s] = RowOf(n, s) /\ a.status = row.status
        BY <3>1, <4>1, EditedRow
      <4>3. QED BY <4>2
    <3>3. QED BY <3>2
  <2>9. saved = RowOf(q, status)
    <3> HIDE DEF after, emptied, q
    <3>1. saved = [after EXCEPT !.status = status]
      BY <1>3, <2>8
    <3>2. QED BY <2>8, <3>1
  <2>10. q.quantity > 0 => row.quantity > 0 \/ CanActivate(1)
    <3>1. SUFFICES ASSUME q.quantity > 0, row.quantity = 0
                   PROVE  "quantity" \in DOMAIN asked /\ asked.quantity > 0
      BY <1>2, <1>3 DEF Rows
    <3>2. CASE newMode = "weight"
      <4>1. p.stock_weight = asked.stock_weight /\ asked.stock_weight \in Nat
            /\ "quantity" \in DOMAIN asked
            /\ asked.quantity = IF asked.stock_weight > 0 THEN 1 ELSE 0
        BY <2>1, <2>2, <3>2
      <4>2. q.stock_mode = "weight" /\ q.stock_weight = asked.stock_weight
        BY <2>5, <2>6, <3>2, <4>1 DEF Null
      <4>3. q.quantity = IF q.stock_weight > 0 THEN 1 ELSE 0
        BY <2>3, <4>2 DEF Sound
      <4>4. QED BY <3>1, <4>1, <4>2, <4>3
    <3>3. CASE newMode # "weight"
      <4>1. q.quantity = p.quantity
        BY <2>3, <2>5, <2>6, <3>3 DEF Forms
      <4>2. QED BY <2>2, <2>4, <3>1, <4>1
    <3>4. QED BY <3>2, <3>3
  <2>11. status \in {"in_stock", "sold"}
         /\ (q.stock_mode = "weight" => (status = "in_stock" <=> q.stock_weight > 0))
    <3>1. q.stock_mode = "weight" => q.stock_weight \in Nat
      BY <2>3 DEF Sound, Forms
    <3>2. QED BY <3>1
  <2>12. /\ Fits(RowOf(q, status)) => RowOf(q, status) \in Rows
         /\ RowOf(q, status).stock_mode = "weight" /\ RowOf(q, status).status = "in_stock"
              => RowOf(q, status).quantity = 1
         /\ ~Odd(p) => Fits(RowOf(q, status)) /\ Tells(RowOf(q, status))
         /\ RowOf(q, status).quantity = q.quantity /\ RowOf(q, status).status = status
    <3> HIDE DEF p, status
    <3>1. QED BY <1>3, <2>2, <2>11, GoodRow
  <2>13. InStock(saved) => b \in Active \/ CanActivate(1)
    BY <1>1, <1>3, <2>9, <2>10, <2>12 DEF InStock, Active
  <2>14. Odd(r) \in BOOLEAN
    BY DEF Odd
  <2> HIDE DEF saved, status, q, p
  <2>15. /\ Fits(saved) => saved \in Rows
         /\ saved.stock_mode = "weight" /\ saved.status = "in_stock" => saved.quantity = 1
         /\ ~Odd(r) => Fits(saved) /\ Tells(saved)
    BY <2>1, <2>2, <2>9, <2>12
  <2>16. Save([c \in {b} |-> saved], {c \in {b} : Odd(r)})
    BY <1>3 DEF saved, q, p
  <2>17. QED BY <1>1, <2>13, <2>14, <2>15, <2>16, OneRowSaved
<1>4. CASE Refuse
  BY <1>4, RefuseKeeps DEF Refuse
<1>5. QED
  BY <1>3, <1>4 DEF Update, Asked

-----------------------------------------------------------------------------
(* Sales, archiving, a barcode given twice.                                 *)

\* One good row replaced by another, with nothing new in stock.
LEMMA OneRowChanged ==
  ASSUME CatalogueAssumption, CatalogueInv, NEW b \in Taken, NEW row \in Rows,
         shop' = [shop EXCEPT ![b] = row], everSold' \subseteq everSold \cup {b}, finer' = finer,
         Fits(row), Tells(row),
         row.stock_mode = "weight" /\ row.status = "in_stock" => row.quantity = 1,
         InStock(row) => b \in Active,
         outcome' = "saved", odd' = FALSE
  PROVE  CatalogueInv'
<1>1. ShopType /\ CatalogueTypeOK
  BY DEF CatalogueInv
<1>2. b \in Barcodes /\ DOMAIN shop = Barcodes
  BY <1>1 DEF Taken, ShopType
<1>3. /\ shop' \in [Barcodes -> Rows \cup {NoItem}] /\ shop'[b] = row
      /\ \A c \in Barcodes \ {b} : shop'[c] = shop[c]
  BY <1>1, <1>2 DEF ShopType
<1>4. Taken \cup {b} \subseteq Taken'
  <2>1. /\ \A c \in Barcodes : c \in Taken <=> shop[c] # NoItem
        /\ \A c \in Barcodes : c \in Taken' <=> shop'[c] # NoItem
        /\ Taken \subseteq Barcodes
    BY DEF Taken
  <2>2. b \in Taken'
    BY <1>2, <1>3, TakenRowsNext DEF ShopType, Taken
  <2>3. QED BY <1>2, <1>3, <2>1, <2>2
<1>5. everSold' \subseteq Taken'
  BY <1>1, <1>4 DEF CatalogueTypeOK
<1> DEFINE S == {b}
           G == {x \in {} : FALSE}
<1>6. /\ S \in SUBSET Barcodes /\ G \in SUBSET S /\ IsFiniteSet(G) /\ Cardinality(G) <= 0
      /\ CanActivate(0) /\ 0 \in Nat
  <2>1. G = {} OBVIOUS
  <2>2. QED BY <1>2, <2>1, FS_EmptySet DEF CanActivate
<1>7. /\ \A c \in Barcodes \ S : shop'[c] = shop[c]
      /\ \A c \in S : shop'[c] \in Rows /\ Fits(shop'[c])
      /\ \A c \in S : shop'[c].stock_mode = "weight" /\ shop'[c].status = "in_stock" =>
                        shop'[c].quantity = 1
      /\ finer \subseteq finer' /\ finer' \subseteq finer \cup S
      /\ \A c \in S \ finer' : Tells(shop'[c])
      /\ \A c \in S : InStock(shop'[c]) => c \in Active \cup G
      /\ outcome' \in {"saved"} /\ odd' \in BOOLEAN
  BY <1>3
<1> HIDE DEF S, G
<1>8. QED BY <1>3, <1>5, <1>6, <1>7, RowsChange

LEMMA StockFields ==
  ASSUME NEW row \in Rows, NEW quantity \in Nat, NEW status \in {"in_stock", "sold", "archived"}
  PROVE  /\ [row EXCEPT !.quantity = quantity, !.status = status] \in Rows
         /\ \A weight \in {Null} \cup 0..Limit :
              [row EXCEPT !.stock_weight = weight, !.quantity = quantity, !.status = status]
                \in Rows
<1>1. \A r \in Rows : [r EXCEPT !.quantity = quantity] \in Rows
  BY DEF Rows
<1>2. \A r \in Rows : [r EXCEPT !.status = status] \in Rows
  BY DEF Rows
<1>3. \A r \in Rows : \A weight \in {Null} \cup 0..Limit :
        [r EXCEPT !.stock_weight = weight] \in Rows
  BY DEF Rows
<1>4. [row EXCEPT !.quantity = quantity, !.status = status]
        = [[row EXCEPT !.quantity = quantity] EXCEPT !.status = status]
  BY DEF Rows
<1>5. \A weight \in {Null} \cup 0..Limit :
        [row EXCEPT !.stock_weight = weight, !.quantity = quantity, !.status = status]
          = [[[row EXCEPT !.stock_weight = weight] EXCEPT !.quantity = quantity]
               EXCEPT !.status = status]
  BY DEF Rows
<1>6. QED BY <1>1, <1>2, <1>3, <1>4, <1>5

LEMMA SellStep ==
  ASSUME CatalogueAssumption, CatalogueInv, NEW b \in Edited, NEW n \in 1..Limit, Sell(b, n)
  PROVE  CatalogueInv'
<1> DEFINE row == shop[b]
           left == (IF row.stock_mode = "weight" THEN row.stock_weight ELSE row.quantity) - n
           cut == [row EXCEPT !.stock_weight = left, !.quantity = IF left = 0 THEN 0 ELSE 1,
                              !.status = IF left = 0 THEN "sold" ELSE @]
           counted == [row EXCEPT !.quantity = left,
                                  !.status = IF left = 0 THEN "sold" ELSE @]
           new == IF row.stock_mode = "weight" THEN cut ELSE counted
<1>1. b \in Taken /\ row.status = "in_stock" /\ left >= 0
  BY DEF Sell
<1>2. row \in Rows /\ Fits(row)
  BY <1>1 DEF CatalogueInv, CatalogueTypeOK
<1>3. Limit \in Nat \ {0} /\ n \in Nat /\ n > 0
  BY DEF CatalogueAssumption
<1>4. row.stock_mode = "weight" => row.stock_weight \in Nat /\ row.net_weight \in Nat
                                   /\ row.stock_weight <= row.net_weight
                                   /\ row.quantity = 1
  BY <1>1, <1>2 DEF Fits, Rows, CatalogueInv, WeighedIsOne
<1>5. left \in Nat /\ row.quantity \in Nat
  BY <1>1, <1>2, <1>3, <1>4 DEF Rows
<1>6. row.stock_mode \in {"weight", "quantity"}
  BY <1>2 DEF Rows
<1>7. shop' = [shop EXCEPT ![b] = new]
  <2>1. shop' = [shop EXCEPT ![b] =
                   [IF row.stock_mode = "weight"
                    THEN [row EXCEPT !.stock_weight = left,
                                     !.quantity = IF left = 0 THEN 0 ELSE 1]
                    ELSE [row EXCEPT !.quantity = left]
                      EXCEPT !.status = IF left = 0 THEN "sold" ELSE @]]
    BY DEF Sell
  <2>2. /\ [[row EXCEPT !.stock_weight = left, !.quantity = IF left = 0 THEN 0 ELSE 1]
               EXCEPT !.status = IF left = 0 THEN "sold" ELSE @] = cut
        /\ [[row EXCEPT !.quantity = left]
               EXCEPT !.status = IF left = 0 THEN "sold" ELSE @] = counted
    <3> HIDE DEF left
    <3>1. QED BY <1>2 DEF Rows
  <2> HIDE DEF left, cut, counted
  <2>3. QED BY <2>1, <2>2
<1>8. new \in Rows
  <2> DEFINE status == IF left = 0 THEN "sold" ELSE row.status
             quantity == IF left = 0 THEN 0 ELSE 1
  <2>1. status \in {"in_stock", "sold", "archived"} /\ quantity \in Nat
    BY <1>1
  <2>2. row.stock_mode = "weight" => left \in {Null} \cup 0..Limit
    <3>1. row.stock_mode = "weight" => left <= Limit
      BY <1>2, <1>3, <1>4, <1>5 DEF Rows, Null
    <3>2. QED BY <1>3, <1>5, <3>1
  <2>3. /\ row.stock_mode = "weight" =>
             new = [row EXCEPT !.stock_weight = left, !.quantity = quantity, !.status = status]
        /\ row.stock_mode # "weight" =>
             new = [row EXCEPT !.quantity = left, !.status = status]
    BY <1>2
  <2> HIDE DEF new, left, status, quantity, row
  <2>4. row \in Rows /\ left \in Nat
    BY <1>2, <1>5
  <2>5. ASSUME row.stock_mode = "weight" PROVE new \in Rows
    <3>1. left \in {Null} \cup 0..Limit
      BY <2>2, <2>5
    <3>2. [row EXCEPT !.stock_weight = left, !.quantity = quantity, !.status = status] \in Rows
      BY <2>1, <2>4, <3>1, StockFields
    <3>3. QED BY <2>3, <2>5, <3>2
  <2>6. ASSUME row.stock_mode # "weight" PROVE new \in Rows
    <3>1. [row EXCEPT !.quantity = left, !.status = status] \in Rows
      BY <2>1, <2>4, StockFields
    <3>2. QED BY <2>3, <2>6, <3>1
  <2>7. QED BY <2>5, <2>6
<1>9. /\ new.stock_mode = row.stock_mode /\ new.item_type = row.item_type
      /\ new.metal = row.metal /\ new.pricing_method = row.pricing_method
      /\ new.purity = row.purity /\ new.net_weight = row.net_weight
      /\ new.making_charge = row.making_charge /\ new.fixed_rate = row.fixed_rate
      /\ new.ratti = row.ratti /\ new.rate_per_ratti = row.rate_per_ratti
      /\ new.status = IF left = 0 THEN "sold" ELSE "in_stock"
  <2> HIDE DEF left
  <2>1. QED BY <1>1, <1>2 DEF Rows
<1>10. /\ row.stock_mode = "weight" =>
            new.stock_weight = left /\ new.quantity = IF left = 0 THEN 0 ELSE 1
       /\ row.stock_mode = "quantity" =>
            new.stock_weight = row.stock_weight /\ new.quantity = left
  <2> HIDE DEF left
  <2>1. QED BY <1>2 DEF Rows
<1>11. row.stock_mode = "weight" => left \in 0..row.net_weight /\ left < row.stock_weight
  BY <1>3, <1>4, <1>5
<1>12. row.stock_mode = "quantity" => left < row.quantity
  BY <1>3, <1>5
<1> HIDE DEF new, left, row
<1>13. Fits(new)
  <2>1. \A f \in Decimals : new[f] <= Limit
    BY <1>3, <1>8 DEF Decimals, Weights, Amounts, Rows, Null
  <2>2. CASE row.stock_mode = "weight"
    BY <1>2, <1>9, <1>10, <1>11, <2>1, <2>2 DEF Fits
  <2>3. CASE row.stock_mode = "quantity"
    BY <1>2, <1>9, <1>10, <2>1, <2>3 DEF Fits
  <2>4. QED BY <1>6, <2>2, <2>3
<1>14. Tells(new)
  BY <1>5, <1>9, <1>10 DEF Tells
<1>15. new.stock_mode = "weight" /\ new.status = "in_stock" => new.quantity = 1
  BY <1>9, <1>10
<1>16. InStock(new) => b \in Active
  <2>1. row.quantity > 0
    BY <1>4, <1>5, <1>6, <1>12
  <2>2. QED BY <1>1, <2>1 DEF Active, row
<1>17. everSold' \subseteq everSold \cup {b} /\ finer' = finer /\ outcome' = "saved" /\ odd' = FALSE
  BY DEF Sell
<1>18. QED BY <1>1, <1>7, <1>8, <1>13, <1>14, <1>15, <1>16, <1>17, OneRowChanged

LEMMA ArchiveStep ==
  ASSUME CatalogueAssumption, CatalogueInv, NEW b \in Edited, ArchiveItem(b)
  PROVE  CatalogueInv'
<1> DEFINE row == shop[b]
           new == [row EXCEPT !.quantity = 0, !.status = "archived"]
<1>1. b \in Taken
  BY DEF ArchiveItem
<1>2. row \in Rows /\ Fits(row)
  BY <1>1 DEF CatalogueInv, CatalogueTypeOK
<1>3. shop' = [shop EXCEPT ![b] = new]
  BY <1>1, <1>2 DEF ArchiveItem, Rows
<1>4. new \in Rows /\ Fits(new)
  <2>1. new \in Rows
    BY <1>2, StockFields DEF Null
  <2>2. /\ new.quantity = 0
        /\ \A f \in (DOMAIN Fields) \ {"quantity"} : new[f] = row[f]
    BY <1>2, RowDomain DEF Fields
  <2> HIDE DEF new
  <2>3. QED BY <1>2, <2>1, <2>2 DEF Fits, Fields, Decimals, Weights, Amounts
<1>5. new.status = "archived"
  BY <1>2 DEF Rows
<1>6. Tells(new) /\ ~InStock(new)
      /\ (new.stock_mode = "weight" /\ new.status = "in_stock" => new.quantity = 1)
  BY <1>5 DEF Tells, InStock
<1>7. everSold' \subseteq everSold \cup {b} /\ finer' = finer /\ outcome' = "saved" /\ odd' = FALSE
  BY DEF ArchiveItem
<1> HIDE DEF new
<1>8. QED BY <1>1, <1>3, <1>4, <1>6, <1>7, OneRowChanged

-----------------------------------------------------------------------------
(* Import.                                                                  *)

\* What the reader does to a text and to a metal.
LEMMA TextsRead ==
  /\ \A t \in Texts : /\ Safe(t) \in Texts /\ Read(t) \in Texts
                      /\ Read(Safe(t)) = "" <=> Strip(t) = ""
  /\ \A m \in Metals : Lower(Read(m)) \in Metals /\ Lower(Read(m)) = Lower(Strip(m))
  /\ \A m \in RowMetals :
       /\ Lower(Strip(m)) = "" <=> Strip(m) = ""
       /\ Lower(Strip(Lower(Strip(m)))) = "stone" <=> m = "stone"
       /\ Lower(Strip(m)) = "silver" <=> Lower(m) = "silver"
<1>1. ASSUME NEW t \in Texts
      PROVE  /\ Safe(t) \in Texts /\ Read(t) \in Texts
             /\ Read(Safe(t)) = "" <=> Strip(t) = ""
  BY <1>1 DEF Texts, Safe, Read, Unquote, Strip
<1>2. ASSUME NEW m \in Metals
      PROVE  Lower(Read(m)) \in Metals /\ Lower(Read(m)) = Lower(Strip(m))
  BY <1>2 DEF Metals, Lower, Read, Unquote, Strip
<1>3. ASSUME NEW m \in RowMetals
      PROVE  /\ Lower(Strip(m)) = "" <=> Strip(m) = ""
             /\ Lower(Strip(Lower(Strip(m)))) = "stone" <=> m = "stone"
             /\ Lower(Strip(m)) = "silver" <=> Lower(m) = "silver"
  BY <1>3 DEF RowMetals, Metals, Lower, Strip
<1>4. QED BY <1>1, <1>2, <1>3

\* What the importer reads from a line is a form, and no number in it is new.
LEMMA PayloadForm ==
  ASSUME CatalogueAssumption, NEW cells \in Forms
  PROVE  ItemPayload(cells) \in Forms /\ (~Odd(cells) => ~Odd(ItemPayload(cells)))
<1> DEFINE stone == cells.item_type = "stone"
           fixed == cells.pricing_method = "fixed_rate"
           name == Read(cells.name)
           metal == IF stone THEN "stone" ELSE Lower(Read(cells.metal))
           purity == IF stone THEN 0 ELSE cells.purity
           weight == IF stone THEN 0 ELSE cells.net_weight
           quantity == IF cells.stock_mode = "weight" THEN 1 ELSE cells.quantity
           making == IF stone \/ fixed THEN 0 ELSE cells.making_charge
           rate == IF ~stone /\ fixed THEN cells.fixed_rate ELSE 0
           p == ItemPayload(cells)
<1>1. /\ name \in Texts /\ metal \in Metals
      /\ purity \in Nat /\ weight \in Nat /\ quantity \in Nat /\ making \in Nat
      /\ rate \in Optional
  <2>1. cells.name \in Texts /\ cells.metal \in Metals /\ "stone" \in Metals
    BY DEF Forms, Metals
  <2>2. name \in Texts /\ metal \in Metals
    BY <2>1, TextsRead
  <2>3. QED BY <2>2 DEF Forms, Optional
<1>2. p = [cells EXCEPT !.name = name, !.metal = metal, !.purity = purity,
                        !.net_weight = weight, !.quantity = quantity,
                        !.making_charge = making, !.fixed_rate = rate]
  BY DEF ItemPayload, Forms
<1>3. /\ weight \in {0, cells.net_weight} /\ making \in {0, cells.making_charge}
      /\ rate \in {0, cells.fixed_rate}
  OBVIOUS
<1> HIDE DEF name, metal, purity, weight, quantity, making, rate, p
<1>4. p \in Forms
  BY <1>1, <1>2 DEF Forms
<1>5. /\ p.net_weight = weight /\ p.making_charge = making /\ p.fixed_rate = rate
      /\ p.stock_weight = cells.stock_weight /\ p.ratti = cells.ratti
      /\ p.rate_per_ratti = cells.rate_per_ratti
  BY <1>2 DEF Forms
<1>6. ASSUME ~Odd(cells) PROVE ~Odd(p)
  <2>1. \A f \in Decimals : Exact(cells[f])
    BY <1>6, OddNumbers, FormNumbers
  <2>2. \A f \in Decimals : Exact(p[f])
    BY <1>3, <1>5, <2>1, ExactZero DEF Decimals, Weights, Amounts
  <2>3. QED BY <1>4, <2>2, OddNumbers, FormNumbers
<1>7. QED BY <1>4, <1>6 DEF p

LEMMA ImportedLines ==
  ASSUME CatalogueAssumption, NEW file \in Files, NEW existing,
         NEW drawn \in Drawn(file, Accepted(file, existing), existing)
  PROVE  LET accepted == Accepted(file, existing)
             lines == Coded(file, accepted, drawn)
         IN /\ IsFiniteSet(accepted) /\ IsFiniteSet(DOMAIN lines)
            /\ Cardinality(DOMAIN lines) <= Cardinality(accepted)
            /\ accepted \subseteq Candidates(file)
            /\ DOMAIN lines \subseteq Barcodes
            /\ \A b \in DOMAIN lines : lines[b] \in accepted
<1> DEFINE accepted == Accepted(file, existing)
           lines == Coded(file, accepted, drawn)
           codes == {Code(file, drawn, i) : i \in accepted}
           blank == {i \in accepted : file[i].barcode = 0}
           given == {file[i].barcode : i \in accepted} \ {0}
           code == [i \in accepted |-> Code(file, drawn, i)]
<1>1. accepted \subseteq Candidates(file) /\ Candidates(file) \subseteq DOMAIN file
  BY DEF Accepted, Candidates
<1>2. IsFiniteSet(DOMAIN file) /\ \A i \in DOMAIN file : file[i].barcode \in Barcodes \cup {0}
  BY DEF CatalogueAssumption
<1>3. IsFiniteSet(accepted)
  BY <1>1, <1>2, FS_Subset
<1>4. drawn \in [blank -> Barcodes \ (existing \cup given)]
  BY DEF Drawn
<1>5. \A i \in accepted : Code(file, drawn, i) \in Barcodes
  BY <1>1, <1>2, <1>4 DEF Code
<1>6. DOMAIN lines = codes /\ \A b \in codes : lines[b] \in accepted
  BY DEF Coded
<1>7. codes \subseteq Barcodes
  BY <1>5
<1>8. code \in Surjection(accepted, codes)
  BY DEF Surjection
<1>9. IsFiniteSet(codes) /\ Cardinality(codes) <= Cardinality(accepted)
  BY <1>3, <1>8, FS_Surjection
<1>10. QED BY <1>1, <1>3, <1>6, <1>7, <1>9

LEMMA ImportStep ==
  ASSUME CatalogueAssumption, CatalogueInv, NEW file \in Files, NEW large \in BOOLEAN,
         Import(file, large)
  PROVE  CatalogueInv'
<1> DEFINE accepted == Accepted(file, Taken)
           drawings == Drawn(file, accepted, Taken)
           drawn == CHOOSE f \in drawings : TRUE
           lines == Coded(file, accepted, drawn)
           rows == Added(file, lines)
           odds == {b \in DOMAIN lines : Odd(file[lines[b]].cells)}
           n == Cardinality(accepted)
<1>1. CASE Parses(file, large) /\ CanActivate(n) /\ drawings # {} /\ Save(rows, odds)
  <2>1. drawn \in drawings
    BY <1>1
  <2>2. /\ IsFiniteSet(accepted) /\ IsFiniteSet(DOMAIN lines)
        /\ Cardinality(DOMAIN lines) <= n
        /\ accepted \subseteq Candidates(file)
        /\ DOMAIN lines \subseteq Barcodes
        /\ \A b \in DOMAIN lines : lines[b] \in accepted
    <3> HIDE DEF drawn
    <3>1. QED BY <2>1, ImportedLines
  <2>3. n \in Nat
    BY <2>2, FS_CardinalityType
  <2> HIDE DEF lines, n, drawn
  <2>4. DOMAIN rows = DOMAIN lines
        /\ \A b \in DOMAIN lines : rows[b] = NewRow(Candidate(file, lines[b]))
    BY DEF Added
  <2>5. ASSUME NEW b \in DOMAIN lines
        PROVE  /\ Fits(rows[b]) => rows[b] \in Rows
               /\ rows[b].stock_mode = "weight" /\ rows[b].status = "in_stock"
                    => rows[b].quantity = 1
               /\ ~Odd(file[lines[b]].cells) => Fits(rows[b]) /\ Tells(rows[b])
    <3> DEFINE i == lines[b]
               p == ItemPayload(file[i].cells)
               q == Normalize(p)
    <3>1. i \in Candidates(file) /\ i \in DOMAIN file
      BY <2>2 DEF Candidates
    <3>2. file[i].cells \in Forms
      BY <3>1, FormIsRecord DEF CatalogueAssumption
    <3>3. p \in Forms /\ (~Odd(file[i].cells) => ~Odd(p))
      <4> HIDE DEF i
      <4>1. QED BY <3>2, PayloadForm
    <3>4. Valid(q) /\ q.quantity > 0
      BY <1>1, <3>1 DEF Parses, Candidate
    <3>5. q \in Forms /\ Sound(q)
      <4> HIDE DEF p
      <4>1. QED BY <3>3, <3>4, NormalizeType, ValidIsSound
    <3>6. q.stock_mode = "weight" => ("in_stock" = "in_stock" <=> q.stock_weight > 0)
      BY <3>4, <3>5 DEF Sound
    <3>7. rows[b] = RowOf(q, "in_stock")
      BY <2>4 DEF NewRow, RowOf, Candidate
    <3> HIDE DEF p
    <3>8. LET row == RowOf(Normalize(p), "in_stock")
          IN /\ Fits(row) => row \in Rows
             /\ row.stock_mode = "weight" /\ row.status = "in_stock" => row.quantity = 1
             /\ ~Odd(p) => Fits(row) /\ Tells(row)
      BY <3>3, <3>4, <3>6, GoodRow
    <3>9. QED BY <3>3, <3>7, <3>8
  <2> DEFINE G == DOMAIN rows
  <2>6. /\ DOMAIN rows \subseteq Barcodes /\ odds \subseteq DOMAIN rows
        /\ \A b \in DOMAIN rows \ odds : Fits(rows[b]) /\ Tells(rows[b])
        /\ \A b \in DOMAIN rows : Fits(rows[b]) => rows[b] \in Rows
        /\ \A b \in DOMAIN rows :
             rows[b].stock_mode = "weight" /\ rows[b].status = "in_stock" => rows[b].quantity = 1
        /\ G \in SUBSET (DOMAIN rows) /\ IsFiniteSet(G) /\ Cardinality(G) <= n
        /\ \A b \in DOMAIN rows : InStock(rows[b]) => b \in Active \cup G
    <3> HIDE DEF rows
    <3>1. DOMAIN rows \subseteq Barcodes /\ odds \subseteq DOMAIN rows
          /\ IsFiniteSet(G) /\ Cardinality(G) <= n
      BY <2>2, <2>4
    <3>2. \A b \in DOMAIN rows \ odds : Fits(rows[b]) /\ Tells(rows[b])
      BY <2>4, <2>5
    <3>3. QED BY <2>4, <2>5, <3>1, <3>2
  <2>7. Save(rows, odds) /\ CanActivate(n)
    BY <1>1 DEF n
  <2> HIDE DEF rows, odds, G
  <2>8. QED BY <2>3, <2>6, <2>7, SaveKeeps
<1>2. CASE Refuse
  BY <1>2, RefuseKeeps DEF Refuse
<1>3. QED BY <1>1, <1>2 DEF Import

-----------------------------------------------------------------------------
LEMMA InitCatalogueInv ==
  ASSUME CatalogueAssumption, CatalogueInit
  PROVE  CatalogueInv
<1>1. \A b \in Barcodes : shop[b] = NoItem
  BY DEF CatalogueInit
<1>2. ShopType
  BY DEF CatalogueInit, ShopType
<1>3. Taken = {} /\ Active = {}
  BY <1>1 DEF Taken, Active
<1>4. Cardinality(Active) <= ActiveLimit
  BY <1>3, FS_EmptySet DEF CatalogueAssumption
<1>5. CatalogueTypeOK
  BY <1>3, <1>4 DEF CatalogueTypeOK, CatalogueInit
<1>6. QuantityTellsWeight /\ WeighedIsOne /\ OnlyOddNumbersFail
  BY <1>3 DEF QuantityTellsWeight, WeighedIsOne, OnlyOddNumbersFail, CatalogueInit
<1>7. QED BY <1>2, <1>5, <1>6 DEF CatalogueInv

LEMMA CatalogueInvariance == CatalogueSpec => []CatalogueInv
<1>1. CatalogueAssumption
  BY CatalogueAssumption
<1>2. CatalogueInit => CatalogueInv
  BY <1>1, InitCatalogueInv
<1>3. CatalogueInv /\ [CatalogueNext]_catalogueVars => CatalogueInv'
  <2> SUFFICES ASSUME CatalogueInv, [CatalogueNext]_catalogueVars
               PROVE  CatalogueInv'
    OBVIOUS
  <2>1. CASE \E b \in Edited : \E p \in Payloads : Create(b, p)
    BY <1>1, <2>1, CreateStep
  <2>2. CASE \E b \in Edited : CreateTwice(b)
    BY <2>2, RefuseKeeps DEF CreateTwice, Refuse
  <2>3. CASE \E b \in Edited : \E r \in Changes : Update(b, r)
    BY <1>1, <2>3, UpdateStep
  <2>4. CASE \E b \in Edited : \E n \in 1..Limit : Sell(b, n)
    BY <1>1, <2>4, SellStep
  <2>5. CASE \E b \in Edited : ArchiveItem(b)
    BY <1>1, <2>5, ArchiveStep
  <2>6. CASE \E file \in Files, large \in BOOLEAN : Import(file, large)
    BY <1>1, <2>6, ImportStep
  <2>7. CASE UNCHANGED catalogueVars
    <3>1. Taken' = Taken /\ Active' = Active
      BY <2>7 DEF catalogueVars, Taken, Active
    <3>2. QED
      BY <2>7, <3>1
      DEF catalogueVars, CatalogueInv, ShopType, CatalogueTypeOK, QuantityTellsWeight,
          WeighedIsOne, OnlyOddNumbersFail
  <2>8. QED BY <2>1, <2>2, <2>3, <2>4, <2>5, <2>6, <2>7 DEF CatalogueNext
<1>4. QED BY <1>2, <1>3, PTL DEF CatalogueSpec

\* Whatever forms, edits, sales and files a shop sees, and however fine the numbers in
\* them, every row satisfies the table's CHECK constraints, the active rows stay within the
\* plan, and the quantity and status of a weighed row tell what is left of it.
THEOREM RowsAlwaysSound == CatalogueSpec => []RowsAreSound
<1>1. CatalogueInv => RowsAreSound
  BY DEF CatalogueInv, RowsAreSound
<1>2. QED BY <1>1, CatalogueInvariance, PTL

\* What the validators let through the table takes, unless a number in it is finer or
\* larger than its column: the only server errors are those.
THEOREM OnlyOddNumbersEverFail == CatalogueSpec => []OnlyOddNumbersFail
<1>1. CatalogueInv => OnlyOddNumbersFail
  BY DEF CatalogueInv
<1>2. QED BY <1>1, CatalogueInvariance, PTL

-----------------------------------------------------------------------------
(* Prices.                                                                  *)

LEMMA UnitType ==
  ASSUME CatalogueAssumption
  PROVE  Unit \in Nat \ {0}
<1>1. GramParts \in Nat \ {0}
  BY DEF CatalogueAssumption
<1>2. QED BY <1>1 DEF Unit

\* quantize_money is off by half a quantum at most.
LEMMA MoneyBound ==
  ASSUME Unit \in Nat \ {0}, NEW x \in Nat
  PROVE  /\ Money(x) \in Nat
         /\ 2 * (Money(x) * Unit - x) \in -Unit..Unit
<1> DEFINE u == Unit
           m == (2 * x + u) \div (2 * u)
<1>1. u \in Nat \ {0} /\ 2 * x + u \in Nat /\ 2 * u \in Nat \ {0}
  OBVIOUS
<1> HIDE DEF u
<1>2. m \in Nat /\ (2 * u) * m <= 2 * x + u /\ 2 * x + u < (2 * u) * m + 2 * u
  BY <1>1, DivisionBounds
<1>3. Money(x) = m
  BY DEF Money, u
<1> HIDE DEF m
<1>4. (2 * u) * m = 2 * (m * u) /\ m * u \in Nat
  BY <1>1, <1>2
<1>5. 2 * (m * u - x) \in -u..u
  BY <1>1, <1>2, <1>4
<1>6. QED BY <1>2, <1>3, <1>5 DEF u

\* So for any number of pieces the error is half a quantum for each.
LEMMA PiecesBound ==
  ASSUME Unit \in Nat \ {0}, NEW x \in Nat, NEW n \in Nat
  PROVE  2 * (n * Money(x) * Unit - n * x) \in -(n * Unit)..(n * Unit)
<1> DEFINE u == Unit
           m == Money(x)
           e == 2 * (m * u - x)
<1>1. u \in Nat /\ m \in Nat /\ e \in -u..u
  BY MoneyBound
<1> HIDE DEF u, m
<1>2. m * u \in Nat /\ n * m * u = n * (m * u)
  BY <1>1
<1>3. 2 * (n * m * u - n * x) = n * e /\ n * e \in Int /\ n * u \in Nat
  BY <1>1, <1>2
<1>4. n * e <= n * u /\ n * e >= -(n * u)
  <2> HIDE DEF e
  <2>1. n * (u - e) >= 0 /\ n * (u + e) >= 0
    BY <1>1
  <2>2. QED BY <1>1, <2>1
<1>5. n * e \in -(n * u)..(n * u)
  BY <1>3, <1>4
<1>6. QED BY <1>3, <1>5 DEF u, m

\* The price before tax of a row's stock, in parts of 1 / Unit and before any rounding.
Exactly(row, weight, rate) ==
  IF row.item_type = "stone" THEN row.ratti * row.rate_per_ratti * 100
  ELSE weight * Effective(row, rate)
       + row.making_charge * (IF row.pricing_method = "fixed_making_charge"
                              THEN Unit ELSE weight * 100)

LEMMA ExactlyType ==
  ASSUME CatalogueAssumption, NEW row \in Rows, Fits(row), NEW weight \in Nat, NEW rate \in Nat
  PROVE  Exactly(row, weight, rate) \in Nat
<1>1. Unit \in Nat
  BY UnitType
<1>2. row.purity \in Nat /\ row.making_charge \in Nat
  BY DEF Rows, CatalogueAssumption
<1>3. row.item_type = "stone" => row.ratti \in Nat /\ row.rate_per_ratti \in Nat
  BY DEF Rows, Fits, Null
<1>4. \A x, y \in Nat : x * y \in Nat /\ x + y \in Nat
  OBVIOUS
<1>5. Effective(row, rate) \in Nat
  BY <1>2, <1>4 DEF Effective
<1>6. weight * Effective(row, rate) \in Nat /\ weight * 100 \in Nat
  BY <1>4, <1>5
<1>7. row.item_type = "stone" => row.ratti * row.rate_per_ratti * 100 \in Nat
  BY <1>3, <1>4
<1>8. row.making_charge * (IF row.pricing_method = "fixed_making_charge"
                           THEN Unit ELSE weight * 100) \in Nat
  BY <1>1, <1>2, <1>4, <1>6
<1>9. QED BY <1>4, <1>6, <1>7, <1>8 DEF Exactly

\* Whichever way a row is priced, it is at its own rate or at that exact price rounded.
LEMMA SuggestedIsRounded ==
  ASSUME NEW row \in Rows, Fits(row), NEW weight, NEW rate
  PROVE  Suggested(row, weight, rate) =
           IF row.pricing_method = "fixed_rate" THEN row.fixed_rate
           ELSE Money(Exactly(row, weight, rate))
  BY DEF Suggested, Exactly, Rows, Fits

\* And the dashboard's SQL leaves the same price unrounded.
LEMMA ValuationIsExact ==
  ASSUME NEW row \in Rows, Fits(row), NEW rate, NEW grams, NEW pieces,
         grams = IF row.stock_mode = "weight" THEN row.stock_weight ELSE row.net_weight,
         pieces = IF row.stock_mode = "weight" THEN 1 ELSE row.quantity,
         row.pricing_method # "fixed_rate" => Exactly(row, grams, rate) \in Nat,
         Unit \in Nat
  PROVE  Valuation(row, rate) =
           pieces * (IF row.pricing_method = "fixed_rate" THEN row.fixed_rate * Unit
                     ELSE Exactly(row, grams, rate))
<1> DEFINE price == IF row.pricing_method = "fixed_rate" THEN row.fixed_rate * Unit
                    ELSE Exactly(row, grams, rate)
<1>1. Valuation(row, rate) = IF row.stock_mode = "weight" THEN price ELSE row.quantity * price
  <2>1. Lower(Strip(row.metal)) = "silver" <=> Lower(row.metal) = "silver"
    BY TextsRead DEF Rows
  <2>2. QED BY <2>1 DEF Valuation, Exactly, Effective, Fits
<1>2. row.stock_mode = "weight" => row.pricing_method # "fixed_rate"
  BY DEF Fits
<1> HIDE DEF price
<1>3. row.stock_mode = "weight" => price \in Nat
  BY <1>2 DEF price
<1>4. row.stock_mode = "weight" => 1 * price = price
  BY <1>3
<1>5. QED BY <1>1, <1>4 DEF price

LEMMA StockOnHand ==
  ASSUME NEW row \in Rows, Fits(row), Limit \in Nat
  PROVE  /\ (IF row.stock_mode = "weight" THEN row.stock_weight ELSE row.net_weight) \in Nat
         /\ (IF row.stock_mode = "weight" THEN 1 ELSE row.quantity) \in Nat
         /\ row.fixed_rate \in Nat /\ row.net_weight \in Nat
  BY DEF Rows, Fits

LEMMA SuggestedType ==
  ASSUME CatalogueAssumption, NEW row \in Rows, Fits(row), NEW weight \in Nat, NEW rate \in Nat
  PROVE  Suggested(row, weight, rate) \in Nat
<1>1. row.fixed_rate \in Nat
  BY StockOnHand DEF CatalogueAssumption
<1>2. Money(Exactly(row, weight, rate)) \in Nat
  BY UnitType, ExactlyType, MoneyBound
<1>3. QED BY <1>1, <1>2, SuggestedIsRounded

LEMMA PriceGap ==
  ASSUME CatalogueAssumption, NEW row \in Rows, Fits(row), NEW rate \in Rates, Priced(row, rate)
  PROVE  LET grams == IF row.stock_mode = "weight" THEN row.stock_weight ELSE row.net_weight
             price == Suggested(row, grams, RateOf(row, rate))
             pieces == IF row.stock_mode = "weight" THEN 1 ELSE row.quantity
             gap == 2 * (pieces * price * Unit - Valuation(row, rate))
         IN gap \in -(pieces * Unit)..(pieces * Unit)
<1> DEFINE grams == IF row.stock_mode = "weight" THEN row.stock_weight ELSE row.net_weight
           price == Suggested(row, grams, RateOf(row, rate))
           pieces == IF row.stock_mode = "weight" THEN 1 ELSE row.quantity
           exact == Exactly(row, grams, RateOf(row, rate))
<1>1. Unit \in Nat \ {0} /\ grams \in Nat /\ pieces \in Nat /\ row.fixed_rate \in Nat
  BY UnitType, StockOnHand DEF CatalogueAssumption
<1>2. RateOf(row, rate) \in Nat
  BY DEF RateOf, Priced, CatalogueAssumption
<1>3. row.pricing_method # "fixed_rate" => Exactly(row, grams, rate) = exact
  <2>1. row.item_type \in {"stone", "jewellery"}
    BY DEF Rows
  <2>2. CASE row.item_type = "stone"
    BY <2>2 DEF Exactly
  <2>3. CASE row.item_type = "jewellery"
    BY <2>3 DEF RateOf, NeedsRate
  <2>4. QED BY <2>1, <2>2, <2>3
<1>4. exact \in Nat
  <2> HIDE DEF grams
  <2>1. QED BY <1>1, <1>2, ExactlyType
<1>5. Valuation(row, rate) =
        pieces * (IF row.pricing_method = "fixed_rate" THEN row.fixed_rate * Unit ELSE exact)
  <2>1. grams = (IF row.stock_mode = "weight" THEN row.stock_weight ELSE row.net_weight)
        /\ pieces = (IF row.stock_mode = "weight" THEN 1 ELSE row.quantity)
    OBVIOUS
  <2>2. row.pricing_method # "fixed_rate" => Exactly(row, grams, rate) \in Nat
    BY <1>3, <1>4
  <2> HIDE DEF grams, pieces, exact
  <2>3. Valuation(row, rate) =
          pieces * (IF row.pricing_method = "fixed_rate" THEN row.fixed_rate * Unit
                    ELSE Exactly(row, grams, rate))
    BY <1>1, <2>1, <2>2, ValuationIsExact
  <2>4. QED BY <1>3, <2>3
<1>6. price = IF row.pricing_method = "fixed_rate" THEN row.fixed_rate ELSE Money(exact)
  <2> HIDE DEF grams
  <2>1. QED BY SuggestedIsRounded
<1> HIDE DEF grams, price, pieces, exact
<1>7. 2 * (pieces * price * Unit - Valuation(row, rate)) \in -(pieces * Unit)..(pieces * Unit)
  <2>1. CASE row.pricing_method = "fixed_rate"
    <3> DEFINE fixed == row.fixed_rate
    <3>1. pieces * price * Unit = pieces * (fixed * Unit) /\ pieces * (fixed * Unit) \in Nat
          /\ pieces * Unit \in Nat
      BY <1>1, <1>6, <2>1
    <3>2. Valuation(row, rate) = pieces * (fixed * Unit)
      BY <1>5, <2>1
    <3>3. 2 * (pieces * price * Unit - Valuation(row, rate)) = 0
      BY <3>1, <3>2
    <3>4. QED BY <3>1, <3>3
  <2>2. CASE row.pricing_method # "fixed_rate"
    <3>1. Valuation(row, rate) = pieces * exact /\ price = Money(exact)
      BY <1>5, <1>6, <2>2
    <3>2. 2 * (pieces * Money(exact) * Unit - pieces * exact)
            \in -(pieces * Unit)..(pieces * Unit)
      BY <1>1, <1>4, PiecesBound
    <3>3. QED BY <3>1, <3>2
  <2>3. QED BY <2>1, <2>2
<1>8. QED BY <1>7 DEF grams, price, pieces

\* The dashboard's SQL, which never rounds, values the stock within half a paisa a piece of
\* the price pricing.py asks, for every row the operations leave and every rate.
THEOREM ValuationAlwaysMatchesPrice == CatalogueSpec => []ValuationMatchesPrice
<1>1. ASSUME CatalogueInv PROVE ValuationMatchesPrice
  <2>1. \A b \in Taken : shop[b] \in Rows /\ Fits(shop[b])
    BY <1>1 DEF CatalogueInv, CatalogueTypeOK
  <2>2. CatalogueAssumption
    BY CatalogueAssumption
  <2>3. QED BY <2>1, <2>2, PriceGap DEF ValuationMatchesPrice
<1>2. QED BY <1>1, CatalogueInvariance, PTL

-----------------------------------------------------------------------------
(* A row exported and imported.                                             *)

\* What the importer reads from a row's line.
ReadBack(row) == ItemPayload([Cells(row) EXCEPT !.name = Safe(@)])

\* What the reader makes of a row, and whether it finds a name and a metal in it.
AsRead(row) == [row EXCEPT !.name = Read(Safe(@)), !.metal = Lower(Strip(@))]
Named(row) == Strip(row.name) # "" /\ Strip(row.metal) # ""

LEMMA ReadBackFields ==
  ASSUME CatalogueAssumption, NEW row \in Rows, Fits(row)
  PROVE  LET p == ReadBack(row)
         IN /\ p \in Forms
            /\ p.name = Read(Safe(row.name)) /\ p.category = row.category
            /\ p.item_type = row.item_type /\ p.stock_mode = row.stock_mode
            /\ p.pricing_method = row.pricing_method
            /\ p.metal = Lower(Strip(row.metal)) /\ p.purity = row.purity
            /\ p.quantity = IF row.stock_mode = "weight" THEN 1 ELSE row.quantity
            /\ \A f \in Decimals : p[f] = Sent(row[f])
<1> DEFINE c == Cells(row)
           safe == [c EXCEPT !.name = Safe(@)]
           p == ReadBack(row)
<1>1. c \in Forms /\ \A f \in Decimals : c[f] = Sent(row[f])
  BY CellsForm
<1>2. /\ c.name = row.name /\ c.category = row.category /\ c.item_type = row.item_type
      /\ c.stock_mode = row.stock_mode /\ c.pricing_method = row.pricing_method
      /\ c.metal = row.metal /\ c.purity = row.purity /\ c.quantity = row.quantity
  BY CellsForm DEF Fields, Decimals, Weights, Amounts
<1>3. Sent(0) = 0
  BY DEF Sent, Null, CatalogueAssumption
<1>4. /\ row.item_type = "stone" => row.metal = "stone" /\ row.purity = 0
           /\ row.net_weight = 0 /\ row.making_charge = 0 /\ row.fixed_rate = 0
      /\ row.item_type # "stone" /\ row.pricing_method = "fixed_rate" => row.making_charge = 0
      /\ row.item_type # "stone" /\ row.pricing_method # "fixed_rate" => row.fixed_rate = 0
  BY DEF Fits
<1>5. /\ c.net_weight = Sent(row.net_weight) /\ c.making_charge = Sent(row.making_charge)
      /\ c.fixed_rate = Sent(row.fixed_rate) /\ c.stock_weight = Sent(row.stock_weight)
      /\ c.ratti = Sent(row.ratti) /\ c.rate_per_ratti = Sent(row.rate_per_ratti)
  BY <1>1 DEF Decimals, Weights, Amounts
<1> HIDE DEF c
<1>6. /\ safe \in Forms /\ safe.name = Safe(c.name) /\ safe.category = c.category
      /\ safe.item_type = c.item_type /\ safe.stock_mode = c.stock_mode
      /\ safe.pricing_method = c.pricing_method /\ safe.metal = c.metal
      /\ safe.purity = c.purity /\ safe.quantity = c.quantity
      /\ safe.net_weight = c.net_weight /\ safe.making_charge = c.making_charge
      /\ safe.fixed_rate = c.fixed_rate /\ safe.stock_weight = c.stock_weight
      /\ safe.ratti = c.ratti /\ safe.rate_per_ratti = c.rate_per_ratti
  <2>1. Safe(c.name) \in Texts
    BY <1>1, TextsRead DEF Forms
  <2>2. QED BY <1>1, <2>1 DEF Forms
<1>7. p = ItemPayload(safe)
  BY DEF ReadBack, c
<1> HIDE DEF safe, p
<1>8. p \in Forms
  BY <1>6, <1>7, PayloadForm
<1>9. /\ p.name = Read(safe.name) /\ p.category = safe.category
      /\ p.item_type = safe.item_type /\ p.stock_mode = safe.stock_mode
      /\ p.pricing_method = safe.pricing_method
      /\ p.metal = IF safe.item_type = "stone" THEN "stone" ELSE Lower(Read(safe.metal))
      /\ p.purity = IF safe.item_type = "stone" THEN 0 ELSE safe.purity
      /\ p.quantity = IF safe.stock_mode = "weight" THEN 1 ELSE safe.quantity
      /\ p.stock_weight = safe.stock_weight /\ p.ratti = safe.ratti
      /\ p.rate_per_ratti = safe.rate_per_ratti
      /\ p.net_weight = IF safe.item_type = "stone" THEN 0 ELSE safe.net_weight
      /\ p.making_charge = IF safe.item_type = "stone" \/ safe.pricing_method = "fixed_rate"
                           THEN 0 ELSE safe.making_charge
      /\ p.fixed_rate = IF safe.item_type # "stone" /\ safe.pricing_method = "fixed_rate"
                        THEN safe.fixed_rate ELSE 0
  BY <1>6, <1>7 DEF ItemPayload, Forms
<1>10. /\ p.name = Read(Safe(row.name)) /\ p.category = row.category
       /\ p.item_type = row.item_type /\ p.stock_mode = row.stock_mode
       /\ p.pricing_method = row.pricing_method
       /\ p.metal = Lower(Strip(row.metal)) /\ p.purity = row.purity
       /\ p.quantity = IF row.stock_mode = "weight" THEN 1 ELSE row.quantity
  <2>1. Lower(Read(row.metal)) = Lower(Strip(row.metal))
    BY TextsRead DEF Rows, RowMetals
  <2>2. row.metal = "stone" => Lower(Strip(row.metal)) = "stone"
    BY DEF Lower, Strip
  <2>3. QED BY <1>2, <1>4, <1>6, <1>9, <2>1, <2>2
<1>11. /\ p.net_weight = Sent(row.net_weight) /\ p.stock_weight = Sent(row.stock_weight)
       /\ p.ratti = Sent(row.ratti) /\ p.rate_per_ratti = Sent(row.rate_per_ratti)
  BY <1>2, <1>3, <1>4, <1>5, <1>6, <1>9
<1>12. p.making_charge = Sent(row.making_charge) /\ p.fixed_rate = Sent(row.fixed_rate)
  BY <1>2, <1>3, <1>4, <1>5, <1>6, <1>9
<1>13. \A f \in Decimals : p[f] = Sent(row[f])
  BY <1>11, <1>12 DEF Decimals, Weights, Amounts
<1>14. QED BY <1>8, <1>10, <1>13 DEF p

LEMMA SentSign ==
  ASSUME CatalogueAssumption, NEW x \in Optional
  PROVE  /\ x > 0 <=> Sent(x) > 0
         /\ x = 0 <=> Sent(x) = 0
         /\ x = Null <=> Sent(x) = Null
         /\ \A y \in Nat : x \in Nat /\ x <= y => Sent(x) <= Sent(y)
<1>1. Fine \in Nat \ {0}
  BY DEF CatalogueAssumption
<1>2. CASE x = Null
  BY <1>2 DEF Sent, Null
<1>3. CASE x \in Nat
  <2>1. Sent(x) = x * Fine /\ x * Fine \in Nat
    BY <1>1, <1>3 DEF Sent, Null
  <2>2. /\ x > 0 <=> x * Fine > 0
        /\ x = 0 <=> x * Fine = 0
    BY <1>1, <1>3
  <2>3. ASSUME NEW y \in Nat, x <= y PROVE x * Fine <= Sent(y)
    <3>1. (y - x) * Fine >= 0
      BY <1>1, <1>3, <2>3
    <3>2. QED BY <1>1, <1>3, <2>3, <3>1 DEF Sent, Null
  <2>4. QED BY <1>3, <2>1, <2>2, <2>3 DEF Null
<1>4. QED BY <1>2, <1>3 DEF Optional

\* Normalization leaves such a line as it is, but for the quantity of a weighed row, which
\* it works out from the weight.
LEMMA ReadBackNormal ==
  ASSUME CatalogueAssumption, NEW row \in Rows, Fits(row)
  PROVE  LET p == ReadBack(row)
             q == Normalize(p)
         IN /\ q \in Forms
            /\ \A f \in DOMAIN Fields \ {"quantity"} : q[f] = p[f]
            /\ q.quantity = IF row.stock_mode = "weight"
                            THEN IF row.stock_weight > 0 THEN 1 ELSE 0 ELSE row.quantity
<1> DEFINE p == ReadBack(row)
           m == NormalizeMethod(p)
           q == Normalize(p)
<1>1. /\ p \in Forms
      /\ p.item_type = row.item_type /\ p.stock_mode = row.stock_mode
      /\ p.pricing_method = row.pricing_method
      /\ p.metal = Lower(Strip(row.metal)) /\ p.purity = row.purity
      /\ p.quantity = IF row.stock_mode = "weight" THEN 1 ELSE row.quantity
      /\ \A f \in Decimals : p[f] = Sent(row[f])
  BY ReadBackFields
<1>2. /\ p.net_weight = Sent(row.net_weight) /\ p.stock_weight = Sent(row.stock_weight)
      /\ p.making_charge = Sent(row.making_charge) /\ p.fixed_rate = Sent(row.fixed_rate)
  BY <1>1 DEF Decimals, Weights, Amounts
<1>3. row.pricing_method \in Methods /\ row.item_type \in {"stone", "jewellery"}
      /\ row.stock_mode \in {"weight", "quantity"} /\ row.net_weight \in Optional
      /\ row.stock_weight \in Optional /\ row.fixed_rate \in Nat /\ row.making_charge \in Nat
  BY DEF Rows, Methods, Optional, CatalogueAssumption
<1>4. Sent(0) = 0 /\ Sent(Null) = Null /\ \A x \in Nat : Sent(x) \in Nat
  BY StoredSent DEF Sent, Null, Optional, CatalogueAssumption
<1>5. m \in Normal /\ q = NormalizeStock(m) /\ SameButStock(q, m) /\ SameButMethod(m, p)
      /\ q \in Forms
  BY <1>1, MethodType, StockType, NormalizeType DEF Normalize
<1>6. /\ row.item_type = "stone" => row.metal = "stone" /\ row.purity = 0
           /\ row.net_weight = 0 /\ row.making_charge = 0 /\ row.fixed_rate = 0
           /\ row.pricing_method = "rate_per_ratti"
      /\ row.item_type # "stone" /\ row.pricing_method = "fixed_rate" => row.making_charge = 0
      /\ row.item_type # "stone" /\ row.pricing_method # "fixed_rate" => row.fixed_rate = 0
      /\ row.stock_mode = "quantity" => row.stock_weight = Null
      /\ row.pricing_method = "fixed_rate" \/ row.item_type = "stone"
           => row.stock_mode = "quantity"
      /\ row.stock_mode = "weight" => row.net_weight > 0 /\ row.stock_weight \in Nat
  BY DEF Fits
<1>7. row.stock_mode = "quantity" => p.stock_weight = Null
  BY <1>2, <1>4, <1>6
<1>8. m.metal = p.metal /\ m.purity = p.purity /\ m.net_weight = p.net_weight
      /\ m.making_charge = p.making_charge /\ m.fixed_rate = p.fixed_rate
      /\ m.stock_weight = p.stock_weight /\ m.pricing_method = p.pricing_method
  <2> HIDE DEF p
  <2>1. p.pricing_method # "none" /\ p.fixed_rate # Null
    BY <1>1, <1>2, <1>3, <1>4 DEF Methods, Null
  <2>2. CASE p.item_type = "stone"
    <3>1. p.metal = "stone" /\ p.purity = 0 /\ p.net_weight = 0 /\ p.making_charge = 0
          /\ p.fixed_rate = 0 /\ p.stock_weight = Null
      BY <1>1, <1>2, <1>4, <1>6, <1>7, <2>2 DEF Lower, Strip
    <3>2. QED BY <1>1, <2>1, <2>2, <3>1 DEF NormalizeMethod, Forms
  <2>3. CASE p.item_type # "stone" /\ p.pricing_method = "fixed_rate"
    <3>1. p.making_charge = 0 /\ p.stock_weight = Null
      BY <1>1, <1>2, <1>4, <1>6, <1>7, <2>3
    <3>2. QED BY <1>1, <2>1, <2>3, <3>1 DEF NormalizeMethod, Forms
  <2>4. CASE p.item_type # "stone" /\ p.pricing_method # "fixed_rate"
    <3>1. p.fixed_rate = 0
      BY <1>1, <1>2, <1>4, <1>6, <2>4
    <3>2. QED BY <1>1, <2>1, <2>4, <3>1 DEF NormalizeMethod, Forms
  <2>5. QED BY <2>2, <2>3, <2>4
<1>9. /\ q.net_weight = m.net_weight /\ q.stock_weight = m.stock_weight
      /\ q.quantity = IF row.stock_mode = "weight"
                      THEN IF row.stock_weight > 0 THEN 1 ELSE 0 ELSE row.quantity
  <2>1. m.stock_mode = row.stock_mode /\ m.quantity = p.quantity
    BY <1>1, <1>5 DEF SameButMethod
  <2>2. CASE row.stock_mode = "quantity"
    <3>1. m.stock_weight = Null /\ m.quantity = row.quantity
      BY <1>1, <1>7, <1>8, <2>1, <2>2
    <3> HIDE DEF m, p
    <3>2. QED BY <1>5, <2>1, <2>2, <3>1 DEF NormalizeStock, Normal, Forms
  <2>3. CASE row.stock_mode = "weight"
    <3>1. /\ m.net_weight > 0 /\ m.net_weight # 0 /\ m.stock_weight # Null
          /\ (m.stock_weight > 0 <=> row.stock_weight > 0)
      BY <1>2, <1>3, <1>6, <1>8, <2>3, SentSign DEF Null
    <3> HIDE DEF m, p
    <3>2. QED BY <1>5, <2>1, <2>3, <3>1 DEF NormalizeStock, Normal, Forms
  <2>4. QED BY <1>3, <2>2, <2>3
<1> HIDE DEF p, m, q
<1>10. \A f \in DOMAIN Fields \ {"quantity"} : q[f] = p[f]
  BY <1>5, <1>8, <1>9 DEF Fields, SameButStock, SameButMethod
<1>11. QED BY <1>5, <1>9, <1>10 DEF p, q

LEMMA ReadBackValid ==
  ASSUME CatalogueAssumption, NEW row \in Rows, Fits(row)
  PROVE  Valid(Normalize(ReadBack(row))) <=> Named(row)
<1> DEFINE p == ReadBack(row)
           q == Normalize(p)
<1>1. /\ q \in Forms
      /\ \A f \in DOMAIN Fields \ {"quantity"} : q[f] = p[f]
      /\ q.quantity = IF row.stock_mode = "weight"
                      THEN IF row.stock_weight > 0 THEN 1 ELSE 0 ELSE row.quantity
  BY ReadBackNormal
<1>2. /\ p.item_type = row.item_type /\ p.stock_mode = row.stock_mode
      /\ p.pricing_method = row.pricing_method
      /\ p.metal = Lower(Strip(row.metal)) /\ p.purity = row.purity
      /\ p.name = Read(Safe(row.name))
      /\ \A f \in Decimals : p[f] = Sent(row[f])
  BY ReadBackFields
<1> HIDE DEF p, q
<1>3. /\ q.item_type = row.item_type /\ q.stock_mode = row.stock_mode
      /\ q.pricing_method = row.pricing_method /\ q.purity = row.purity
      /\ q.name = Read(Safe(row.name)) /\ q.metal = Lower(Strip(row.metal))
  BY <1>1, <1>2 DEF Fields
<1>4. /\ q.net_weight = Sent(row.net_weight) /\ q.stock_weight = Sent(row.stock_weight)
      /\ q.fixed_rate = Sent(row.fixed_rate) /\ q.ratti = Sent(row.ratti)
      /\ q.rate_per_ratti = Sent(row.rate_per_ratti)
  BY <1>1, <1>2 DEF Fields, Decimals, Weights, Amounts
<1>5. /\ row.net_weight \in Nat /\ row.fixed_rate \in Nat /\ row.stock_weight \in Optional
      /\ row.ratti \in Optional /\ row.rate_per_ratti \in Optional
      /\ row.purity \in 0..100
      /\ row.item_type \in {"stone", "jewellery"}
  BY DEF Rows, Optional, CatalogueAssumption
<1>6. /\ row.net_weight > 0 <=> q.net_weight > 0
      /\ row.fixed_rate > 0 <=> q.fixed_rate > 0
      /\ row.ratti > 0 <=> q.ratti > 0
      /\ row.rate_per_ratti > 0 <=> q.rate_per_ratti > 0
      /\ row.stock_weight > 0 <=> q.stock_weight > 0
      /\ row.ratti = Null <=> q.ratti = Null
      /\ row.rate_per_ratti = Null <=> q.rate_per_ratti = Null
  <2>1. \A x \in Optional : (x > 0 <=> Sent(x) > 0) /\ (x = Null <=> Sent(x) = Null)
    BY SentSign
  <2>2. row.net_weight \in Optional /\ row.fixed_rate \in Optional
    BY <1>5 DEF Optional
  <2>3. QED BY <1>4, <1>5, <2>1, <2>2
<1>7. row.stock_weight \in 0..row.net_weight => q.stock_weight \in 0..q.net_weight
  <2>1. \A x \in Nat : Sent(x) \in Nat
    BY StoredSent DEF Optional, CatalogueAssumption
  <2>2. QED BY <1>4, <1>5, <2>1, SentSign DEF Optional
<1>8. row.name \in RowTexts /\ row.name \in Texts /\ row.metal \in RowMetals
  BY DEF Rows, RowTexts
<1>9. /\ Read(Safe(row.name)) = "" <=> Strip(row.name) = ""
      /\ Lower(Strip(row.metal)) = "" <=> Strip(row.metal) = ""
      /\ Lower(Strip(Lower(Strip(row.metal)))) = "stone" <=> row.metal = "stone"
  BY <1>8, TextsRead
<1>10. Filled(q) <=> Named(row)
  BY <1>3, <1>9, Zenon DEF Filled, Named
<1>11. Lower(Strip(q.metal)) = "stone" <=> row.metal = "stone"
  BY <1>3, <1>9
<1>12. CASE row.item_type = "stone"
  <2>1. row.pricing_method = "rate_per_ratti" /\ row.stock_mode = "quantity"
        /\ row.ratti > 0 /\ row.rate_per_ratti > 0
    BY <1>12 DEF Fits
  <2>2. QED BY <1>3, <1>5, <1>6, <1>10, <1>12, <2>1 DEF Valid, Filled, p, q
<1>13. CASE row.item_type = "jewellery" /\ row.stock_mode = "quantity"
  <2>1. /\ row.pricing_method # "rate_per_ratti" /\ row.metal # "stone"
        /\ row.ratti = Null /\ row.rate_per_ratti = Null
        /\ IF row.pricing_method = "fixed_rate" THEN row.fixed_rate > 0 ELSE row.net_weight > 0
    BY <1>13 DEF Fits
  <2>2. QED BY <1>3, <1>5, <1>6, <1>10, <1>11, <1>13, <2>1 DEF Valid, Filled, p, q
<1>14. CASE row.item_type = "jewellery" /\ row.stock_mode = "weight"
  <2>1. /\ row.pricing_method \notin {"rate_per_ratti", "fixed_rate"} /\ row.metal # "stone"
        /\ row.ratti = Null /\ row.rate_per_ratti = Null
        /\ row.net_weight > 0 /\ row.stock_weight \in 0..row.net_weight
    BY <1>14 DEF Fits
  <2>2. q.stock_weight > 0 <=> q.quantity = 1
    BY <1>1, <1>6, <1>14
  <2>3. QED BY <1>3, <1>5, <1>6, <1>7, <1>10, <1>11, <1>14, <2>1, <2>2
        DEF Valid, Filled, p, q
<1>15. row.stock_mode \in {"quantity", "weight"}
  BY DEF Rows
<1>16. QED BY <1>5, <1>12, <1>13, <1>14, <1>15

\* A row in stock comes back, but for what the reader does to its texts, unless nothing is
\* left of it.
LEMMA RowRestored ==
  ASSUME CatalogueAssumption, NEW row \in Rows, Fits(row), row.status = "in_stock",
         row.stock_mode = "weight" => row.quantity = 1
  PROVE  LET q == Normalize(ReadBack(row))
         IN /\ Valid(q) <=> Named(row)
            /\ q.quantity > 0 <=> row.quantity > 0 /\ row.stock_weight # 0
            /\ q.quantity > 0 => NewRow(q) = AsRead(row)
<1> DEFINE p == ReadBack(row)
           q == Normalize(p)
<1>1. /\ q \in Forms
      /\ \A f \in DOMAIN Fields \ {"quantity"} : q[f] = p[f]
      /\ q.quantity = IF row.stock_mode = "weight"
                      THEN IF row.stock_weight > 0 THEN 1 ELSE 0 ELSE row.quantity
  BY ReadBackNormal
<1>2. Valid(q) <=> Named(row)
  BY ReadBackValid
<1>3. /\ p.name = Read(Safe(row.name)) /\ p.category = row.category
      /\ p.item_type = row.item_type /\ p.stock_mode = row.stock_mode
      /\ p.pricing_method = row.pricing_method
      /\ p.metal = Lower(Strip(row.metal)) /\ p.purity = row.purity
      /\ \A f \in Decimals : p[f] = Sent(row[f])
  BY ReadBackFields
<1>4. row.stock_mode \in {"quantity", "weight"} /\ row.quantity \in Nat
  BY DEF Rows
<1>5. /\ row.stock_mode = "weight" => row.stock_weight \in Nat
      /\ row.stock_mode = "quantity" => row.stock_weight = Null
  BY DEF Fits, Rows
<1> HIDE DEF p, q
<1>6. q.quantity > 0 <=> row.quantity > 0 /\ row.stock_weight # 0
  BY <1>1, <1>4, <1>5 DEF Null
<1>7. ASSUME q.quantity > 0
      PROVE  NewRow(q) = AsRead(row)
  <2> DEFINE n == NewRow(q)
             back == AsRead(row)
  <2>1. /\ DOMAIN n = DOMAIN Fields \cup {"status"}
        /\ \A f \in Decimals : n[f] = Stored(q[f])
        /\ n.name = q.name /\ n.category = q.category
        /\ n.item_type = q.item_type /\ n.stock_mode = q.stock_mode
        /\ n.pricing_method = q.pricing_method
        /\ n.metal = q.metal /\ n.purity = q.purity
        /\ n.quantity = q.quantity /\ n.status = "in_stock"
    <3>1. q \in Forms
      BY <1>1
    <3>2. QED BY <3>1, NewRowFields
  <2>2. n = [f \in DOMAIN n |-> n[f]]
    BY DEF NewRow, Over
  <2>3. /\ DOMAIN back = DOMAIN Fields \cup {"status"} /\ back = [f \in DOMAIN back |-> back[f]]
        /\ back.name = Read(Safe(row.name)) /\ back.metal = Lower(Strip(row.metal))
        /\ \A f \in (DOMAIN Fields \cup {"status"}) \ {"name", "metal"} : back[f] = row[f]
    <3>1. {"name", "metal"} \subseteq DOMAIN row /\ DOMAIN row = DOMAIN Fields \cup {"status"}
      BY RowDomain DEF Fields
    <3>2. back = [f \in DOMAIN row |->
                    IF f = "name" THEN Read(Safe(row.name))
                    ELSE IF f = "metal" THEN Lower(Strip(row.metal)) ELSE row[f]]
      BY RowDomain DEF AsRead
    <3> HIDE DEF back
    <3>3. QED BY <3>1, <3>2
  <2> HIDE DEF n, back
  <2>4. \A f \in Decimals : n[f] = row[f]
    <3>1. \A f \in Decimals : q[f] = Sent(row[f])
      BY <1>1, <1>3 DEF Fields, Decimals, Weights, Amounts
    <3>2. \A f \in Decimals : row[f] \in Optional
      BY DEF Decimals, Weights, Amounts, Rows, Optional, CatalogueAssumption
    <3>3. QED BY <2>1, <3>1, <3>2, StoredSent DEF CatalogueAssumption
  <2>5. q.quantity = row.quantity
    BY <1>1, <1>4, <1>7
  <2>6. /\ n.name = Read(Safe(row.name)) /\ n.category = row.category
        /\ n.item_type = row.item_type /\ n.stock_mode = row.stock_mode
        /\ n.pricing_method = row.pricing_method
        /\ n.metal = Lower(Strip(row.metal)) /\ n.purity = row.purity
        /\ n.quantity = row.quantity /\ n.status = row.status
    BY <1>1, <1>3, <2>1, <2>5 DEF Fields
  <2>7. DOMAIN Fields \cup {"status"}
          = Decimals \cup {"name", "category", "item_type", "stock_mode", "pricing_method",
                          "metal", "purity", "quantity", "status"}
        /\ Decimals \cap {"name", "metal"} = {}
    BY DEF Fields, Decimals, Weights, Amounts
  <2>8. \A f \in DOMAIN Fields \cup {"status"} : n[f] = back[f]
    BY <2>3, <2>4, <2>6, <2>7
  <2>9. n = back
    BY <2>1, <2>2, <2>3, <2>8
  <2>10. QED BY <2>9 DEF n, back
<1>8. QED BY <1>2, <1>6, <1>7 DEF p, q

-----------------------------------------------------------------------------
(* The lines of a file, in the order of their barcodes.                     *)

Rank(S, c) == Cardinality({d \in S : d < c})
Place(S, i) == CHOOSE c \in S : Rank(S, c) = i - 1

LEMMA RankOrder ==
  ASSUME NEW S \in SUBSET Nat, IsFiniteSet(S), NEW c \in S
  PROVE  /\ Rank(S, c) \in Nat /\ Rank(S, c) < Cardinality(S)
         /\ \A d \in S : c < d => Rank(S, c) < Rank(S, d)
<1> DEFINE Below(x) == {e \in S : e < x}
<1>1. \A x \in S : IsFiniteSet(Below(x)) /\ Cardinality(Below(x)) \in Nat
                   /\ x \notin Below(x)
  <2> SUFFICES ASSUME NEW x \in S
               PROVE  IsFiniteSet(Below(x)) /\ Cardinality(Below(x)) \in Nat /\ x \notin Below(x)
    OBVIOUS
  <2>1. Below(x) \subseteq S /\ x \notin Below(x)
    OBVIOUS
  <2>2. IsFiniteSet(Below(x))
    BY <2>1, FS_Subset
  <2>3. QED BY <2>1, <2>2, FS_CardinalityType
<1>2. Cardinality(S) \in Nat
  BY FS_CardinalityType
<1>3. ASSUME NEW T, Below(c) \subseteq T, c \in T, IsFiniteSet(T)
      PROVE  Cardinality(Below(c)) < Cardinality(T)
  <2>1. Below(c) # T
    BY <1>1, <1>3
  <2>2. Cardinality(Below(c)) <= Cardinality(T) /\ Cardinality(Below(c)) # Cardinality(T)
    BY <1>3, <2>1, FS_Subset
  <2>3. Cardinality(T) \in Nat
    BY <1>3, FS_CardinalityType
  <2>4. QED BY <1>1, <2>2, <2>3
<1>4. Cardinality(Below(c)) < Cardinality(S)
  BY <1>3
<1>5. ASSUME NEW d \in S, c < d PROVE Cardinality(Below(c)) < Cardinality(Below(d))
  <2>1. \A e \in S : e < c => e < d
    <3>1. S \subseteq Nat /\ c \in Nat /\ d \in Nat
      OBVIOUS
    <3>2. \A e \in Nat : e < c => e < d
      BY <1>5, <3>1
    <3>3. QED BY <3>1, <3>2
  <2>2. Below(c) \subseteq Below(d) /\ c \in Below(d)
    BY <1>5, <2>1
  <2>3. QED BY <1>1, <1>3, <2>2
<1>6. QED BY <1>1, <1>4, <1>5 DEF Rank

LEMMA PlaceIsRank ==
  ASSUME NEW S \in SUBSET Nat, IsFiniteSet(S)
  PROVE  /\ \A i \in 1..Cardinality(S) : Place(S, i) \in S /\ Rank(S, Place(S, i)) = i - 1
         /\ \A c \in S : /\ Rank(S, c) + 1 \in 1..Cardinality(S)
                         /\ Place(S, Rank(S, c) + 1) = c
         /\ \A i, j \in 1..Cardinality(S) : Place(S, i) = Place(S, j) => i = j
<1> DEFINE n == Cardinality(S)
           T == 0..(n - 1)
           f == [c \in S |-> Rank(S, c)]
<1>1. n \in Nat
  BY FS_CardinalityType
<1>2. IsFiniteSet(T) /\ Cardinality(T) = n
  <2> HIDE DEF n
  <2>1. 0 \in Int /\ n - 1 \in Int
    BY <1>1
  <2>2. IsFiniteSet(T) /\ Cardinality(T) = IF 0 > n - 1 THEN 0 ELSE n - 1 - 0 + 1
    BY <2>1, FS_Interval
  <2>3. QED BY <1>1, <2>2
<1>3. \A c \in S : Rank(S, c) \in T
  BY <1>1, RankOrder
<1>4. \A c, d \in S : Rank(S, c) = Rank(S, d) => c = d
  <2> SUFFICES ASSUME NEW c \in S, NEW d \in S, c # d
               PROVE  Rank(S, c) # Rank(S, d)
    OBVIOUS
  <2>1. c < d \/ d < c
    OBVIOUS
  <2>2. Rank(S, c) \in Nat /\ Rank(S, d) \in Nat
    BY RankOrder
  <2>3. Rank(S, c) < Rank(S, d) \/ Rank(S, d) < Rank(S, c)
    BY <2>1, RankOrder
  <2>4. QED BY <2>2, <2>3
<1>5. f \in Injection(S, T)
  BY <1>3, <1>4 DEF Injection, IsInjective
<1>6. f \in Surjection(S, T)
  <2> HIDE DEF f, T, n
  <2>1. Cardinality(S) = Cardinality(T)
    BY <1>2 DEF n
  <2>2. QED BY <1>2, <1>5, <2>1, FS_Injection
<1>7. ASSUME NEW i \in 1..n PROVE Place(S, i) \in S /\ Rank(S, Place(S, i)) = i - 1
  <2>1. i - 1 \in T
    BY <1>1
  <2>2. \E c \in S : Rank(S, c) = i - 1
    BY <1>6, <2>1 DEF Surjection
  <2>3. QED BY <2>2 DEF Place
<1>8. ASSUME NEW c \in S
      PROVE  Rank(S, c) + 1 \in 1..n /\ Place(S, Rank(S, c) + 1) = c
  <2>1. PICK r \in T : r = Rank(S, c)
    BY <1>3
  <2>2. r + 1 \in 1..n /\ (r + 1) - 1 = r
    BY <1>1
  <2>3. Place(S, r + 1) \in S /\ Rank(S, Place(S, r + 1)) = r
    BY <1>7, <2>2
  <2>4. Place(S, r + 1) = c
    BY <1>4, <2>1, <2>3
  <2>5. QED BY <2>1, <2>2, <2>4
<1>9. ASSUME NEW i \in 1..n, NEW j \in 1..n, Place(S, i) = Place(S, j) PROVE i = j
  <2>1. i - 1 = j - 1
    BY <1>7, <1>9
  <2>2. QED BY <1>1, <2>1
<1>10. QED BY <1>7, <1>8, <1>9

Shown == {b \in Taken : shop[b].status # "archived"}
OnSale == {b \in Taken : shop[b].status = "in_stock"}

LEMMA ShownRows ==
  ASSUME CatalogueAssumption, CatalogueInv
  PROVE  /\ Shown \in SUBSET Nat /\ IsFiniteSet(Shown) /\ Shown \subseteq Barcodes
         /\ \A b \in Shown :
              /\ b # 0 /\ shop[b] \in Rows /\ Fits(shop[b])
              /\ shop[b].status \in {"in_stock", "sold"}
              /\ b \in OnSale <=> shop[b].status = "in_stock"
              /\ shop[b].status = "in_stock" =>
                   (shop[b].stock_mode = "weight" => shop[b].quantity = 1)
         /\ OnSale \subseteq Shown
<1>1. Barcodes \subseteq Nat \ {0} /\ IsFiniteSet(Barcodes)
  BY DEF CatalogueAssumption
<1>2. Shown \subseteq Barcodes /\ Shown \subseteq Taken
  BY DEF Shown, Taken
<1>3. IsFiniteSet(Shown)
  BY <1>1, <1>2, FS_Subset
<1>4. \A b \in Shown : shop[b] \in Rows /\ Fits(shop[b])
  BY <1>2 DEF CatalogueInv, CatalogueTypeOK
<1>5. \A b \in Shown : shop[b].status \in {"in_stock", "sold"}
  BY <1>4 DEF Shown, Rows
<1>6. \A b \in Shown : b \in OnSale <=> shop[b].status = "in_stock"
  BY <1>2 DEF OnSale
<1>7. \A b \in Shown : shop[b].status = "in_stock" =>
                         (shop[b].stock_mode = "weight" => shop[b].quantity = 1)
  BY <1>2 DEF CatalogueInv, WeighedIsOne
<1>8. OnSale \subseteq Shown
  BY DEF OnSale, Shown
<1>9. QED BY <1>1, <1>2, <1>3, <1>4, <1>5, <1>6, <1>7, <1>8

LEMMA ExportLines ==
  ASSUME CatalogueAssumption, CatalogueInv
  PROVE  /\ DOMAIN Export = 1..Cardinality(Shown)
         /\ \A i \in 1..Cardinality(Shown) :
              LET b == Place(Shown, i)
              IN /\ b \in Shown
                 /\ Export[i].barcode = b
                 /\ Export[i].status = shop[b].status
                 /\ Candidate(Export, i) = Normalize(ReadBack(shop[b]))
<1>1. Export = [i \in 1..Cardinality(Shown) |->
                  Line(Place(Shown, i), shop[Place(Shown, i)])]
  BY DEF Export, Shown, Place, Rank
<1>2. \A i \in 1..Cardinality(Shown) : Place(Shown, i) \in Shown
  BY ShownRows, PlaceIsRank
<1>3. ASSUME NEW i \in 1..Cardinality(Shown)
      PROVE  LET b == Place(Shown, i)
             IN /\ Export[i].barcode = b
                /\ Export[i].status = shop[b].status
                /\ Candidate(Export, i) = Normalize(ReadBack(shop[b]))
  <2> DEFINE b == Place(Shown, i)
  <2>1. Export[i] = Line(b, shop[b])
    BY <1>1
  <2> HIDE DEF b
  <2>2. Export[i].barcode = b /\ Export[i].status = shop[b].status
        /\ Export[i].cells = [Cells(shop[b]) EXCEPT !.name = Safe(@)]
    BY <2>1 DEF Line
  <2>3. Candidate(Export, i) = Normalize(ReadBack(shop[b]))
    BY <2>2 DEF Candidate, ReadBack
  <2>4. QED BY <2>2, <2>3 DEF b
<1>4. QED BY <1>1, <1>2, <1>3

\* Every line of a row in stock is accepted, under the row's own barcode.
LEMMA ExportAccepted ==
  ASSUME CatalogueAssumption, CatalogueInv
  PROVE  /\ Candidates(Export) =
              {i \in 1..Cardinality(Shown) : Place(Shown, i) \in OnSale}
         /\ Accepted(Export, {}) = Candidates(Export)
         /\ \A i \in Candidates(Export) : Code(Export, <<>>, i) = Place(Shown, i)
         /\ DOMAIN Coded(Export, Accepted(Export, {}), <<>>) = OnSale
         /\ \A b \in OnSale :
              LET i == Coded(Export, Accepted(Export, {}), <<>>)[b]
              IN i \in Candidates(Export) /\ Place(Shown, i) = b
<1> DEFINE I == 1..Cardinality(Shown)
           C == {i \in I : Place(Shown, i) \in OnSale}
           A == Accepted(Export, {})
           codes == {Code(Export, <<>>, i) : i \in A}
           lines == Coded(Export, A, <<>>)
<1>1. /\ DOMAIN Export = I
      /\ \A i \in I : /\ Place(Shown, i) \in Shown
                      /\ Export[i].barcode = Place(Shown, i)
                      /\ Export[i].status = shop[Place(Shown, i)].status
  BY ExportLines
<1>2. \A b \in Shown : /\ b # 0 /\ shop[b].status \in {"in_stock", "sold"}
                       /\ b \in OnSale <=> shop[b].status = "in_stock"
  BY ShownRows
<1>3. \A i \in I : Export[i].barcode # 0
  BY <1>1, <1>2
<1>4. \A i, j \in I : Export[i].barcode = Export[j].barcode => i = j
  <2>1. \A i, j \in I : Place(Shown, i) = Place(Shown, j) => i = j
    BY ShownRows, PlaceIsRank
  <2>2. QED BY <1>1, <2>1
<1>5. \A b \in Shown : \E i \in I : Place(Shown, i) = b
  BY ShownRows, PlaceIsRank
<1>6. OnSale \subseteq Shown
  BY ShownRows
<1> HIDE DEF I
<1>7. Candidates(Export) = C
  <2>1. ASSUME NEW i \in I
        PROVE  Export[i].status \in {"", "in_stock"} <=> Place(Shown, i) \in OnSale
    BY <1>1, <1>2
  <2>2. QED BY <1>1, <2>1 DEF Candidates
<1>8. A = Candidates(Export)
  <2>1. ASSUME NEW i \in C, NEW j \in C, j < i
        PROVE  Export[j].barcode # Export[i].barcode
    <3>1. i \in Nat /\ j \in Nat /\ j # i
      BY <2>1 DEF I
    <3>2. QED BY <1>4, <3>1
  <2>2. QED BY <1>7, <2>1 DEF Accepted
<1>9. \A i \in C : Code(Export, <<>>, i) = Place(Shown, i)
  BY <1>1, <1>3 DEF Code
<1>10. codes = OnSale
  <2>1. codes \subseteq OnSale
    BY <1>7, <1>8, <1>9
  <2>2. ASSUME NEW b \in OnSale PROVE b \in codes
    <3>1. PICK i \in I : Place(Shown, i) = b
      BY <1>5, <1>6
    <3>2. i \in C
      BY <3>1
    <3>3. QED BY <1>7, <1>8, <1>9, <3>1, <3>2
  <2>3. QED BY <2>1, <2>2
<1>11. DOMAIN lines = OnSale
  BY <1>10 DEF Coded
<1>12. ASSUME NEW b \in OnSale PROVE lines[b] \in C /\ Place(Shown, lines[b]) = b
  <2>1. b \in codes /\ lines[b] = CHOOSE i \in A : Code(Export, <<>>, i) = b
    BY <1>10 DEF Coded
  <2>2. \E i \in A : Code(Export, <<>>, i) = b
    BY <2>1
  <2>3. lines[b] \in A /\ Code(Export, <<>>, lines[b]) = b
    BY <2>1, <2>2
  <2>4. QED BY <1>7, <1>8, <1>9, <2>3
<1> HIDE DEF A, lines
<1>13. QED BY <1>7, <1>8, <1>9, <1>11, <1>12 DEF A, lines, I

\* A row the importer takes.
Left(row) == row.quantity > 0 /\ row.stock_weight # 0
Taking(row) == Left(row) /\ Named(row)

\* The file is taken exactly when it is within the limits and every row in stock has
\* something left, a name and a metal.
LEMMA ExportParses ==
  ASSUME CatalogueAssumption, CatalogueInv, NEW large \in BOOLEAN
  PROVE  Parses(Export, large) <=>
           /\ ~large /\ Cardinality(Shown) <= ImportRows
           /\ \A b \in OnSale : Taking(shop[b])
<1> DEFINE I == 1..Cardinality(Shown)
           q(b) == Normalize(ReadBack(shop[b]))
<1>1. /\ DOMAIN Export = I
      /\ \A i \in I : /\ Place(Shown, i) \in Shown
                      /\ Export[i].status = shop[Place(Shown, i)].status
                      /\ Candidate(Export, i) = q(Place(Shown, i))
  BY ExportLines
<1>2. \A i \in I : Export[i].status \in {"", "in_stock", "sold", "reserved", "archived"}
  BY <1>1, ShownRows
<1>3. Candidates(Export) = {i \in I : Place(Shown, i) \in OnSale}
  BY ExportAccepted
<1>4. \A b \in OnSale : Valid(q(b)) /\ q(b).quantity > 0 <=> Taking(shop[b])
  <2> SUFFICES ASSUME NEW b \in OnSale
               PROVE  Valid(q(b)) /\ q(b).quantity > 0 <=> Taking(shop[b])
    OBVIOUS
  <2>1. /\ shop[b] \in Rows /\ Fits(shop[b]) /\ shop[b].status = "in_stock"
        /\ shop[b].stock_mode = "weight" => shop[b].quantity = 1
    BY ShownRows
  <2>2. QED BY <2>1, RowRestored DEF Taking, Left
<1>5. \A b \in OnSale : \E i \in I : Place(Shown, i) = b
  BY ShownRows, PlaceIsRank
<1> HIDE DEF I, q
<1>6. Parses(Export, large) <=>
        /\ ~large /\ Cardinality(I) <= ImportRows
        /\ \A i \in Candidates(Export) :
             Valid(q(Place(Shown, i))) /\ q(Place(Shown, i)).quantity > 0
  BY <1>1, <1>2, <1>3 DEF Parses
<1>7. Cardinality(I) = Cardinality(Shown)
  <2>1. Cardinality(Shown) \in Nat
    BY ShownRows, FS_CardinalityType
  <2>2. Cardinality(1..Cardinality(Shown)) = Cardinality(Shown)
    <3>1. \A n \in Nat : 1 \in Int /\ n \in Int
      OBVIOUS
    <3>2. \A n \in Nat : Cardinality(1..n) = IF 1 > n THEN 0 ELSE n - 1 + 1
      BY <3>1, FS_Interval
    <3>3. \A n \in Nat : (IF 1 > n THEN 0 ELSE n - 1 + 1) = n
      OBVIOUS
    <3>4. QED BY <2>1, <3>2, <3>3
  <2>3. QED BY <2>2 DEF I
<1>8. QED BY <1>3, <1>4, <1>5, <1>6, <1>7

\* A shop's export restores its stock in an empty shop, for any shop within the importer's
\* limits: the file is taken exactly when it has at most ImportRows lines and is not too
\* large, and every row in stock has something left, a name and a metal; every row in stock
\* then comes back under its barcode as it was, but for blanks around its texts, a quote
\* that looked like the export's own, and the capitals of its metal.
THEOREM ExportAlwaysImportsBack == CatalogueSpec => []ExportImportsBack
<1>1. ASSUME CatalogueInv PROVE ExportImportsBack
  <2> DEFINE lines == Coded(Export, Accepted(Export, {}), <<>>)
             back == Added(Export, lines)
  <2>1. CatalogueAssumption
    BY CatalogueAssumption
  <2>2. \A large \in BOOLEAN :
          Parses(Export, large) <=> /\ ~large /\ Cardinality(Shown) <= ImportRows
                                    /\ \A b \in OnSale : Taking(shop[b])
    BY <1>1, <2>1, ExportParses
  <2>3. DOMAIN lines = OnSale
    BY <1>1, <2>1, ExportAccepted
  <2>4. DOMAIN back = OnSale
    BY <2>3 DEF Added
  <2>5. ASSUME \A b \in OnSale : Taking(shop[b]), NEW b \in OnSale
        PROVE  back[b] = AsRead(shop[b])
    <3> DEFINE i == lines[b]
               q == Normalize(ReadBack(shop[b]))
    <3>1. i \in Candidates(Export) /\ Place(Shown, i) = b
          /\ i \in 1..Cardinality(Shown)
      BY <1>1, <2>1, ExportAccepted
    <3>2. back[b] = NewRow(Candidate(Export, i))
      BY <2>3 DEF Added
    <3> HIDE DEF i, lines
    <3>3. Candidate(Export, i) = q
      BY <1>1, <2>1, <3>1, ExportLines
    <3>4. /\ shop[b] \in Rows /\ Fits(shop[b]) /\ shop[b].status = "in_stock"
          /\ shop[b].stock_mode = "weight" => shop[b].quantity = 1
      BY <1>1, <2>1, ShownRows
    <3>5. q.quantity > 0 <=> shop[b].quantity > 0 /\ shop[b].stock_weight # 0
      BY <2>1, <3>4, RowRestored
    <3>6. q.quantity > 0
      BY <2>5, <3>5 DEF Taking, Left
    <3>7. NewRow(q) = AsRead(shop[b])
      BY <2>1, <3>4, <3>6, RowRestored
    <3>8. QED BY <3>2, <3>3, <3>7
  <2> HIDE DEF back
  <2>6. ASSUME NEW large \in BOOLEAN
        PROVE  /\ Parses(Export, large) <=>
                    /\ ~large /\ Cardinality(Shown) <= ImportRows
                    /\ \A b \in OnSale : /\ shop[b].quantity > 0 /\ shop[b].stock_weight # 0
                                        /\ Strip(shop[b].name) # "" /\ Strip(shop[b].metal) # ""
               /\ Parses(Export, large) =>
                    /\ DOMAIN back = OnSale
                    /\ \A b \in OnSale :
                         back[b] = [shop[b] EXCEPT !.name = Read(Safe(@)),
                                                   !.metal = Lower(Strip(@))]
    <3>1. Parses(Export, large) => \A b \in OnSale : back[b] = AsRead(shop[b])
      BY <2>2, <2>5
    <3>2. QED BY <2>2, <2>4, <3>1 DEF Taking, Left, Named, AsRead
  <2>7. QED BY <2>6 DEF ExportImportsBack, OnSale, Shown, back
<1>2. QED BY <1>1, CatalogueInvariance, PTL
=============================================================================
