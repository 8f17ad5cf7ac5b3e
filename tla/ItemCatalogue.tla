--------------------------- MODULE ItemCatalogue ---------------------------
(***************************************************************************)
(* The items of one shop (app/modules/items): what the forms accept        *)
(* (schemas.py), what an edit merges and writes (service.py), what the     *)
(* columns and CHECK constraints of the table keep (models.py), the CSV    *)
(* export and import, and the price each screen gives a row.  Three layers *)
(* decide what a row may be, and four places work out what it costs.       *)
(*                                                                         *)
(* A row counts every weight and amount in the quantum of its column.  A   *)
(* form's Decimal is finer: it comes in parts of 1/Fine of that quantum,   *)
(* and the column rounds it half up.                                       *)
(*                                                                         *)
(* Definitions whose name ends in _Mutant are plausible bugs of the one    *)
(* that follows them; the runs' properties are shown to reject them.       *)
(***************************************************************************)
EXTENDS Integers, FiniteSets

CONSTANTS
  Barcodes,     \* numbers; 0 stands for a cell left empty
  Edited,       \* bound: the barcodes the forms and the counter work on; the others only
                \* come with a file
  Payloads,     \* forms for a new item
  Changes,      \* edits: the fields sent, with their values
  Files,        \* CSV files, sequences of lines
  ImportRows,   \* lines the importer takes (MAX_INVENTORY_IMPORT_ROWS)
  Rates,        \* rates per gram of pure metal a shop may have set
  ActiveLimit,  \* active items the plan allows
  Fine,         \* parts of a column's quantum a form can tell apart
  Limit,        \* the largest number a column holds
  GramParts     \* quanta of a weight column in a gram (1000)

Null == -1   \* None, for a number

\* The forms keep a text as it is typed: blanks alone, blanks around a word, a formula, a
\* quote before it, capitals.  The name stands for every column of text.
Texts == {"", " ", "plain", " plain", "=x", "'=x"}
Metals == {"", " ", "gold", " gold", "silver", "Silver", "stone", "Stone"}
Strip(text) == CASE text = " " -> "" [] text = " plain" -> "plain"
                 [] text = " gold" -> "gold" [] OTHER -> text
Lower(text) == CASE text = "Silver" -> "silver" [] text = "Stone" -> "stone" [] OTHER -> text

\* What the fields of ItemBase may hold; only an old client sends no pricing method.
Methods == {"fixed_rate", "fixed_making_charge", "making_charge_per_gram", "rate_per_ratti"}
Optional == Nat \cup {Null}
Fields ==
  [name |-> Texts, category |-> {"ring", "unique", "other"},
   item_type |-> {"jewellery", "stone"}, stock_mode |-> {"quantity", "weight"},
   pricing_method |-> Methods \cup {"none"}, metal |-> Metals,
   purity |-> Nat, net_weight |-> Nat, making_charge |-> Nat, fixed_rate |-> Optional,
   stock_weight |-> Optional, ratti |-> Optional, rate_per_ratti |-> Optional,
   quantity |-> Nat]

\* Some of the fields with their values, and all of them.
Partial(r) ==
  /\ r = [f \in DOMAIN r |-> r[f]] /\ DOMAIN r \subseteq DOMAIN Fields
  /\ \A f \in DOMAIN r : r[f] \in Fields[f]
Form(p) == Partial(p) /\ DOMAIN p = DOMAIN Fields

ASSUME CatalogueAssumption ==
  /\ Barcodes \subseteq Nat \ {0} /\ IsFiniteSet(Barcodes)
  /\ Edited \subseteq Barcodes
  /\ \A p \in Payloads : Form(p)
  /\ \A r \in Changes : Partial(r)
  /\ \A file \in Files :
       /\ DOMAIN file \subseteq Nat /\ IsFiniteSet(DOMAIN file)
       /\ \A i \in DOMAIN file :
            file[i].barcode \in Barcodes \cup {0} /\ Form(file[i].cells)
  /\ Rates \subseteq Nat \cup {Null}
  /\ {ActiveLimit, ImportRows, Fine, Limit, GramParts} \subseteq Nat \ {0}

VARIABLES
  shop,      \* the row of each barcode, NoItem where there is none
  everSold,  \* barcodes with a sale_items row
  finer,     \* history: barcodes that took a number finer than its column
  outcome,   \* history: how the last request ended
  odd        \* history: it held a number its column cannot keep as it is

catalogueVars == <<shop, everSold, finer, outcome, odd>>

Weights == {"net_weight", "stock_weight", "ratti"}
Amounts == {"making_charge", "fixed_rate", "rate_per_ratti"}
Decimals == Weights \cup Amounts
NoItem == [status |-> "none"]
Taken == {b \in Barcodes : shop[b] # NoItem}

\* f, and g where f says nothing.
Over(f, g) == [x \in DOMAIN f \cup DOMAIN g |-> IF x \in DOMAIN f THEN f[x] ELSE g[x]]

-----------------------------------------------------------------------------
(* What a form may say: ItemBase.                                           *)

LegacyMethod(category) ==
  CASE category = "unique" -> "fixed_rate"
    [] category = "other" -> "fixed_making_charge"
    [] OTHER -> "making_charge_per_gram"

\* The first half of normalize_legacy_payload: the pricing method and the fields it leaves
\* without meaning.
NormalizeMethod(p) ==
  LET legacy == p.pricing_method = "none"
      method == IF ~legacy THEN p.pricing_method
                ELSE IF p.item_type = "stone" THEN "rate_per_ratti"
                ELSE LegacyMethod(p.category)
      q == [p EXCEPT !.pricing_method = method,
                     !.fixed_rate = IF @ = Null THEN 0 ELSE @]
  IN CASE p.item_type = "stone" ->
            [q EXCEPT !.metal = "stone", !.purity = 0, !.net_weight = 0,
                      !.making_charge = 0, !.fixed_rate = 0, !.stock_weight = Null]
       [] p.item_type # "stone" /\ method = "fixed_rate" ->
            [q EXCEPT !.fixed_rate = IF p.fixed_rate = Null THEN p.making_charge ELSE @,
                      !.making_charge = 0, !.stock_weight = Null,
                      !.net_weight = IF legacy /\ p.category = "unique" THEN 0 ELSE @]
       [] OTHER -> [q EXCEPT !.fixed_rate = 0]

\* The second half: what is left of a weighted item, and the quantity that stands for it.
NormalizeStock(q) ==
  IF q.stock_mode # "weight" THEN [q EXCEPT !.stock_weight = Null]
  ELSE LET total == IF q.net_weight = 0 /\ q.stock_weight > 0
                    THEN q.stock_weight ELSE q.net_weight
           remaining == IF q.stock_weight = Null THEN total ELSE q.stock_weight
       IN [q EXCEPT !.net_weight = total, !.stock_weight = remaining,
                    !.quantity = IF remaining > 0 THEN 1 ELSE 0]

Normalize(p) == NormalizeStock(NormalizeMethod(p))

\* validate_modes and the fields' own bounds.
Valid_Mutant(q) ==
  /\ q.name # "" /\ q.metal # "" /\ q.purity \in 0..100
  /\ q.item_type = "stone" =>
       /\ q.pricing_method = "rate_per_ratti" /\ q.stock_mode = "quantity"
       /\ q.ratti > 0 /\ q.rate_per_ratti > 0
  /\ q.item_type # "stone" =>
       /\ q.pricing_method # "rate_per_ratti"
       /\ Lower(Strip(q.metal)) # "stone"
       /\ q.ratti = Null /\ q.rate_per_ratti = Null
       /\ q.stock_mode = "weight" =>
            /\ q.pricing_method # "fixed_rate"
            /\ q.stock_weight \in 0..q.net_weight
            /\ q.stock_weight > 0 <=> q.quantity = 1
       /\ q.stock_mode = "quantity" =>
            IF q.pricing_method = "fixed_rate" THEN q.fixed_rate > 0 ELSE q.net_weight > 0

Valid(q) ==
  /\ q.name # "" /\ q.metal # "" /\ q.purity \in 0..100
  /\ q.item_type = "stone" =>
       /\ q.pricing_method = "rate_per_ratti" /\ q.stock_mode = "quantity"
       /\ q.ratti > 0 /\ q.rate_per_ratti > 0
  /\ q.item_type # "stone" =>
       /\ q.pricing_method # "rate_per_ratti"
       /\ Lower(Strip(q.metal)) # "stone"
       /\ q.ratti = Null /\ q.rate_per_ratti = Null
       /\ q.stock_mode = "weight" =>
            /\ q.pricing_method # "fixed_rate"
            /\ q.net_weight > 0
            /\ q.stock_weight \in 0..q.net_weight
            /\ q.stock_weight > 0 <=> q.quantity = 1
       /\ q.stock_mode = "quantity" =>
            IF q.pricing_method = "fixed_rate" THEN q.fixed_rate > 0 ELSE q.net_weight > 0

\* ItemCreate: a new weighted item is whole.
ValidNew(q) == Valid(q) /\ (q.stock_mode = "weight" => q.stock_weight = q.net_weight)

-----------------------------------------------------------------------------
(* What the table keeps.                                                    *)

\* A Numeric column rounds half up to its scale.
Stored(x) == IF x = Null THEN Null ELSE (2 * x + Fine) \div (2 * Fine)

\* The row's number, as a form would send it back.
Sent(x) == IF x = Null THEN Null ELSE x * Fine

Columns(q) == [f \in DOMAIN q |-> IF f \in Decimals THEN Stored(q[f]) ELSE q[f]]
Cells(row) ==
  [f \in DOMAIN row \ {"status"} |-> IF f \in Decimals THEN Sent(row[f]) ELSE row[f]]

NewRow(q) == Over(Columns(q), [status |-> "in_stock"])

\* A number of the form that the column rounds or is too small for.
Odd(p) == \E f \in DOMAIN p \cap Decimals : p[f] # Sent(Stored(p[f])) \/ Stored(p[f]) > Limit

\* The CHECK constraints of items, and the width of its columns.
Fits(row) ==
  /\ \A f \in Decimals : row[f] <= Limit
  /\ \/ /\ row.item_type = "stone" /\ row.metal = "stone"
        /\ row.pricing_method = "rate_per_ratti" /\ row.stock_mode = "quantity"
        /\ row.purity = 0 /\ row.net_weight = 0 /\ row.making_charge = 0 /\ row.fixed_rate = 0
        /\ row.stock_weight = Null /\ row.ratti > 0 /\ row.rate_per_ratti > 0
     \/ /\ row.item_type = "jewellery" /\ row.metal # "stone"
        /\ row.pricing_method # "rate_per_ratti" /\ row.ratti = Null /\ row.rate_per_ratti = Null
  /\ \/ row.stock_mode = "quantity" /\ row.stock_weight = Null
     \/ /\ row.stock_mode = "weight" /\ row.item_type = "jewellery"
        /\ row.pricing_method # "fixed_rate" /\ row.net_weight > 0
        /\ row.stock_weight \in 0..row.net_weight /\ row.quantity \in {0, 1}
  /\ \/ row.item_type = "stone"
     \/ /\ row.pricing_method = "fixed_rate" /\ row.fixed_rate > 0
        /\ row.making_charge = 0 /\ row.stock_mode = "quantity"
     \/ /\ row.pricing_method \in {"fixed_making_charge", "making_charge_per_gram"}
        /\ row.fixed_rate = 0
        /\ row.stock_mode = "weight" \/ row.net_weight > 0

\* A flush either keeps every row or, at the first that does not fit, none; odds are the
\* rows with an odd number.
Save(rows, odds) ==
  /\ odd' = (odds # {})
  /\ IF \A b \in DOMAIN rows : Fits(rows[b])
     THEN /\ shop' = Over(rows, shop)
          /\ outcome' = "saved"
          /\ finer' = finer \cup odds
     ELSE /\ outcome' = "rejected"
          /\ UNCHANGED <<shop, finer>>
  /\ UNCHANGED everSold

Refuse == /\ outcome' = "refused" /\ odd' = FALSE
          /\ UNCHANGED <<shop, everSold, finer>>

Active == {b \in Taken : shop[b].status = "in_stock" /\ shop[b].quantity > 0}
CanActivate_Mutant(n) == n = 0 \/ Cardinality(Active) < ActiveLimit
CanActivate(n) == n = 0 \/ Cardinality(Active) + n <= ActiveLimit

CatalogueInit ==
  /\ shop = [b \in Barcodes |-> NoItem]
  /\ everSold = {} /\ finer = {}
  /\ outcome = "none" /\ odd = FALSE

-----------------------------------------------------------------------------
(* The operations.                                                          *)

\* create_item: the form, the plan, a barcode given or drawn, the row.
Create(b, p) ==
  LET q == Normalize(p)
      accepted == ValidNew(q) /\ (q.quantity > 0 => CanActivate(1))
  IN /\ b \notin Taken
     /\ \/ /\ accepted
           /\ Save([c \in {b} |-> NewRow(q)], {c \in {b} : Odd(p)})
        \/ ~accepted /\ Refuse

\* A form that gives a barcode of the shop, an archived item's too: uq_items_shop_barcode.
CreateTwice(b) == b \in Taken /\ Refuse

\* What an edit asks for a weighted item: the total moves, what was cut from it stays cut.
\* NoItem where the edit is refused.
EditedWeight(row, r) ==
  LET now == Cells(row)
      asked == IF "stock_weight" \in DOMAIN r THEN r.stock_weight ELSE Null
      total == IF row.stock_mode = "weight"
               THEN IF "net_weight" \in DOMAIN r THEN r.net_weight ELSE now.net_weight
               ELSE IF "net_weight" \in DOMAIN r /\ r.net_weight > 0 THEN r.net_weight
               ELSE IF asked = Null THEN 0 ELSE asked
      consumed == IF row.stock_mode = "weight" THEN now.net_weight - now.stock_weight ELSE 0
      direct == /\ row.stock_mode = "weight"
                /\ "stock_weight" \in DOMAIN r /\ "net_weight" \notin DOMAIN r
                /\ r.stock_weight # now.stock_weight
  IN IF direct \/ total <= 0 \/ total < consumed THEN NoItem
     ELSE [net_weight |-> total, stock_weight |-> total - consumed,
           quantity |-> IF total > consumed THEN 1 ELSE 0]

\* The fields an edit writes: those it names, and with any of the first group all of the
\* second.
Regrouping == {"category", "item_type", "pricing_method", "stock_mode", "net_weight"}
Regrouped == Decimals \cup {"metal", "purity", "quantity"}

Written_Mutant(asked) ==
  IF asked \cap (Regrouping \ {"pricing_method"}) # {} THEN asked \cup Regrouped ELSE asked

Written(asked) == IF asked \cap Regrouping # {} THEN asked \cup Regrouped ELSE asked

\* update_item, under the row's lock.
Update(b, r) ==
  LET row == shop[b]
      mode == IF "stock_mode" \in DOMAIN r THEN r.stock_mode ELSE row.stock_mode
      weighed == EditedWeight(row, r)
      asked == IF mode = "weight" /\ weighed # NoItem THEN Over(weighed, r) ELSE r
      q == Normalize(Over(asked, Cells(row)))
      activates == row.quantity = 0 /\ "quantity" \in DOMAIN asked /\ asked.quantity > 0
      accepted ==
        /\ row.status = "in_stock"
        /\ "item_type" \in DOMAIN r => r.item_type = row.item_type
        /\ mode # row.stock_mode => b \notin everSold
        /\ mode = "weight" => weighed # NoItem
        /\ activates => CanActivate(1)
        /\ Valid(q)
      emptied == q.stock_mode = "weight" /\ q.stock_weight = 0
      after == Over([f \in Written(DOMAIN asked) |-> Columns(q)[f]], row)
  IN /\ b \in Taken
     /\ \/ /\ accepted
           /\ Save([c \in {b} |-> [after EXCEPT !.status = IF emptied THEN "sold" ELSE @]],
                   {c \in {b} : Odd(r)})
        \/ ~accepted /\ Refuse

\* _execute_create_sale on this row: units of a counted item, weight of a weighed one.
Sell_Mutant(b, n) ==
  LET row == shop[b]
      left == (IF row.stock_mode = "weight" THEN row.stock_weight ELSE row.quantity) - n
      after == IF row.stock_mode = "weight"
               THEN [row EXCEPT !.stock_weight = left]
               ELSE [row EXCEPT !.quantity = left]
  IN /\ b \in Taken /\ row.status = "in_stock" /\ left >= 0
     /\ shop' = [shop EXCEPT ![b] = [after EXCEPT !.status = IF left = 0 THEN "sold" ELSE @]]
     /\ everSold' = everSold \cup {b}
     /\ outcome' = "saved" /\ odd' = FALSE
     /\ UNCHANGED finer

Sell(b, n) ==
  LET row == shop[b]
      left == (IF row.stock_mode = "weight" THEN row.stock_weight ELSE row.quantity) - n
      after == IF row.stock_mode = "weight"
               THEN [row EXCEPT !.stock_weight = left, !.quantity = IF left = 0 THEN 0 ELSE 1]
               ELSE [row EXCEPT !.quantity = left]
  IN /\ b \in Taken /\ row.status = "in_stock" /\ left >= 0
     /\ shop' = [shop EXCEPT ![b] = [after EXCEPT !.status = IF left = 0 THEN "sold" ELSE @]]
     /\ everSold' = everSold \cup {b}
     /\ outcome' = "saved" /\ odd' = FALSE
     /\ UNCHANGED finer

\* delete_item: the row stays, with its barcode.
ArchiveItem(b) ==
  /\ b \in Taken /\ shop[b].status = "in_stock"
  /\ shop' = [shop EXCEPT ![b].quantity = 0, ![b].status = "archived"]
  /\ outcome' = "saved" /\ odd' = FALSE
  /\ UNCHANGED <<everSold, finer>>

-----------------------------------------------------------------------------
(* Export and import.                                                       *)

\* _spreadsheet_safe puts a quote before a formula; _cell strips blanks and takes the
\* quote off again, and also one that was there before.
Safe(text) == IF text = "=x" THEN "'=x" ELSE text
Unquote(text) == IF text = "'=x" THEN "=x" ELSE text
Read(text) == Unquote(Strip(text))

Line(b, row) ==
  [barcode |-> b, status |-> row.status, cells |-> [Cells(row) EXCEPT !.name = Safe(@)]]

\* build_inventory_csv: every row that is not archived.
Export ==
  LET rows == {b \in Taken : shop[b].status # "archived"}
  IN [i \in 1..Cardinality(rows) |->
        LET b == CHOOSE c \in rows : Cardinality({d \in rows : d < c}) = i - 1
        IN Line(b, shop[b])]

\* _item_payload: what the importer reads from a line.
ItemPayload_Mutant(cells) ==
  LET stone == cells.item_type = "stone"
  IN [cells EXCEPT
        !.name = Read(@),
        !.metal = IF stone THEN "stone" ELSE Lower(Read(@)),
        !.purity = IF stone THEN 0 ELSE @,
        !.net_weight = IF stone THEN 0 ELSE @,
        !.stock_weight = Null,
        !.quantity = IF cells.stock_mode = "weight" THEN 1 ELSE @,
        !.making_charge = IF stone \/ cells.pricing_method = "fixed_rate" THEN 0 ELSE @,
        !.fixed_rate = IF ~stone /\ cells.pricing_method = "fixed_rate" THEN @ ELSE 0]

ItemPayload(cells) ==
  LET stone == cells.item_type = "stone"
  IN [cells EXCEPT
        !.name = Read(@),
        !.metal = IF stone THEN "stone" ELSE Lower(Read(@)),
        !.purity = IF stone THEN 0 ELSE @,
        !.net_weight = IF stone THEN 0 ELSE @,
        !.quantity = IF cells.stock_mode = "weight" THEN 1 ELSE @,
        !.making_charge = IF stone \/ cells.pricing_method = "fixed_rate" THEN 0 ELSE @,
        !.fixed_rate = IF ~stone /\ cells.pricing_method = "fixed_rate" THEN @ ELSE 0]

\* The lines parse_inventory_csv makes candidates of: no status, or in stock.
Candidates(file) == {i \in DOMAIN file : file[i].status \in {"", "in_stock"}}

Candidate(file, i) == Normalize(ItemPayload(file[i].cells))

\* It takes the file whole or not at all: not too large, in bytes and in lines of whatever
\* status, every status known, every candidate valid and with something left.
Parses(file, large) ==
  /\ ~large /\ Cardinality(DOMAIN file) <= ImportRows
  /\ \A i \in DOMAIN file :
       file[i].status \in {"", "in_stock", "sold", "reserved", "archived"}
  /\ \A i \in Candidates(file) : Valid(Candidate(file, i)) /\ Candidate(file, i).quantity > 0

\* The candidates import_inventory_csv accepts into a shop with these barcodes; the others
\* go into the correction file.
Accepted(file, existing) ==
  {i \in Candidates(file) :
     \/ file[i].barcode = 0
     \/ /\ file[i].barcode \notin existing
        /\ \A j \in Candidates(file) : j < i => file[j].barcode # file[i].barcode}

\* generate_unique_barcode for the lines without one: barcodes of neither shop nor file.
Drawn(file, accepted, existing) ==
  LET given == {file[i].barcode : i \in accepted} \ {0}
      blank == {i \in accepted : file[i].barcode = 0}
      free == Barcodes \ (existing \cup given)
  IN {f \in [blank -> free] : \A i, j \in blank : i # j => f[i] # f[j]}

\* The lines a file adds, by barcode, for one way of drawing those it leaves empty.
Code(file, drawn, i) == IF file[i].barcode = 0 THEN drawn[i] ELSE file[i].barcode
Coded(file, accepted, drawn) ==
  [b \in {Code(file, drawn, i) : i \in accepted} |->
     CHOOSE i \in accepted : Code(file, drawn, i) = b]

Added(file, lines) ==
  [b \in DOMAIN lines |-> NewRow(Candidate(file, lines[b]))]

\* import_inventory_csv, under the shop's lock; large: the document is over 5 MiB.
Import(file, large) ==
  LET accepted == Accepted(file, Taken)
      drawn == Drawn(file, accepted, Taken)
      lines == Coded(file, accepted, CHOOSE f \in drawn : TRUE)
      fits == Parses(file, large) /\ CanActivate(Cardinality(accepted))
  IN \/ /\ fits /\ drawn # {}
        /\ Save(Added(file, lines), {b \in DOMAIN lines : Odd(file[lines[b]].cells)})
     \/ ~fits /\ Refuse

CatalogueNext ==
  \/ \E b \in Edited :
       \/ \E p \in Payloads : Create(b, p)
       \/ CreateTwice(b)
       \/ \E r \in Changes : Update(b, r)
       \/ \E n \in 1..Limit : Sell(b, n)
       \/ ArchiveItem(b)
  \/ \E file \in Files, large \in BOOLEAN : Import(file, large)

CatalogueSpec == CatalogueInit /\ [][CatalogueNext]_catalogueVars

-----------------------------------------------------------------------------
(* What a row costs.                                                        *)

\* A weight times an amount, or a percentage of an amount, counts amounts in parts of
\* 1 / Unit; quantize_money brings them back, half up.
Unit == GramParts * 100
Money(x) == (2 * x + Unit) \div (2 * Unit)

\* calculate_effective_rate_per_gram: silver is sold at the base rate whatever its purity.
Effective(row, rate) == rate * (IF Lower(Strip(row.metal)) = "silver" THEN 100 ELSE row.purity)

\* calculate_suggested_price: the price before tax of some weight of a row.
Suggested(row, weight, rate) ==
  CASE row.item_type = "stone" \/ row.pricing_method = "rate_per_ratti" ->
         Money(row.ratti * row.rate_per_ratti * 100)
    [] row.item_type # "stone" /\ row.pricing_method = "fixed_rate" -> row.fixed_rate
    [] OTHER ->
         Money(weight * Effective(row, rate)
               + row.making_charge * (IF row.pricing_method = "fixed_making_charge"
                                      THEN Unit ELSE weight * 100))

\* A price that depends on a metal's rate; it needs one set.
NeedsRate(row) == row.item_type = "jewellery" /\ row.pricing_method # "fixed_rate"
Priced(row, rate) == NeedsRate(row) => rate # Null
RateOf(row, rate) == IF NeedsRate(row) THEN rate ELSE 0

\* The dashboard's SQL for the same row, in parts of 1 / Unit: what its stock would sell
\* for before tax.  It never rounds.
Valuation_Mutant(row, rate) ==
  LET weight == IF row.stock_mode = "weight" THEN row.stock_weight ELSE row.net_weight
      making == row.making_charge * (IF row.pricing_method = "fixed_making_charge"
                                     THEN Unit ELSE weight * 100)
      suggested == CASE row.item_type = "stone" -> row.ratti * row.rate_per_ratti * 100
                     [] row.pricing_method = "fixed_rate" -> row.fixed_rate * Unit
                     [] OTHER -> weight * rate * row.purity + making
  IN IF row.stock_mode = "weight" THEN suggested ELSE row.quantity * suggested

Valuation(row, rate) ==
  LET weight == IF row.stock_mode = "weight" THEN row.stock_weight ELSE row.net_weight
      effective == IF Lower(row.metal) = "silver" THEN rate * 100 ELSE rate * row.purity
      making == row.making_charge * (IF row.pricing_method = "fixed_making_charge"
                                     THEN Unit ELSE weight * 100)
      suggested == CASE row.item_type = "stone" -> row.ratti * row.rate_per_ratti * 100
                     [] row.pricing_method = "fixed_rate" -> row.fixed_rate * Unit
                     [] OTHER -> weight * effective + making
  IN IF row.stock_mode = "weight" THEN suggested ELSE row.quantity * suggested

-----------------------------------------------------------------------------
(* Properties.                                                              *)

RowTexts == Texts \ {""}
RowMetals == Metals \ {"", "Stone"}
Rows ==
  [name : RowTexts, category : {"ring", "unique", "other"},
   item_type : {"jewellery", "stone"}, stock_mode : {"quantity", "weight"},
   pricing_method : {"fixed_rate", "fixed_making_charge", "making_charge_per_gram",
                     "rate_per_ratti"},
   metal : RowMetals, purity : 0..100,
   net_weight : 0..Limit, making_charge : 0..Limit, fixed_rate : 0..Limit,
   stock_weight : {Null} \cup 0..Limit, ratti : {Null} \cup 0..Limit,
   rate_per_ratti : {Null} \cup 0..Limit, quantity : Nat,
   status : {"in_stock", "sold", "archived"}]

\* Type invariant; a saved row satisfies the table's CHECK constraints, whatever wrote it,
\* and there are never more active rows than the plan allows.
CatalogueTypeOK ==
  /\ \A b \in Taken : shop[b] \in Rows /\ Fits(shop[b])
  /\ everSold \subseteq Taken /\ finer \subseteq Taken
  /\ outcome \in {"none", "saved", "refused", "rejected"}
  /\ odd \in BOOLEAN
  /\ Cardinality(Active) <= ActiveLimit

\* A form, an edit or a file that passes validation is one the table takes, unless it
\* holds a number finer or larger than its column: the validators, the merge and the group
\* of fields an edit writes along (schemas.py:28-135, service.py:219-268) leave no gap to
\* the CHECK constraints, which answer with a server error.
OnlyOddNumbersFail == outcome = "rejected" => odd

\* The quantity of a weighed row says whether anything is left of it, and what is sold
\* out is marked so, through every order of edits of the total and sales of parts - but
\* for rows that once took a number finer than the column (service.py:189-203, 276-279).
QuantityTellsWeight ==
  \A b \in Taken \ finer :
    LET row == shop[b]
    IN row.stock_mode = "weight" /\ row.status # "archived" =>
         /\ row.quantity = IF row.stock_weight > 0 THEN 1 ELSE 0
         /\ row.status = IF row.stock_weight > 0 THEN "in_stock" ELSE "sold"

\* The dashboard's SQL values the stock at the prices pricing.py would ask for it, to half
\* a paisa a unit, whichever way the row is priced, however its metal is written and
\* whatever the rate (dashboard/service.py:127-227).
ValuationMatchesPrice ==
  \A b \in Taken : \A rate \in Rates :
    LET row == shop[b]
        stock == IF row.stock_mode = "weight" THEN row.stock_weight ELSE row.net_weight
        price == Suggested(row, stock, RateOf(row, rate))
        pieces == IF row.stock_mode = "weight" THEN 1 ELSE row.quantity
        gap == 2 * (pieces * price * Unit - Valuation(row, rate))
    IN row.status = "in_stock" /\ Priced(row, rate) =>
         gap \in -(pieces * Unit)..(pieces * Unit)

\* A shop's export restores its stock in an empty shop.  The file is taken exactly when it
\* is within the importer's limits - 5 MiB, ImportRows lines, those of sold rows included -
\* and each row in stock has something left and more than blanks for a name and a metal.
\* Then every row in stock comes back as it was but for three things the reader does: its
\* texts lose the blanks around them and a quote that was there before the export's own,
\* and its metal its capitals (importer.py:75-114, 140-144, 195-203, export.py:108-159).
ExportImportsBack ==
  LET stock == {b \in Taken : shop[b].status = "in_stock"}
      listed == {b \in Taken : shop[b].status # "archived"}
      lines == Coded(Export, Accepted(Export, {}), <<>>)
      back == Added(Export, lines)
  IN \A large \in BOOLEAN :
       /\ Parses(Export, large) <=>
            /\ ~large /\ Cardinality(listed) <= ImportRows
            /\ \A b \in stock : /\ shop[b].quantity > 0 /\ shop[b].stock_weight # 0
                               /\ Strip(shop[b].name) # "" /\ Strip(shop[b].metal) # ""
       /\ Parses(Export, large) =>
            /\ DOMAIN back = stock
            /\ \A b \in stock :
                 back[b] = [shop[b] EXCEPT !.name = Read(Safe(@)), !.metal = Lower(Strip(@))]

-----------------------------------------------------------------------------
(* The properties as the run checks them.                                   *)

\* Every row is one the table takes, within the plan, and its quantity and status tell
\* what is left of it.
RowsAreSound == CatalogueTypeOK /\ QuantityTellsWeight
=============================================================================
