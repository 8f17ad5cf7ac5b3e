-------------------------- MODULE MCItemCatalogue --------------------------
(* Small instances of ItemCatalogue for TLC. *)
EXTENDS ItemCatalogue, TLC

Ring == [name |-> "=x", category |-> "ring", item_type |-> "jewellery",
         pricing_method |-> "making_charge_per_gram", stock_mode |-> "quantity",
         metal |-> " gold", purity |-> 75, net_weight |-> 6, making_charge |-> 3,
         fixed_rate |-> Null, stock_weight |-> Null, ratti |-> Null,
         rate_per_ratti |-> Null, quantity |-> 2]
Piece == [Ring EXCEPT !.pricing_method = "fixed_rate", !.fixed_rate = 3]
Chain == [Ring EXCEPT !.stock_mode = "weight", !.name = " plain", !.metal = "Silver"]
Stone == [Ring EXCEPT !.name = " ", !.item_type = "stone",
                      !.pricing_method = "rate_per_ratti", !.ratti = 3, !.rate_per_ratti = 6]
Gem == [Stone EXCEPT !.name = "'=x"]
Legacy == [Ring EXCEPT !.category = "unique", !.pricing_method = "none"]

\* The values a field may be sent with: in thirds of a quantum, 1 is too fine for a column
\* and 12 too large.
Values ==
  [name |-> {""}, category |-> {"ring", "unique"},
   item_type |-> {"jewellery", "stone"}, stock_mode |-> {"quantity", "weight"},
   pricing_method |-> {"none", "fixed_rate", "fixed_making_charge",
                       "making_charge_per_gram", "rate_per_ratti"},
   metal |-> {" ", "Stone"}, purity |-> {75, 101},
   net_weight |-> {0, 1, 6, 7}, making_charge |-> {3},
   fixed_rate |-> {0, 1, 3, 12}, stock_weight |-> {Null, 3, 6},
   ratti |-> {Null, 1, 3}, rate_per_ratti |-> {Null, 6}, quantity |-> {0, 2}]

MCRates == {Null, 7, 45}

Vary(p, f) == {[p EXCEPT ![f] = x] : x \in Values[f]}

MCPayloads ==
  LET one == UNION {Vary(p, f) : p \in {Ring, Piece, Chain, Stone, Gem, Legacy},
                                 f \in DOMAIN Values}
  IN UNION {Vary(p, f) : p \in one, f \in DOMAIN Values}

MCChanges ==
  LET one == UNION {{f :> x : x \in Values[f]} : f \in DOMAIN Values}
      paired == UNION {{f :> x : x \in Values[f]} :
                         f \in DOMAIN Values \ {"name", "category", "item_type", "metal",
                                                "purity", "making_charge", "rate_per_ratti"}}
  IN one \cup {r @@ s : r \in paired, s \in paired}

MCFiles ==
  LET row(b, s, p) == [barcode |-> b, status |-> s, cells |-> p]
      part == [Chain EXCEPT !.stock_weight = 3]
  IN {<<row(1, "in_stock", part), row(2, "sold", Stone)>>,
      <<row(2, "", Ring), row(0, "", Chain)>>,
      <<row(1, "in_stock", part), row(1, "", Gem)>>,
      <<row(2, "", Gem), row(0, "", [Ring EXCEPT !.quantity = 0])>>,
      <<row(2, "", Gem), row(0, "sold", Ring), row(0, "", Chain)>>,
      <<row(2, "", [Chain EXCEPT !.net_weight = 1])>>}
=============================================================================
