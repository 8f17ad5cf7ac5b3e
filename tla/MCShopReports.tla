--------------------------- MODULE MCShopReports ---------------------------
(* Small instances of ShopReports for TLC. *)
EXTENDS ShopReports, TLC

CONSTANTS ring, chain   \* two rings counted, a chain sold by weight

MCMetal == ring :> "gold" @@ chain :> "silver"

MCOrders ==
  {[kind |-> "create", item |-> ring, amount |-> 2],
   [kind |-> "update", item |-> chain, amount |-> 1],
   [kind |-> "archive", item |-> chain],
   [kind |-> "sell", lines |-> (ring :> 2)],
   [kind |-> "sell", lines |-> (chain :> 1)],
   [kind |-> "sell", lines |-> (ring :> 1 @@ chain :> 2)],
   [kind |-> "rate", metal |-> "gold", rate |-> 3],
   [kind |-> "rate", metal |-> "silver", rate |-> 2]}

MCPlace == ring :> 1 @@ chain :> 2
MCZones == -1..1
MCOpening == chain :> 2
MCRates == "silver" :> 1

Symmetry == Permutations(Clerks)
=============================================================================
