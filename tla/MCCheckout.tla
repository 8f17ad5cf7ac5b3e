----------------------------- MODULE MCCheckout -----------------------------
(* Small instances of Checkout for TLC. *)
EXTENDS Checkout, TLC

CONSTANTS ring, chain  \* the two items

Absent == [kind |-> "quantity", amount |-> 0]
Pieces(n) == [kind |-> "quantity", amount |-> n]
Grams(n) == [kind |-> "weight", amount |-> n]

\* One piece of the ring, the ring with a gram of the chain, two grams of it.
MCCarts == {(ring :> Pieces(1) @@ chain :> Absent),
            (ring :> Pieces(1) @@ chain :> Grams(1)),
            (ring :> Absent @@ chain :> Grams(2))}

Entry(i, m, t, s, n) ==
  [item |-> i, mode |-> m, total |-> t, stock |-> s, count |-> n]

\* A new ring, two pieces of it, or two chains of which a gram is gone; a ring
\* restocked or emptied; a chain lengthened, cut to what is gone, or recounted.
MCEntries == {Entry(None, "quantity", 1, 1, 1), Entry(None, "weight", 2, 1, 2),
              Entry(ring, "quantity", 1, 1, 0), Entry(ring, "quantity", 0, 0, 0),
              Entry(chain, "weight", 3, 3, 0), Entry(chain, "weight", 1, 1, 0),
              Entry(chain, "quantity", 1, 1, 0)}

Symmetry == Permutations(Requests) \cup Permutations(Keys)
=============================================================================
