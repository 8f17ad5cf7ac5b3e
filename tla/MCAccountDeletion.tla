------------------------- MODULE MCAccountDeletion -------------------------
(* Small instances of AccountDeletion for TLC. *)
EXTENDS AccountDeletion

\* One organization that may get a second shop, and one that may be founded.
MCShops == {<<1, 1>>, <<1, 2>>, <<2, 1>>}

\* The first has sales: its two shops are the one that is listed and the one that may
\* be added late.
MCSelling == {<<1, 1>>, <<1, 2>>}
=============================================================================
