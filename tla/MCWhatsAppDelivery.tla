------------------------- MODULE MCWhatsAppDelivery -------------------------
(* Small instances of WhatsAppDelivery for TLC. *)
EXTENDS WhatsAppDelivery, TLC

Symmetry == Permutations(Workers) \cup Permutations(Tokens)
=============================================================================
