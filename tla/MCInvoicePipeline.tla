------------------------- MODULE MCInvoicePipeline -------------------------
(* Small instances of InvoicePipeline for TLC. *)
EXTENDS InvoicePipeline, TLC

Symmetry == Permutations(Sales) \cup Permutations(Workers)
              \cup Permutations(Tokens) \cup Permutations(Renders)
=============================================================================
