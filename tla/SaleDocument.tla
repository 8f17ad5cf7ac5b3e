----------------------------- MODULE SaleDocument -----------------------------
(***************************************************************************)
(* What the invoice pipeline promises the rest of the system about one     *)
(* sale's document: the two columns other components read, whether the     *)
(* sale has an object key and its invoice_pdf_status.  InvoicePipeline     *)
(* implements this specification; WhatsAppDelivery takes it as its         *)
(* environment.                                                            *)
(***************************************************************************)
VARIABLES keyed, pdf

vars == <<keyed, pdf>>

Init == keyed = FALSE /\ pdf = "pending"

\* The status becomes ready only in the transaction that records the key, and
\* a recorded key is never recorded again.
Record == ~keyed /\ keyed' = TRUE /\ pdf' = "ready"

\* A failed attempt or a re-opened job; a late one also overwrites ready.
Mark == pdf' \in {"pending", "failed"} /\ UNCHANGED keyed

\* An account deletion removes the stored document.
Forget == keyed' = FALSE /\ UNCHANGED pdf

Next == Record \/ Mark \/ Forget

Spec == Init /\ [][Next]_vars
=============================================================================
