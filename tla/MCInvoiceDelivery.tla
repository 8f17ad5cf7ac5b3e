-------------------------- MODULE MCInvoiceDelivery --------------------------
(* A small instance of InvoiceDelivery for TLC. *)
EXTENDS InvoiceDelivery
=============================================================================
