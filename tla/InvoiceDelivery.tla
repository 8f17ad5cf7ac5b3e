--------------------------- MODULE InvoiceDelivery ---------------------------
(***************************************************************************)
(* The invoice pipeline of a shop beside the WhatsApp delivery of one of   *)
(* its sales.  They share the sale's row: the sending worker reads whether *)
(* the sale has an object key and its invoice_pdf_status                   *)
(* (app/jobs/whatsapp.py, _process_target), which the pipeline writes.     *)
(* WhatsAppDelivery takes the document as its environment, SaleDocument;   *)
(* here the pipeline's columns are put in its place.                       *)
(***************************************************************************)
EXTENDS InvoicePipeline

CONSTANTS
  TheSale,           \* the sale whose invoice is sent
  Deliveries,        \* its deliveries
  Senders,           \* attempt slots of the sending worker
  SenderTokens,      \* its lease tokens
  MaxSends,          \* settings.worker_whatsapp_max_attempts
  MaxSenderFaults,   \* bound: crashes and overruns of senders
  MaxSenderOverruns  \* bound: overruns among them

VARIABLES
  \* the delivery's variables, by other names where the pipeline has the same
  request, latest, seen,
  delivery, job, sends, sendDue, sendLease, sendToken,
  sender, sending, senderToken, outcome,
  suppressed,
  messages, reported,
  senderFaults, senderOverruns

deliveryVars ==
  <<request, latest, seen, delivery, job, sends, sendDue, sendLease, sendToken,
    sender, sending, senderToken, outcome, suppressed, messages, reported,
    senderFaults, senderOverruns>>

\* The delivery, with the sale's own columns for its document.
Delivery == INSTANCE WhatsAppDelivery WITH
  Workers <- Senders, Tokens <- SenderTokens, MaxAttempts <- MaxSends,
  MaxFaults <- MaxSenderFaults, MaxOverruns <- MaxSenderOverruns,
  row <- request, attempts <- sends, due <- sendDue, lease <- sendLease,
  leaseToken <- sendToken, pc <- sender, target <- sending, token <- senderToken,
  faults <- senderFaults, overruns <- senderOverruns,
  keyed <- index[TheSale] # None, pdf <- pdfStatus[TheSale]

SystemInit == Init /\ Delivery!Init

\* A step is one of the pipeline or one of the delivery, which changes no column
\* of the sale.
SystemNext ==
  \/ UNCHANGED deliveryVars /\ Next
  \/ UNCHANGED vars /\ Delivery!Next

SystemSpec == SystemInit /\ [][SystemNext]_<<vars, deliveryVars>>

-----------------------------------------------------------------------------
\* The two together do nothing that the delivery alone does not allow for: what is
\* proved of WhatsAppDelivery holds of it beside the pipeline that runs in its place.
DeliverySpec == Delivery!Spec

\* Nobody is sent a link to nothing: while the shop is active, every message the
\* provider takes was sent when the sale's key was recorded and the bytes under it were
\* those on record, however long ago the attempt had read the row.
SentIsStored ==
  [][shop = "active" /\ messages' # messages =>
       index[TheSale] # None /\ object[TheSale] = index[TheSale]]_<<vars, deliveryVars>>
=============================================================================
