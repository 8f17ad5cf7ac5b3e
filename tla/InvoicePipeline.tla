--------------------------- MODULE InvoicePipeline ---------------------------
(***************************************************************************)
(* The invoice document pipeline of one shop: the sale row, its durable    *)
(* InvoiceJob row, the invoice workers (app/jobs/invoices.py and           *)
(* persist_invoice_pdf), the create-only object store, the download route  *)
(* that re-opens a failed job, and the clean-up an account deletion runs   *)
(* over the shop's stored PDFs.                                            *)
(*                                                                         *)
(* A step is one database transaction, one storage call, or the death of   *)
(* an attempt.  An "attempt" is the coroutine a worker process starts for  *)
(* one claimed job, so Workers is the set of coroutine slots of all worker *)
(* processes.  Time is the pair of steps LeaseExpires and BackoffElapses.  *)
(* A lease token is a fresh UUID: Claim picks one that no row and no       *)
(* running attempt holds.  The object key of a sale never changes          *)
(* (build_invoice_object_key), so a row's key is "set" or not.             *)
(*                                                                         *)
(* Definitions whose name ends in _Mutant are plausible bugs of the one    *)
(* that follows them; the runs' properties are shown to reject them.       *)
(***************************************************************************)
EXTENDS Naturals, FiniteSets

CONSTANTS
  Sales,        \* sales of the shop
  Workers,      \* attempt slots
  Tokens,       \* lease tokens
  Renders,      \* distinct byte strings a rendering of the same sale can give
  None,         \* Python's None
  MaxAttempts,  \* settings.worker_invoice_max_attempts
  MaxRequests,  \* bound: download requests in flight per sale
  MaxFaults,    \* bound: crashes and storage errors in a behaviour
  MaxOverruns   \* bound: attempts that outlive their lease in a behaviour

ASSUME ConstantsAssumption ==
  /\ None \notin Sales \cup Workers \cup Tokens \cup Renders
  /\ MaxAttempts \in Nat \ {0}
  /\ MaxRequests \in Nat
  /\ MaxFaults \in Nat
  /\ MaxOverruns \in Nat

VARIABLES
  \* the InvoiceJob row of each sale
  status, attempts, due, lease, leaseToken,
  \* the Sale row: whether it exists, its checksum while it has an object key
  \* (else None), and invoice_pdf_status
  row, index, pdfStatus,
  \* the bytes stored under the sale's object key, or None
  object,
  \* the attempt of each slot: what it does next, its sale, token and rendering
  pc, target, token, render,
  \* download requests that read a failed job and have yet to write
  resets,
  \* Shop.is_active or the row's end, and the clean-up of a deletion: its step,
  \* the keys it listed and those it has yet to delete
  shop, cleanup, listed, undeleted,
  \* faults, and leases that expired under a running attempt, so far
  faults, overruns

jobVars == <<status, attempts, due, lease, leaseToken>>
saleVars == <<row, index, pdfStatus>>
attemptVars == <<pc, target, token, render>>
cleanupVars == <<shop, cleanup, listed, undeleted>>
boundVars == <<faults, overruns>>
vars == <<jobVars, saleVars, object, attemptVars, resets, cleanupVars, boundVars>>

\* A crash or a storage error happens, within the run's bound.
Fault == faults < MaxFaults /\ faults' = faults + 1 /\ UNCHANGED overruns

-----------------------------------------------------------------------------
Init ==
  /\ status = [s \in Sales |-> "none"]
  /\ attempts = [s \in Sales |-> 0]
  /\ due = [s \in Sales |-> TRUE]
  /\ lease = [s \in Sales |-> "none"]
  /\ leaseToken = [s \in Sales |-> None]
  /\ row = [s \in Sales |-> "new"]
  /\ index = [s \in Sales |-> None]
  /\ pdfStatus = [s \in Sales |-> "pending"]
  /\ object = [s \in Sales |-> None]
  /\ pc = [w \in Workers |-> "idle"]
  /\ target = [w \in Workers |-> None]
  /\ token = [w \in Workers |-> None]
  /\ render = [w \in Workers |-> None]
  /\ resets = [s \in Sales |-> 0]
  /\ shop = "active" /\ cleanup = "idle" /\ listed = {} /\ undeleted = {}
  /\ faults = 0 /\ overruns = 0

\* create_sale commits the sale and its job together.  is_active was read when
\* the request was admitted (get_shop_context); the locking SELECT does not
\* refresh the loaded Shop, so the shop may have been deactivated since.
CreateSale(s) ==
  /\ shop # "deleted"
  /\ row[s] = "new"
  /\ row' = [row EXCEPT ![s] = "present"]
  /\ status' = [status EXCEPT ![s] = "pending"]
  /\ UNCHANGED <<attempts, due, lease, leaseToken, index, pdfStatus>>
  /\ UNCHANGED <<object, attemptVars, resets, cleanupVars, boundVars>>

-----------------------------------------------------------------------------
(* The invoice worker.                                                      *)

\* The attempt moves on, keeping its sale, token and rendering.
Goto(w, step) ==
  pc' = [pc EXCEPT ![w] = step] /\ UNCHANGED <<target, token, render>>

\* The coroutine ends and its slot is free.
End(w) ==
  /\ pc' = [pc EXCEPT ![w] = "idle"]
  /\ target' = [target EXCEPT ![w] = None]
  /\ token' = [token EXCEPT ![w] = None]
  /\ render' = [render EXCEPT ![w] = None]

\* The job row still carries the token of this attempt.
Runs(w, s) == pc[w] # "idle" /\ target[w] = s /\ token[w] = leaseToken[s]
Owns(w) == Runs(w, target[w])

TokensInUse == {leaseToken[s] : s \in Sales} \cup {token[w] : w \in Workers}

Claimable_Mutant(s) ==  \* expired leases are not reclaimed
  shop = "active" /\ status[s] = "pending" /\ due[s]

Claimable(s) ==
  /\ shop = "active"
  /\ \/ status[s] = "pending" /\ due[s]
     \/ status[s] = "processing" /\ lease[s] = "expired"

ClaimWith(w, s, t) ==
  /\ status' = [status EXCEPT ![s] = "processing"]
  /\ lease' = [lease EXCEPT ![s] = "held"]
  /\ leaseToken' = [leaseToken EXCEPT ![s] = t]
  /\ pc' = [pc EXCEPT ![w] = "claimed"]
  /\ target' = [target EXCEPT ![w] = s]
  /\ token' = [token EXCEPT ![w] = t]
  /\ UNCHANGED <<attempts, due, render>>
  /\ UNCHANGED <<saleVars, object, resets, cleanupVars, boundVars>>

Claim_Mutant(w, s, t) ==  \* a reclaimed job keeps its token
  /\ pc[w] = "idle" /\ Claimable(s) /\ t \notin TokensInUse
  /\ ClaimWith(w, s, IF leaseToken[s] = None THEN t ELSE leaseToken[s])

Claim(w, s, t) ==
  /\ pc[w] = "idle"
  /\ Claimable(s)
  /\ t \notin TokensInUse
  /\ ClaimWith(w, s, t)

\* First transaction of persist_invoice_pdf: nothing to do when the sale is
\* gone or already has a key, otherwise the PDF is rendered.  The canvas embeds
\* the rendering time, so two renderings of a sale may differ.
Render(w) ==
  LET s == target[w] IN
  /\ pc[w] = "claimed"
  /\ \/ /\ row[s] # "present" \/ index[s] # None
        /\ Goto(w, "done")
     \/ /\ row[s] = "present" /\ index[s] = None
        /\ \E r \in Renders : render' = [render EXCEPT ![w] = r]
        /\ pc' = [pc EXCEPT ![w] = "rendered"]
        /\ UNCHANGED <<target, token>>
  /\ UNCHANGED <<jobVars, saleVars, object, resets, cleanupVars, boundVars>>

Upload_Mutant(w) ==  \* put_object without IfNoneMatch
  /\ pc[w] = "rendered"
  /\ object' = [object EXCEPT ![target[w]] = render[w]]
  /\ Goto(w, "uploaded")
  /\ UNCHANGED <<jobVars, saleVars, resets, cleanupVars, boundVars>>

ReadyEarly_Mutant(w) ==  \* the sale is marked ready before its key is recorded
  /\ pc[w] = "rendered"
  /\ object[target[w]] \in {None, render[w]}
  /\ object' = [object EXCEPT ![target[w]] = render[w]]
  /\ pdfStatus' = [pdfStatus EXCEPT ![target[w]] = "ready"]
  /\ Goto(w, "uploaded")
  /\ UNCHANGED <<jobVars, row, index, resets, cleanupVars, boundVars>>

\* upload_pdf is create-only; when the key is taken it succeeds only if the
\* stored checksum is the one just computed.
Upload(w) ==
  LET s == target[w] IN
  /\ pc[w] = "rendered"
  /\ \/ /\ object[s] \in {None, render[w]}
        /\ object' = [object EXCEPT ![s] = render[w]]
        /\ Goto(w, "uploaded")
     \/ /\ object[s] \notin {None, render[w]}
        /\ Goto(w, "error")
        /\ UNCHANGED object
  /\ UNCHANGED <<jobVars, saleVars, resets, cleanupVars, boundVars>>

UploadFails_Mutant(w) ==  \* the storage error is logged and swallowed
  /\ pc[w] = "rendered"
  /\ Fault
  /\ Goto(w, "done")
  /\ UNCHANGED <<jobVars, saleVars, object, resets, cleanupVars>>

\* The storage call raises; the object may have been created all the same.
UploadFails(w) ==
  LET s == target[w] IN
  /\ pc[w] = "rendered"
  /\ Fault
  /\ \/ UNCHANGED object
     \/ object[s] = None /\ object' = [object EXCEPT ![s] = render[w]]
  /\ Goto(w, "error")
  /\ UNCHANGED <<jobVars, saleVars, resets, cleanupVars>>

Commit_Mutant(w) ==  \* the attempt that comes second removes "its" upload
  /\ pc[w] = "uploaded" /\ row[target[w]] = "present"
  /\ \/ /\ index[target[w]] = None
        /\ index' = [index EXCEPT ![target[w]] = render[w]]
        /\ pdfStatus' = [pdfStatus EXCEPT ![target[w]] = "ready"]
        /\ Goto(w, "done")
     \/ /\ index[target[w]] # None
        /\ Goto(w, "orphan")
        /\ UNCHANGED <<index, pdfStatus>>
  /\ UNCHANGED <<jobVars, row, object, resets, cleanupVars, boundVars>>

\* Second transaction of persist_invoice_pdf, with the sale row locked.
Commit(w) ==
  LET s == target[w] IN
  /\ pc[w] = "uploaded"
  /\ \/ /\ row[s] = "present" /\ index[s] = None
        /\ index' = [index EXCEPT ![s] = render[w]]
        /\ pdfStatus' = [pdfStatus EXCEPT ![s] = "ready"]
        /\ Goto(w, "done")
     \/ /\ row[s] = "present" /\ index[s] # None
        /\ Goto(w, "done")
        /\ UNCHANGED <<index, pdfStatus>>
     \/ /\ row[s] # "present"
        /\ Goto(w, "orphan")
        /\ UNCHANGED <<index, pdfStatus>>
  /\ UNCHANGED <<jobVars, row, object, resets, cleanupVars, boundVars>>

\* The sale was deleted meanwhile: persist_invoice_pdf deletes what it uploaded.
DeleteOrphan(w) ==
  /\ pc[w] = "orphan"
  /\ object' = [object EXCEPT ![target[w]] = None]
  /\ Goto(w, "done")
  /\ UNCHANGED <<jobVars, saleVars, resets, cleanupVars, boundVars>>

DeleteOrphanFails(w) ==
  /\ pc[w] = "orphan"
  /\ Fault
  /\ Goto(w, "error")
  /\ UNCHANGED <<jobVars, saleVars, object, resets, cleanupVars>>

\* _finish_invoice_job changes rows only while the job carries the attempt's
\* token.  Success leaves the sale row alone.
FinishReady(w) ==
  LET s == target[w] IN
  /\ pc[w] = "done"
  /\ End(w)
  /\ \/ /\ Owns(w)
        /\ status' = [status EXCEPT ![s] = "ready"]
        /\ lease' = [lease EXCEPT ![s] = "none"]
        /\ leaseToken' = [leaseToken EXCEPT ![s] = None]
        /\ UNCHANGED <<attempts, due>>
     \/ ~Owns(w) /\ UNCHANGED jobVars
  /\ UNCHANGED <<saleVars, object, resets, cleanupVars, boundVars>>

\* An error counts an attempt; the job's new status is copied to the sale.
Retry(s, outcome) ==
  /\ attempts' = [attempts EXCEPT ![s] = @ + 1]
  /\ status' = [status EXCEPT ![s] = outcome]
  /\ due' = [due EXCEPT ![s] = (outcome = "failed")]
  /\ lease' = [lease EXCEPT ![s] = "none"]
  /\ leaseToken' = [leaseToken EXCEPT ![s] = None]
  /\ pdfStatus' = [pdfStatus EXCEPT ![s] = outcome]

FinishError_Mutant(w) ==  \* one attempt too many
  /\ pc[w] = "error" /\ Owns(w)
  /\ End(w)
  /\ Retry(target[w],
           IF attempts[target[w]] + 1 > MaxAttempts THEN "failed" ELSE "pending")
  /\ UNCHANGED <<row, index, object, resets, cleanupVars, boundVars>>

FinishError(w) ==
  LET s == target[w] IN
  /\ pc[w] = "error"
  /\ End(w)
  /\ \/ /\ Owns(w)
        /\ Retry(s, IF attempts[s] + 1 >= MaxAttempts THEN "failed" ELSE "pending")
     \/ ~Owns(w) /\ UNCHANGED <<jobVars, pdfStatus>>
  /\ UNCHANGED <<row, index, object, resets, cleanupVars, boundVars>>

\* The worker process dies, or its database connection does: the attempt is
\* gone and its job row stays as it is.
Crash(w) ==
  /\ pc[w] # "idle"
  /\ Fault
  /\ End(w)
  /\ UNCHANGED <<jobVars, saleVars, object, resets, cleanupVars>>

\* Ten minutes pass after the claim.  They can pass under a running attempt:
\* a batch waits for two render slots, and storage calls take their time.
LeaseExpires(s) ==
  /\ lease[s] = "held"
  /\ lease' = [lease EXCEPT ![s] = "expired"]
  /\ \/ /\ \E w \in Workers : Runs(w, s)
        /\ overruns < MaxOverruns
        /\ overruns' = overruns + 1
     \/ /\ ~\E w \in Workers : Runs(w, s)
        /\ UNCHANGED overruns
  /\ UNCHANGED <<status, attempts, due, leaseToken, faults>>
  /\ UNCHANGED <<saleVars, object, attemptVars, resets, cleanupVars>>

BackoffElapses(s) ==
  /\ status[s] = "pending" /\ ~due[s]
  /\ due' = [due EXCEPT ![s] = TRUE]
  /\ UNCHANGED <<status, attempts, lease, leaseToken>>
  /\ UNCHANGED <<saleVars, object, attemptVars, resets, cleanupVars, boundVars>>

-----------------------------------------------------------------------------
(* GET /sales/{id}/invoice.  The handler reads the sale and the job without  *)
(* a lock and its writes are flushed when the request commits.               *)

RequestInvoice(s) ==
  /\ shop # "deleted"
  /\ row[s] = "present" /\ index[s] = None
  /\ status[s] = "failed"
  /\ resets[s] < MaxRequests
  /\ resets' = [resets EXCEPT ![s] = @ + 1]
  /\ UNCHANGED <<jobVars, saleVars, object, attemptVars, cleanupVars, boundVars>>

\* invoice_pdf_status is not written when the sale, read before the job, had
\* not failed yet.
ResetFailedJob(s) ==
  /\ resets[s] > 0
  /\ resets' = [resets EXCEPT ![s] = @ - 1]
  /\ \/ /\ row[s] = "present"
        /\ status' = [status EXCEPT ![s] = "pending"]
        /\ attempts' = [attempts EXCEPT ![s] = 0]
        /\ pdfStatus' \in {pdfStatus, [pdfStatus EXCEPT ![s] = "pending"]}
     \/ row[s] # "present" /\ UNCHANGED <<status, attempts, pdfStatus>>
  /\ UNCHANGED <<due, lease, leaseToken, row, index>>
  /\ UNCHANGED <<object, attemptVars, cleanupVars, boundVars>>

-----------------------------------------------------------------------------
(* The account deletion that owns the shop.  Its own lease is the subject of *)
(* another module: here one clean-up runs, and starts over after a failure.  *)

BeginDeletion ==
  /\ cleanup = "idle"
  /\ shop' = "inactive"
  /\ cleanup' = "listing"
  /\ UNCHANGED <<listed, undeleted>>
  /\ UNCHANGED <<jobVars, saleVars, object, attemptVars, resets, boundVars>>

IndexedSales == {s \in Sales : row[s] = "present" /\ index[s] # None}

ListKeys ==
  /\ cleanup = "listing"
  /\ cleanup' = IF IndexedSales = {} THEN "final" ELSE "deleting"
  /\ listed' = IndexedSales
  /\ undeleted' = IndexedSales
  /\ UNCHANGED <<jobVars, saleVars, object, attemptVars, resets, shop, boundVars>>

DeleteListed(s) ==
  /\ cleanup = "deleting"
  /\ s \in undeleted
  /\ object' = [object EXCEPT ![s] = None]
  /\ undeleted' = undeleted \ {s}
  /\ UNCHANGED <<shop, cleanup, listed>>
  /\ UNCHANGED <<jobVars, saleVars, attemptVars, resets, boundVars>>

ForgetKeys ==
  /\ cleanup = "deleting"
  /\ undeleted = {}
  /\ index' = [s \in Sales |-> IF s \in listed THEN None ELSE index[s]]
  /\ cleanup' = "listing"
  /\ UNCHANGED <<row, pdfStatus, shop, listed, undeleted>>
  /\ UNCHANGED <<jobVars, object, attemptVars, resets, boundVars>>

\* The final transaction reads the key set again; deleting the organization
\* cascades to the shop, its sales and their jobs.
DeleteOrganization ==
  /\ cleanup = "final"
  /\ \/ /\ IndexedSales # {}
        /\ cleanup' = "listing"
        /\ UNCHANGED <<shop, row, status, leaseToken, lease>>
     \/ /\ IndexedSales = {}
        /\ cleanup' = "done"
        /\ shop' = "deleted"
        /\ row' = [s \in Sales |-> "deleted"]
        /\ status' = [s \in Sales |-> "none"]
        /\ lease' = [s \in Sales |-> "none"]
        /\ leaseToken' = [s \in Sales |-> None]
  /\ UNCHANGED <<attempts, due, index, pdfStatus, listed, undeleted>>
  /\ UNCHANGED <<object, attemptVars, resets, boundVars>>

\* A storage error or a crash: the next claim of the deletion starts over.
CleanupFails ==
  /\ cleanup \in {"listing", "deleting", "final"}
  /\ Fault
  /\ cleanup' = "listing"
  /\ UNCHANGED <<shop, listed, undeleted>>
  /\ UNCHANGED <<jobVars, saleVars, object, attemptVars, resets>>

-----------------------------------------------------------------------------
WorkerStep(w) ==
  \/ Render(w) \/ Upload(w) \/ UploadFails(w) \/ Commit(w)
  \/ DeleteOrphan(w) \/ DeleteOrphanFails(w)
  \/ FinishReady(w) \/ FinishError(w) \/ Crash(w)

SaleStep(s) ==
  \/ CreateSale(s) \/ LeaseExpires(s) \/ BackoffElapses(s)
  \/ RequestInvoice(s) \/ ResetFailedJob(s) \/ DeleteListed(s)

Next ==
  \/ \E w \in Workers, s \in Sales, t \in Tokens : Claim(w, s, t)
  \/ \E w \in Workers : WorkerStep(w)
  \/ \E s \in Sales : SaleStep(s)
  \/ BeginDeletion \/ ListKeys \/ ForgetKeys \/ DeleteOrganization \/ CleanupFails

Spec == Init /\ [][Next]_vars

\* The worker loop polls forever, a coroutine runs on unless its process dies,
\* and time passes.  Requests, sales, deletions and faults need not happen.
Progress(w) ==
  \/ Render(w) \/ Upload(w) \/ Commit(w) \/ DeleteOrphan(w)
  \/ FinishReady(w) \/ FinishError(w)

Fairness ==
  /\ \A w \in Workers : WF_vars(Progress(w))
  /\ \A s \in Sales :
       /\ WF_vars(\E w \in Workers, t \in Tokens : Claim(w, s, t))
       /\ WF_vars(LeaseExpires(s))
       /\ WF_vars(BackoffElapses(s))

FairSpec == Spec /\ Fairness

-----------------------------------------------------------------------------
TypeOK ==
  /\ status \in [Sales -> {"none", "pending", "processing", "ready", "failed"}]
  /\ attempts \in [Sales -> 0..MaxAttempts]
  /\ due \in [Sales -> BOOLEAN]
  /\ lease \in [Sales -> {"none", "held", "expired"}]
  /\ leaseToken \in [Sales -> Tokens \cup {None}]
  /\ row \in [Sales -> {"new", "present", "deleted"}]
  /\ index \in [Sales -> Renders \cup {None}]
  /\ pdfStatus \in [Sales -> {"pending", "ready", "failed"}]
  /\ object \in [Sales -> Renders \cup {None}]
  /\ pc \in [Workers -> {"idle", "claimed", "rendered", "uploaded", "orphan",
                         "done", "error"}]
  /\ target \in [Workers -> Sales \cup {None}]
  /\ token \in [Workers -> Tokens \cup {None}]
  /\ render \in [Workers -> Renders \cup {None}]
  /\ resets \in [Sales -> 0..MaxRequests]
  /\ shop \in {"active", "inactive", "deleted"}
  /\ cleanup \in {"idle", "listing", "deleting", "final", "done"}
  /\ listed \subseteq Sales /\ undeleted \subseteq Sales
  /\ faults \in 0..MaxFaults /\ overruns \in 0..MaxOverruns

\* An indexed invoice is downloadable: while the shop is active, a sale row
\* with a key points at a stored object whose bytes have the row's checksum,
\* whatever attempts raced to upload it (read_pdf verifies this checksum).
IndexedInvoiceIsStored ==
  \A s \in Sales : shop = "active" /\ index[s] # None => object[s] = index[s]

\* A job reported ready has its PDF indexed: no interleaving of expired leases,
\* stale finishes and re-opened jobs makes a job ready without a key.
ReadyJobIsIndexed ==
  \A s \in Sales : shop = "active" /\ status[s] = "ready" => index[s] # None

\* Fencing: whatever was claimed twice, at most one running attempt may still
\* settle a job ("finalized only by the current lease owner").
OneOwner ==
  \A v, w \in Workers : target[v] = target[w] /\ Owns(v) /\ Owns(w) => v = w

\* Customers keep the document they were given: once a sale of an active shop
\* has a key, neither its bytes nor its key and checksum ever change.
IssuedInvoiceIsImmutable ==
  [][\A s \in Sales :
       shop' = "active" /\ index[s] # None =>
         object'[s] = object[s] /\ index'[s] = index[s]]_vars

\* Nothing is left processing: a claimed or pending job of an active shop is
\* eventually settled, even when the attempt that claimed it died (the expired
\* lease is claimed again).
JobEventuallySettles ==
  \A s \in Sales :
    status[s] \in {"pending", "processing"} ~>
      (status[s] \in {"ready", "failed"} \/ shop # "active")

\* What WhatsApp delivery relies on: as seen through the two columns it reads,
\* each sale behaves as SaleDocument says; a status of ready comes with the key
\* and a recorded key is only ever removed.
Document(s) == INSTANCE SaleDocument
  WITH keyed <- index[s] # None, pdf <- pdfStatus[s]

ImplementsSaleDocument ==
  /\ \A s \in Sales : Document(s)!Init
  /\ [][\A s \in Sales : [Document(s)!Next]_(Document(s)!vars)]_vars

\* docs/WHATSAPP_INVOICE_DELIVERY.md says the content route returns the stored
\* PDF; it refuses unless invoice_pdf_status is ready (routes.py invoice_content).
IndexedInvoiceIsServed ==
  \A s \in Sales :
    shop = "active" /\ status[s] = "ready" => pdfStatus[s] = "ready"

\* A retry after an interrupted upload is accepted: a job does not run out of
\* attempts on an invoice whose PDF is already stored.
StoredInvoiceIsNotFailed ==
  \A s \in Sales : status[s] = "failed" => object[s] = None

\* Account deletion leaves no invoice behind: when the organization is gone and
\* no attempt is running, no object of its sales is stored.
NoInvoiceSurvivesDeletion ==
  shop = "deleted" /\ (\A w \in Workers : pc[w] = "idle")
    => \A s \in Sales : object[s] = None
=============================================================================
