# Aurum POS: a TLA+ verification project

Aurum POS is a multi-tenant point of sale for jewellery shops: a FastAPI
service over PostgreSQL, one or more worker processes that poll the same
database, an object store for invoice PDFs, and three external services (Google
Play, WhatsApp, a mail service). This directory models the parts of it where
requests, workers, crashes and time interleave, and the layers that decide what a
row may be and what it costs. Paths below are relative to the
repository's root.

## 1. Inventory

| Component | State | Operations | Talks to |
|---|---|---|---|
| Checkout (`app/modules/sales/service.py`, `routes.py`) | `sales`, `sale_items`, `sale_idempotency`, the shop's `next_invoice_sequence` and `total_sales_amount` | `POST /sales` | inventory (row locks), invoice pipeline (creates its job) |
| Inventory (`app/modules/items`) | `items` (mode, quantity or weight, status), `item_history` | create, CSV import, update, bulk update, delete, clear, export | entitlement (capacity), checkout |
| Entitlement (`app/modules/subscriptions`) | `subscriptions`, `coupons` | resolve, enforce item, shop and seat limits, read-only mode | Play billing, every write |
| Invoice pipeline (`app/jobs/invoices.py`, `sales/storage.py`) | `invoice_jobs`, the sale's key, checksum and `invoice_pdf_status`, the object store | claim, render, upload, record, finish, download, re-open | checkout, deletion, WhatsApp |
| WhatsApp delivery (`app/jobs/whatsapp.py`, `app/modules/whatsapp`) | deliveries, delivery jobs, suppressions | queue, claim, send, finish, status and opt-out webhooks | invoice pipeline, provider |
| Account deletion (`app/jobs/account_deletions.py`, `auth/routes.py`) | `account_deletion_requests` | request, confirm, cancel, claim, clean up, delete | shops, Play, object store |
| Ownership transfer (`app/jobs/ownership_transfers.py`) | `organization_ownership_transfers` | request, claim, cancel renewal, hand over, retry | Play, memberships |
| Play billing (`app/modules/billing`, `app/worker.py`) | `play_subscriptions`, `billing_events` | submit purchase, notification, reconcile, acknowledge | Google Play, entitlement |
| E-mail outbox (`app/jobs/emails.py`) | `email_outbox` | enqueue, claim, send, finish | mail service |
| Sessions (`app/modules/auth`) | `auth_sessions`, `auth_tokens`, devices, rate limits | log in, refresh, revoke, reset, verify, register device | every request |
| Team (`app/modules/shops`) | organizations, shops, memberships, invitations | add shop, invite, accept, update, deactivate | entitlement, e-mail |
| Pricing (`items/pricing.py`, `items/tax.py`, `metal_rates`) | `metal_rates` | price a line, record a rate | checkout |
| Reports (`dashboard`, `changelog`, `items/export.py`) | none of their own | queries, append-only audit rows | all tables |
| Client (`frontend/`) | a stored idempotency key, tokens | user interface | the HTTP API |

How they interact: components share the database and never call each other
asynchronously. A request is one READ COMMITTED transaction (`core/database.py`)
and takes row locks or advisory locks. A worker claims rows with
`FOR UPDATE SKIP LOCKED`, commits the claim, does its external work with no
transaction open, and finishes in another transaction. Hence the hard
behaviour: leases that expire under a running attempt, crashes between a
storage call and the transaction that records it, values read before a lock
and used after it, multi-row locks taken in no order, limits counted while
others insert.

What makes each part correct:

- Checkout: a purchase is sold once; numbers are unique and gapless; nothing is
  sold that another request sold, archived or changed; totals equal the sales.
- Inventory and entitlement: weight is conserved; a gone row stays gone; the
  plan's limit holds.
- Invoice pipeline: one attempt settles a job; a recorded document is stored
  with its checksum and never changes; a job settles; deletion leaves nothing recorded.
- WhatsApp: at most one message per request, a status never goes backwards, an
  opted-out number is not written to.
- Deletion and transfer: at most one worker finishes one; a cancelled one has no
  effect; a crash does not leave one stuck.
- Billing: the newest reading of a purchase decides; a granted purchase is
  acknowledged; a purchase belongs to one organization.
- Sessions and team: a refresh token is used once; limits hold under races.

- Catalogue: whatever the validators let through the table takes; the dashboard
  values a row at the price it is sold for; a file that is exported can be imported
  again, within the importer's limits.
- Reports: snapshots and rows, sales and log, days and periods tell one story.

`PROJECT.json` lists the hazards line by line, with the properties that cover
each, or the counterexample that shows the code going wrong there.

## 2. Plan

Done:

1. `InvoicePipeline`, `Checkout`, with proofs.
2. `SaleDocument`, the abstract document of a sale that the pipeline implements,
   and `WhatsAppDelivery`, which takes it as its environment, with proofs.
3. `OrganizationTeam` (ownership transfer, seats, shops), `AccountDeletion`,
   `AuthSessions`, `EmailOutbox`, `PlayBilling`.
4. `ItemCatalogue` (validation, storage, prices, files) and `ShopReports` (what
   the dashboards say about rows that change meanwhile).
5. Proofs about `EmailOutbox` and `AccountDeletion`, whose workers are fenced by a
   token that a late one no longer has.
6. Proofs about `OrganizationTeam`, `AuthSessions` and `PlayBilling`, and the two
   limits that are counted: `ActiveItemsWithinLimit` and `MessagesAccounted`.
7. `InvoiceDelivery`, the deliveries with the pipeline itself as their document, and
   the proof that together they do nothing the deliveries alone do not allow for.
8. Proofs about `ItemCatalogue` and `ShopReports`. With them every safety property
   that a run checks is proved.

Not done:

9. An abstract `LeasedJob` that the pipeline, the deliveries and the outbox
   implement, stated once with its fencing property.
10. An abstract `StockLedger` implemented by `Checkout`.

## 3. Modules

### InvoicePipeline

One step is one database transaction, one storage call, or the end of an
attempt. `Workers` are the coroutine slots of all worker processes: the
coroutine that `process_invoice_jobs` starts for one claimed job.

| State | Code |
|---|---|
| `status`, `attempts`, `due`, `lease`, `leaseToken` | the `InvoiceJob` row; `due` is `next_attempt_at <= now`, `lease` is `lease_until` against now |
| `row`, `index`, `pdfStatus` | the `Sale` row; `index` is its checksum while it has an object key |
| `object` | what is stored under the sale's object key |
| `pc`, `target`, `token`, `render` | a running attempt |
| `resets` | `GET /sales/{id}/invoice` requests that read a failed job and have not committed |
| `shop`, `cleanup`, `listed`, `undeleted` | `Shop.is_active` and the deletion's clean-up of stored PDFs |

Actions follow the code's order: `Claim`, `Render`, `Upload` or `UploadFails`,
`Commit`, `DeleteOrphan`, then `FinishReady` or `FinishError`; `Crash` anywhere.
`LeaseExpires` and `BackoffElapses` are time. `RequestInvoice` and
`ResetFailedJob` are the two ends of a download request, which reads without a
lock. `BeginDeletion` to `DeleteOrganization` are the deletion's clean-up of the
shop, one at a time, any failure starting it over; `AccountDeletion` has the
deletion with its lease, and in turn one invoice to a shop.
A rendering is one of `Renders`, because the canvas embeds the time.

The route's branch for a sale without a job is not modelled: sale and job are
committed together, and the migration that added jobs created them for the
sales there were. A pool of five deletions at a time and batches are left out.

### Checkout

One step is one locking statement or the commit of one request's transaction;
a rollback leaves only freed locks behind.

| State | Code |
|---|---|
| `mode`, `itemStatus`, `stock`, `total`, `opening`, `sold` | item rows: quantity or `stock_weight`, `net_weight`, weight gone before an import, and the sum of the item's sale lines |
| `active`, `next`, `shopTotal` | the shop row |
| `sales`, `result` | sales and `sale_idempotency` |
| `op`, `pc`, `key`, `cart`, `edit`, `wants`, `waiting`, `seq` | a running request |
| `seenNext`, `seenTotal` | its copy of the shop, loaded by `get_shop_context` before any lock; the ORM does not refresh it when the row is locked later |
| `itemLock`, `shopLock` | row locks; the advisory lock on a key is `KeyFree` |

A checkout is `BeginSale`, `Lookup` (advisory lock, earlier result), `LockItem`
per line in any order, `NumberSale` (checks, shop lock, first free number from
the copy on) and `CommitSale`. Stock entry is `BeginEntry` or `BeginUpdate`,
`LockItem`, `Activate` when a record becomes active (shop lock and count), and
`CommitEntry` or `CommitUpdate`. `CommitDelete` and `CommitClear` archive.
`Rollback` ends any request at any point: an error, a timeout, a client gone,
a deadlock victim. Prices are left out: each sale adds 1 to the total, and a
missing rate or a total that no longer matches is a `Rollback`. The year and
prefix of an invoice number are constant.

### SaleDocument

What other components may rely on about one sale's document: `keyed` (the sale
has an object key) and `pdf` (`invoice_pdf_status`). `Record` is the commit of
`persist_invoice_pdf`, `Mark` the finish of a failed attempt or the re-opening of
a failed job, `Forget` the deletion. `InvoicePipeline` has an instance of it for
each sale (`Document(s)`), and `ImplementsSaleDocument` says it starts and steps
like each of them.

### WhatsAppDelivery

One step is one transaction, one call of the provider, or the end of an attempt.
All deliveries of an instance are of one sale and to one number, which is where
they meet: in the check for a delivery in progress and in the suppression.

| State | Code |
|---|---|
| `row`, `seen`, `latest` | the progress of a request, the sale's latest delivery by `created_at`, and what the request saw |
| `delivery` | `WhatsAppInvoiceDelivery.status`, the row the shop sees |
| `job`, `attempts`, `due`, `lease`, `leaseToken` | `WhatsAppDeliveryJob`, the row the worker claims |
| `pc`, `target`, `token`, `outcome` | a running attempt; `outcome` is how its send ended |
| `suppressed` | the number has a suppression that is not cleared |
| `messages`, `reported` | the provider: messages it took for a delivery, statuses it has reported |
| `keyed`, `pdf` | the environment `SaleDocument` |

`Ask` and `Queue` are the two ends of a request. An attempt is `Claim`, `Load`,
then `Defer` (no document yet), or `CheckSuppression`, `Send` or `SendFails`, and
`Finish`, with `Crash` anywhere. Reading, uploading and sending the document are
one step, since only the send has a lasting effect. `Callback` is a status
webhook: any status the provider has reported, as late and as often as it likes;
it leaves the lease alone, as the code does. `DeleteRows` is the cascade when the
shop is deleted. A repeated idempotency key changes nothing and is no step.

### InvoiceDelivery

The pipeline beside the deliveries of one of its sales (`TheSale`): an instance of
`WhatsAppDelivery` whose `keyed` is that the sale's `index` is set and whose `pdf` is
its `pdfStatus`. A step is the pipeline's or the deliveries', which change no column of
the sale. `DeliverySpec`: what the two do, the deliveries' own specification allows,
so what is proved of them with `SaleDocument` around them holds with the real
thing. `SentIsStored`: while the shop is active, a message is taken only when the key
is recorded and the recorded bytes are what is stored under it, although the attempt
read the row some steps before.
`InvoiceDelivery.cfg` has TLC check both on one sale, two attempts of the pipeline
and one of the sender; it is kept beside the runs since it takes about four minutes
(2,585,976 distinct states).

### OrganizationTeam

One organization. One step is one locking statement or commit, one call of
Google Play, or the death of the worker.

| State | Code |
|---|---|
| `owner`, `open`, `elsewhere` | `Organization.owner_user_id`, its shops, users who own another organization |
| `role`, `live`, `invitation` | `ShopMembership.role` and `.is_active`, open invitations |
| `plan` | the plan in force, free or Pro |
| `transfer`, `from`, `to`, `attempts`, `due` | `OrganizationOwnershipTransfer` |
| `wpc`, `loaded` | the worker's attempt; the membership it loaded before it locked it |
| `pc`, `call`, `room` | a request: its next step, what it asks and what it read before any lock, and what its grant counted |
| `orgLock`, `memberLock` | row locks |

A request begins with `get_shop_context` (`Begin`) and goes on to add a shop
(`GrantShop`, `CommitAddShop`), invite (`GrantSeat`, `CommitInvite`), change or
deactivate a member (`LockMember`, `GrantSeat`, `CommitUpdate`) or ask for a
transfer (`LockOrganization`, `LockTarget`, `CommitTransfer`). The handover is
`ClaimTransfer`, `CancelRenewal`, `CheckTransfer`, `LockRows`, `HandOver`, or
`WorkerFails`, with `WorkerDies` anywhere. `late` and `lapsed` are history: shops
added by a request whose copy of the owner, or of its own membership, was outdated
when it committed, and a plan that has lapsed.
MANAGER, CASHIER and STAFF are one role, since nothing here tells them apart.
Shops are not deactivated in this module; `AccountDeletion` does that.

### AuthSessions

One account. A step is the part of a transaction up to a lock or its commit;
hashing a password, which runs in a thread, lies between two steps.

| State | Code |
|---|---|
| `registered`, `verified`, `password` | `User`; `password` counts its changes, 0 for none |
| `token`, `purpose`, `recent` | `AuthToken`; a verification mail is younger than its cooldown |
| `session`, `device`, `rotation` | `AuthSession`; `rotation` counts replaced refresh tokens |
| `spent` | `google_nonces` |
| `op`, `pc`, `seen`, `tok`, `ses`, `cred`, `dev`, `doomed`, `consumed` | a running request: what it read, locked, and will revoke or consume |

Operations: register, resend, verify, log in, sign in or up with Google, join by
an invitation, refresh, ask for a reset, reset. `Logout`, `DisableDevice` and
`ConfirmDeletion` revoke sessions in one step; `RetireToken` and `RetireSession`
are expiry and retention. Locks are not variables: who holds a row follows from
how far each request is, and `MayReferToUser` is the foreign key's share lock.

### EmailOutbox

| State | Code |
|---|---|
| `status`, `attempts`, `claim`, `due`, `overdue`, `body` | the `EmailOutbox` row; `claim` is its token, `overdue` that `claimed_at` is older than the lease |
| `stage`, `held` | a worker's deliveries: how far, under which token |

`ClaimBatch`, then for each message of the batch, no more at once than the
semaphore lets through, `Load`, `Send` or `SendUnanswered`, `FinishEmail`. `Die`
ends a worker with all its deliveries. `Redact` and `Delete` are the retention
statements of `worker.py`. History variables count copies and their causes.
`OutboxInit`, `OutboxSpec`, `OutboxTypeOK` and the like are so named because one
module of proofs takes this module together with `AuthSessions`; for the same reason
ItemCatalogue has `CatalogueInit`, `CatalogueSpec`, `CatalogueTypeOK`.

### PlayBilling

One subscription, as Google has it (`google`, a version; `acknowledged`) and as
the tables have it (`applied`, `pending`, `ackDue`, `verifyDue`, `lease`, the
event of each notification). A request (`Submit`), a notification (`Receive`) or
a worker (`ClaimReconciliation`) reads Google (`Fetch`) with no transaction open,
and applies the reading in a transaction: `BeginApply` and `CommitApply`, or for
a worker `LockRow`, which checks the lease, and `WorkerApplies`. `Acknowledge`
follows outside, and is recorded in a transaction of its own. `BreakDeadlock` is
PostgreSQL: a request inserts or locks the subscription before its Play row, a
worker the other way round. `Die` is a process that ends, or a handler whose
call fails.

### AccountDeletion

One account, its organizations and shops, one invoice to a shop.

| State | Code |
|---|---|
| `user`, `pinned` | the user row; rows elsewhere that refer to it with ON DELETE RESTRICT |
| `owner`, `transfer`, `renewing` | organizations, a pending transfer, a Play subscription that renews |
| `shop`, `object`, `key`, `adding` | shops, the stored invoice and its recorded key, shops whose creation is under way |
| `render`, `sale` | an attempt at rendering: its step and the sale it is about |
| `request`, `consent`, `due`, `started`, `retry`, `lease` | `AccountDeletionRequest` |
| `pc`, `job`, `token`, `targets`, `listed`, `todo`, `at` | a worker: its step and what it listed when it began |

`Confirm` and `Cancel` are the owner's; a worker goes through `Claim`, `Begin`,
`ListOwned`, and for each shop `NextShop`, `CancelBilling`, `ReadKeys`, `Erase`,
`ForgetKeys`, to `Final`; any step may end in `Fail`, `CallFails` or `Die`, and
`MarkFailure` plans the next try. What overlaps: `BeginAddShop` and
`CommitAddShop`, `FoundOrganization`, `HandOver`, and attempts at rendering. Those go
as `persist_invoice_pdf` does: `ClaimInvoice` while the shop is active, `ReadSale`,
`Upload` with no transaction open, and `Record` in another transaction, which deletes
the PDF again when the sale is gone. `DropInvoice` ends an attempt anywhere, by a death
or a failing call or commit, and leaves behind what it stored. An attempt takes no
notice of what becomes of the shop meanwhile, so it may store and record an invoice
during the clean-up, between any two of its steps, or after the last. An upload that
finds another rendering there fails in the code and leaves everything as it was, which
is no step here. Jobs, their leases and the checksum are InvoicePipeline's.

### ItemCatalogue

The fields of a row, in one transaction at a time; Checkout has the same
operations interleaved, with the fields that matter there. `shop` maps a barcode
to its row. `Create`, `Update`, `Import` and `Sell` go through what the code goes
through: `Normalize` and `Valid` (the forms), `Written` (the merge of an edit and
the group of fields it drags along), `Columns` (rounding half up to the column's
quantum) and `Fits` (the table's CHECK constraints). An `outcome` of `refused` is
a message to the user, `rejected` is the database's and a server error. What
`pricing.py` asks for a row before tax is `Suggested`, the dashboard's SQL for the same
row `Valuation`. `Form` and
`Partial` say which fields a form and an edit carry, and `Over` puts one over the other.

A file goes through `Line` and `Export`, `ItemPayload`, `Candidates` and `Parses`, and
`Accepted` and `Added`. `Parses` refuses a document over 5 MiB and one with more than
`ImportRows` lines, whatever their status, as `parse_inventory_csv` does; the size is an
independent choice (`large`), so a file of any length may be too large. The forms keep
texts as they are typed, so `Texts` and `Metals` have blanks alone, blanks around a
word, capitals, a formula and a quote; `Strip`, `Unquote` and `Lower` are what the
reader does to them. `name` stands for the columns of text that must not be empty, but
the metal; in `notes` blanks alone come back as no text. Barcodes are numbers: that blanks around one are lost too, and that such a barcode may then be
taken, is not modelled. Nor are an edit's explicit nulls and the width of the column of
`quantity`.

### ShopReports

A transaction of a clerk has three times: when it began (`txn[c].at`, which is what
now() stamps on a sale), when it wrote a row under its lock (`when`, which a snapshot
carries), and when it commits. `Write` is the part under locks, `Publish` and
`PublishRate` what becomes visible: `NewSnapshots`, `NewSale` and `NewEntries` are the
rows that a commit adds. The reports are operators over the tables: `AsOf`, `RowsAt`,
`CurrentRows` and `Worth` (the dashboard's two ways to the same stock), `SalesBy`,
`Period`, `DaySales`, `MaterialSales`, `BestSellers`, `Today`, `HourSales`,
`SoldHistory`, `AuditTrail`. The analytics page leaves sales out, and so do they:
`DaysShown` are the days between the request's dates in the offset these carry (`Zones`;
both dates carry the same), while `DaySales` is by the day in the time zone of the
database's session (`Session`); `MaterialsShown` keeps those of `Analysed`;
`BestSellers` keeps `TopLimit` items, in the order of what they sold for and then of
name and SKU (`Place`, which the model fixes). An item's metal is fixed too, where the
code has the sale line's. The page's filter by metal is not modelled. Two changes of one
row, or of one metal's rate, are at least an hour apart, and an hour is all the clock
tells (`Later`): the code orders snapshots of one instant by their identifiers. A price
is a weight or a number times a rate: how a price comes about is ItemCatalogue's.

## 4. Runs, bounds, results

| Run | Instance | Shows |
|---|---|---|
| `invoice_pipeline` | 1 sale, 2 attempts, 3 tokens, 2 renderings, 2 attempts allowed, 2 downloads, 2 faults, 1 overrun | `TypeOK`, `IndexedInvoiceIsStored`, `ReadyJobIsIndexed`, `OneOwner`, `ImplementsSaleDocument` and, with fairness, `JobEventuallySettles` hold |
| `checkout` | 2 items, 2 concurrent requests of 3 in all, 2 keys, 3 carts, 7 entries and edits, stock up to 2, 1 active record allowed | `TypeOK`, `WeightLedger`, `SoldOnce`, `CommitCannotCollide`, `InvoiceNumbersGapless`, `ActiveItemsWithinLimit` and, with fairness, `EveryRequestEnds` hold |
| `checkout_total` | 2 requests | the sales total loses an update (section 6) |
| `whatsapp` | 1 delivery, 2 attempts, 2 tokens, 3 attempts allowed, 1 crash, 1 overrun | `TypeOK`, `WaitingHasJob`, `MessagesAccounted`, `UnknownIsNotRetried` and, with fairness, `DeliveryEventuallySettles` hold |
| `organization_team` | 3 users, 2 shops, 2 concurrent requests, 1 invitation, 2 attempts, 1 death; limits 1 or 2 shops, 2 or 3 people | `SeatsAndShops`, `Ownership` and, with fairness, `Settles` hold |
| `auth_sessions` | 2 concurrent requests of 4 in all, 2 sessions, 2 tokens, 1 device, 1 nonce | `SecretsAreSpent`, `MailsPaced` and, with fairness, `NobodyWaits` hold |
| `email_outbox` | 2 messages, 2 workers, batches of 2, one delivery at a time, 2 attempts, 2 faults | `OutcomesAreTrue`, `CopiesExplained` and, with fairness, `MessagesSettle` hold |
| `play_billing` | 1 handler, 2 workers, 2 leases, 1 change at Google, 1 purchase, 1 fault | `AcknowledgementPlanned`, `LateWorkerWritesNothing` and, with fairness, `PurchaseSettles` hold |
| `account_deletion` | 1 request, 2 organizations, 3 shops, 2 workers, 1 attempt at rendering at a time, 1 fault of a worker or an attempt | `NothingIsLeft`, `CancelledTouchesNothing` and, with fairness, `AccountGoes` hold |
| `deletion_kept` | 1 worker, no fault | a confirmed deletion is never executed (section 6) |
| `item_catalogue` | 3 barcodes, one of them edited, 2 active items allowed; forms that differ from six kinds of item in any two fields, edits of one field or of two that decide what the item is or holds, 6 files of up to 3 lines where 2 are allowed, each small enough or too large | `RowsAreSound`, `OnlyOddNumbersFail`, `ValuationMatchesPrice`, `ExportImportsBack` hold |
| `shop_reports` | 2 clerks, a counted and a weighed item, 3 hours, days of 2 hours, India 1 hour ahead, offsets of -1, 0 and 1 hour, 1 of the 2 materials analysed, 1 best seller listed | `HistoryIsCurrent`, `CountedOnce`, `TotalsAddUp` hold |

Properties of the seven later modules come in named parts, and a run checks the
conjunction that belongs together: `SeatsAndShops` is `TypeOK`, `GrantStillFits`
and `WithinPlan`; `Ownership` is `OwnerRunsEveryShop` and `OwnersOwnOne`;
`Settles` is `TransferSettles` and `RequestsEnd`; `SecretsAreSpent` is `TypeOK`,
`RefreshTokenTradedOnce`, `ResetLinkUsedOnce`, `CredentialUsedOnce` and
`ResetSignsOut`; `MailsPaced` is `OneOpenReset` and `VerificationsPaced`;
`NobodyWaits` is `OnlyResetsDeadlock` and `RequestsEnd`; `OutcomesAreTrue` is
`OutboxTypeOK`, `SentWasTaken`, `FailedWasRefused` and `NoBlankMail`;
`AcknowledgementPlanned` is `TypeOK` and `AcknowledgementNotForgotten`;
`PurchaseSettles` is `RecordConverges` and `PurchaseAcknowledged`;
`NothingIsLeft` is `TypeOK`, `NothingLeftInStorage`, `BillingStops` and
`NoneOrphaned`; `RowsAreSound` is `CatalogueTypeOK` and `QuantityTellsWeight`. Definitions
ending in `_Mutant` are plausible bugs that these properties reject; several parts
of a conjunction have one of their own beside the one `PROJECT.json` lists.

Exceptions a property states are what the code does and not what one would wish: a shop
that a handover overtook keeps the old owner (`late`), and it brings the old owner back
even when the seat was given away (`WithinPlan`), an owner may come to own a second
organization (`OwnersOwnOne`), a transfer whose worker dies stays `processing`
(`TransferSettles`), a sign-in that a reset overlaps survives it (`ResetSignsOut`), a
deletion leaves in storage the invoice of a shop added during the clean-up, one whose
attempt ended between storing and recording it, and one stored again after it was erased
and before its key was cleared (`NothingLeftInStorage`; for the second see also
`InvoiceDeletion.cfg` in section 6), a file over the importer's limits or with a blank
text is refused, and texts come back without blanks, quotes and capitals
(`ExportImportsBack`), days, materials and best sellers come to the takings only with
what the page leaves out (`TotalsAddUp`), a number finer than its column can leave a
weighed row marked sold with dust in it (`QuantityTellsWeight`).

Why the bounds are enough. InvoicePipeline: jobs of different sales share nothing but
the slots, so one sale and two attempts contain every race of two owners, and the third
token lets an overrun attempt be followed by two more claims; two faults cover a failure
in each of two attempts, which reaches the failed status. Checkout: two requests hold
and await each other's locks and a third arrival sees what they left behind; carts mix
both stock modes, and `MCEntries` includes an edit to exactly what is gone and one that
switches mode. WhatsAppDelivery: deliveries share only the slots, the suppression and
the request's check; one crash and one overrun are each a duplicate, and three attempts
allowed are what it takes for a late failure to find an unknown job it could still have
re-opened. OrganizationTeam: three people fill every seat limit of the instance and make
two administrators beside an owner; two requests and the worker are all who can wait for
each other, and two shops let a membership be lost in one and kept in another. It takes
three requests and a handover to exceed the seats, more than the run has: that case was
met in the proof, and `TeamSeats.cfg` shows it. AuthSessions: a session or token is
opened, used by one request and revoked by another with a third arrival to see it.
EmailOutbox: two messages make a batch wait behind the semaphore until its lease runs
out. PlayBilling: two readings, one old, and a third task that has lost its lease.
AccountDeletion: one organization with two shops, so that one is added during the
clean-up, and one that is founded during it; the first shop and the one added have a
sale each (`Selling`), one attempt races the worker at every step, and
`DeletionOverlap.cfg` has one worker beside two attempts with two faults. Without any
one of the three exceptions TLC refutes `NothingLeftInStorage`. ItemCatalogue:
validators and constraints look at no more than two fields that a form may get wrong at
once, beside the kind of item; in thirds of a quantum a number rounds down, up, or to
nothing; two lines are enough to be at the importer's limit and three to be over it.
ShopReports: three hours hold a whole day, a boundary of it in each calendar, and a
transaction that spans either; an hour's offset to either side makes a sale of no day
shown, silver is not analysed, and of two items sold one is listed. For every larger
instance the safety properties are proved (section 5).

Deadlock checking is off: a shop that is closed, a job that is settled, a bound
on arrivals that is used up are ordinary ends. Symmetry is used only in runs
without liveness.

Fairness. Everywhere: weak fairness of a coroutine's own steps (it runs unless
its process dies, which is an action of its own), of claiming (`run_forever`
polls without end) and of time; nothing is assumed of requests arriving, users,
Google, crashes or faults. In `Checkout`, `OrganizationTeam` and `AuthSessions` also of the
rollback of a request that its own checks refuse or that is part of a lock cycle
(PostgreSQL's deadlock detection); no other request need be rolled back.
`PlayBilling` needs strong fairness of `CommitApply` and `WorkerApplies`, since the
lock they wait for is taken again and again by others: PostgreSQL grants a row
lock in the order of its queue. Notifications are delivered until answered, which
is Pub/Sub's contract. `DeliveryEventuallySettles` has a premise, that the
document has come or failed for good: the pipeline can leave it pending for ever
(`InvoiceServed.cfg`), and then a delivery is deferred for ever.

## 5. Proofs

Eight modules of proofs show for all values of the constants that satisfy the named
assumption of the module they are about (`ConstantsAssumption`, `OutboxAssumption`,
`CatalogueAssumption`):

| Module | Proved |
|---|---|
| `InvoicePipelineProofs` | `TypeOK`, `OneOwner`, `IndexedInvoiceIsStored`, `ReadyJobIsIndexed`, the refinement `ImplementsSaleDocument`, and that a recorded invoice never changes while its shop is active (`IssuedInvoiceIsImmutable`); of `InvoiceDelivery`, the refinement `DeliverySpec` and `SentIsStored` |
| `ItemProofs` | of `Checkout`, `TypeOK`, `WeightLedger`, `SoldOnce`, `CommitCannotCollide`, `InvoiceNumbersGapless`, `ActiveItemsWithinLimit`, and that a sold or archived row never changes again (`GoneStaysGone`); of `ItemCatalogue`, `RowsAreSound`, `OnlyOddNumbersFail`, `ValuationMatchesPrice`, `ExportImportsBack` |
| `WhatsAppDeliveryProofs` | `TypeOK`, `WaitingHasJob`, `UnknownIsNotRetried`, `MessagesAccounted` |
| `OrganizationTeamProofs` | `SeatsAndShops`, `Ownership` |
| `SessionsAndMailProofs` | of `AuthSessions`, `SecretsAreSpent`, `MailsPaced`, and of `NobodyWaits` the invariant part, `OnlyResetsDeadlock`; of `EmailOutbox`, `OutcomesAreTrue`, `CopiesExplained` |
| `PlayBillingProofs` | `AcknowledgementPlanned`, `LateWorkerWritesNothing` |
| `AccountDeletionProofs` | `CancelledTouchesNothing`, `NothingIsLeft` |
| `ShopReportsProofs` | `HistoryIsCurrent`, `CountedOnce`, `TotalsAddUp` |

Those are all the safety properties of the runs. Beyond the types and order of the
constants, the assumptions say that sets which are counted are finite: `Items`, `Users`,
`Shops`, `Barcodes`, the lines of a file, and the `Workers` of the outbox and of the
deliveries; and that the order of best sellers is one (`Place`). In each module the invariant is a conjunction of named parts, with a lemma
for each part that every step preserves it, given the others; TLC checked each invariant
on the run's instance before it was proved.

InvoicePipeline. The properties are not inductive alone. The invariant adds
what a running attempt carries (`AttemptOK`), that a job that may still be
settled has an attempt left (`BudgetOK`), that no two attempts share a token
(`TokensOK`), how the clean-up and the shop move together
(`ShopOK`), and that an attempt past its upload has its rendering stored while
the shop is active (`StoreOK`). `OneOwner` follows from distinct tokens,
`IndexedInvoiceIsStored` from the create-only upload, and immutability is a
consequence of both for every step. `Refinement` is proved by showing that each
action is `Record`, `Mark`, `Forget` or a stutter of every sale's document.

InvoiceDelivery. A step of the pipeline is, by that refinement, a step of the
environment that the deliveries' specification has (`DeliveryStep`), and a step of
the deliveries leaves the document alone: so `DeliverySpec`. For `SentIsStored` the
invariant adds `SenderOK`: while the shop is active, an attempt that found a key and
has not yet sent still has one, because only the deletion forgets keys; that the
bytes are there is `IndexedInvoiceIsStored`.

WhatsAppDelivery. The first invariant adds that a job with a lease or that is open has
an attempt left (`BudgetOK`) and that rows come and go together and an unknown
job has no lease (`JobOK`). The last is what makes unknown final: a late attempt
still holds its token, but the row no longer does, and a callback only writes
statuses that cannot be claimed.

`MessagesAccounted` counts. `Risk` is the set of attempts whose message a fault must
pay for: those that lost the job and may still send, and one that runs on after its
lease; `Done` is the attempt whose outcome is about to be counted. Messages taken and
attempts at risk together never exceed the attempts counted, the faults and `Done`
(`Paid`). A takeover moves the old attempt out of `Done` or within `Risk`, a send
moves one into `Done` or out of `Risk`, and only a death or an outlived lease adds a
cause. It needs that no two attempts carry the same token (`TokensDiffer`) and that
a pending job has none (`UntouchedOK`).

Checkout. The invariant is the conjunction of what a request knows (`TypeOK`
and the shape of its payload), who holds the locks (a row is held by the open
request that locked it; a numbered or counted request holds the shop), the keys
(at most one request is past the lookup of a key, and while it is the key
has no result), the numbers (those in use are 1 to `next - 1`, every copy is at
most `next`, and a numbered request has exactly `next`) and the ledger. The limit on
active records holds because what a request has counted still fits when it writes
(`CapacityOK`): it has the shop's lock, so nobody else has counted; sales, archiving
and edits that count nothing leave no more active records; and the row of an edit is
locked, so that it still asks for what it asked for (`CountedStays`).

ItemCatalogue. `OnlyOddNumbersFail` is a chain through what a form goes through:
`Normalize` yields a form (`NormalizeType`); what `Valid` accepts of it satisfies the
table's CHECK constraints as long as its numbers have no more digits than their columns
(`ValidIsSound`, `SoundFits`); and of such numbers normalization makes none that has
more (`NormalizeExact`). An edit is the hard case, since what `Valid` sees is the row
with the edit over it, and what is written is only part of that: the fields that are not
written are those that normalization leaves as they are in the row (`UnwrittenStay`), so
the row that results is one that was accepted as a whole (`EditedRow`). An import is the
same for each line at once, with one accepted line behind each code it takes
(`ImportedLines`). The invariant (`CatalogueInv`) adds to the properties what a row is
(`ShopType`) and that a weighed row in stock is one piece (`WeighedIsOne`).
`ValuationMatchesPrice` compares two ways to round one product: the SQL keeps it exact
(`ValuationIsExact`), the price rounds it once (`SuggestedIsRounded`), and multiplying
by the pieces makes the gap at most half a unit for each (`PriceGap`).
`ExportImportsBack`: the line of a row reads back as a form that normalization leaves
alone and, if more than blanks is left of its texts (`TextsRead`), `Valid` accepts
(`ReadBackNormal`, `ReadBackValid`), from which the row is made again (`RowRestored`),
and the place of a row in the file is its rank among the codes, which is a bijection
(`PlaceIsRank`).

EmailOutbox. What a row says rests on fencing: a claim number is held by at most one
delivery, and only a row being processed has one (`TokensOK`). `CopiesOK` counts
copies before they are made: the copies taken, with those that deliveries under an
old number may still send (`Late`), exceed the answers lost and the leases taken
over by one at most, and by none while the row is open and its present delivery
has not succeeded. A reclaim makes one delivery late and adds one cause; a late
copy takes its delivery out of the count.

OrganizationTeam. Two locks carry the proof. `OrgLockOK` says who has the
organization's: a request that was granted a shop or a seat or asks for a transfer,
and while the worker hands over, nobody (`HandoverOK`). So what was counted for a
grant stands until it is written (`GrantsOK`), although memberships may be lost and
the plan may change in between; and the target of a handover has its seat
beforehand (`TargetOK`). A membership's lock keeps an update's row an ordinary one
(`UpdatesOK`), so that no update makes or unmakes an owner. What no lock protects is
a request's own copies: `add_shop` compares the owner on a copy. The proof of
`WithinPlan` failed at its commit, and the reason is real: a shop added after a
handover makes the old owner a member again, even if the new owner has deactivated
them and given the seat to another. `WithinPlan` allows a person more for each such
shop, and `TeamSeats.cfg` lets TLC find the case. That the owner of a second
organization has an inactive membership here (`ElsewhereOK`) follows from the check
of the target and from what `FoundOrganization` requires.

AuthSessions. Locks are not variables, so the first part is that no two requests hold
the same one (`LocksOK`), from what each request has at each step (`ShapesOK`). A
token that a request has locked is open (`HeldTokensOK`) and an open one was never
used (`UsesOK`): hence each works once. Whoever makes a reset link holds the user and
has every open one among those it will consume (`ResetsOK`): hence only the last
works. A refresh compares the token after it has the session, which is live with
exactly the number of replacements presented (`RefreshOK`). While a reset signs out,
every live session is one it found or one that crossed it (`SignOutOK`).
`OnlyResetsDeadlock` follows from the shapes: in a cycle each waits for a lock another
holds, and only a reset, which has its token and wants the user, and a request for
another link, which has the user and wants the tokens, can both hold and wait.

PlayBilling. Google never takes an acknowledgement back, so as long as it waits for
one every reading in flight says so (`AcksOK`), whoever took it and however late it
is applied; hence whatever is written plans the acknowledgement (`PendingOK`).
`LateWorkerWritesNothing` needs that a worker in the row's transaction has the lease
(`RowLockOK`), that tokens are held by one worker (`TokensOK`), and that the holder's
reading is not older than what the last worker wrote (`ReadingsOK`).

AccountDeletion. The last transaction looks at the shops it had listed; that this is
enough is what the invariant says. A list has every shop of its organizations but those
added since (`ListedOK`); once a shop is at hand the subscription of its organization is
cancelled or about to be (`BilledOK`), and each organization listed has a shop
(`OrgsOK`), so an empty to-do list means that all are cancelled; an invoice in storage
has its key in the row, or an attempt that is still to record it, or is one that was
left behind (`KeysOK`), which the erasure and the clearing of a key, an upload in
between and the end of an attempt each have to keep; when the rows go the keys listed
are gone, and shops that were not listed are late. A request that was begun is past
cancelling (`StartedOK`).

ShopReports. The reports are sums, and the library defines a sum over a finite set by a
recursion. The theorems of the library that would do induction over a set cannot be
applied here, because they take a predicate as a parameter, so each law of sums is
proved from a least counterexample: strict subsets of a finite set are well-founded,
and a smallest subset for which the law fails has an element whose removal leaves one
for which it holds (`Smallest`). From the definition come the sum with one element
added or removed (`SumAdd`, `SumRemove`), of a union, of sums, over renamed elements
(`SumRename`), in parts (`SumParts`) and in either order (`SumSwap`); a page that adds up
is an instance of one of these. The invariant says that the last snapshot of a row is
the row (`HistoryOK`), that a transaction which has written but not committed wrote
from the rows as they still are and later than all their snapshots (`WroteOK`, from
the locks: `LocksOK`), and that the lines of sales match snapshots and log entries one for
one (`LinesOK`, `LogOK`). `CountedOnce` needs the second of these at the commit: a
snapshot enters the history behind those of its item and differs from the last of
them by what was sold. `TotalsAddUp` needs that hours make days and days periods
(`Days`, `HoursOfTheDay`, `TwoPeriods`), which is division by `DayLength` after the
shift by an offset: division keeps the order of moments, so the day of a sale in the
request's offset is among those shown, and the day it counts for, in the session's, may
not be. Materials and best sellers are parts of the sum over all items (`ItemsOver`,
`AllItems`). That nothing left out sold for more than a best seller is an argument
about ranks (`SellersLead`): what is ahead of such an item would be ahead of the best
seller too, and a subset has no more elements.

Only model-checked: liveness, since fairness and ENABLED are beyond the prover
(`JobEventuallySettles`, `EveryRequestEnds`, `DeliveryEventuallySettles`, `Settles`,
`MessagesSettle`, `PurchaseSettles`, `AccountGoes`, and the liveness part of
`NobodyWaits`).

## 6. Where the code and the documentation differ

Two runs are there to show a difference and are listed as findings:

- `checkout_total`: `total_sales_amount` is computed from a copy of the shop read
  before the lock, so concurrent checkouts lose an amount.
- `deletion_kept`: the last transaction deletes the user, but a transfer asked for or
  received, or a WhatsApp consent given, in an organization that is not theirs
  refers to the user with ON DELETE RESTRICT. The transaction fails on every try, after everything
  outside the database has been removed; the confirmed deletion is never executed.

Two more configurations are kept beside the runs and pass: `InvoiceDelivery.cfg` (section
3) and `DeletionOverlap.cfg` (section 4), the safety of a deletion with two attempts and
two faults (1,626,404 distinct states). Ten more have each one property that TLC
refutes, in seconds or (`TeamSeats.cfg`) in a minute or two (`tlc -config X.cfg MCModule`):

| Configuration | Module, property | What TLC shows |
|---|---|---|
| `InvoiceServed.cfg` | `MCInvoicePipeline`, `IndexedInvoiceIsServed` | the error of an attempt whose lease had expired, but whose job nobody had yet claimed again, marks the sale pending after it was indexed; the job becomes ready but the content route answers 409 |
| `InvoiceRetry.cfg` | `MCInvoicePipeline`, `StoredInvoiceIsNotFailed` | renderings differ between attempts, so the retry of an interrupted upload is refused by the create-only store until the job fails |
| `InvoiceDeletion.cfg` | `MCInvoicePipeline`, `NoInvoiceSurvivesDeletion` | an object uploaded but never recorded outlives the organization; clean-up only knows recorded keys |
| `WhatsAppOptOut.cfg` | `MCWhatsAppDelivery`, `SuppressedIsNotSent` | the suppression is read before the document is read, uploaded and sent, and not again; an opt-out in between does not stop the message |
| `WhatsAppCallback.cfg` | `MCWhatsAppDelivery`, `ConfirmedIsKept` | the worker's own outcome overwrites a status that a callback recorded first, even back to pending, and then the invoice is sent again |
| `WhatsAppRequests.cfg` | `MCWhatsAppDelivery`, `OneOpenDelivery` | the check for a delivery in progress takes no lock, so two overlapping requests queue two |
| `TeamOwner.cfg` | `MCOrganizationTeam`, `OwnerMembershipIsActive` | docs/PERMISSIONS.md: "An Owner membership cannot be edited or deactivated." The handover sets `is_active` on a membership it loaded before locking it; a deactivation in between is not undone, and the owner's membership is inactive |
| `TeamSeats.cfg` | `MCOrganizationTeam`, `SeatsWithinPlan` | README.md:12: "up to 3 shops and 10 distinct organization seats". `add_shop` passes its check on a copy of the owner; a handover, a deactivation of the old owner and an invitation into the free seat commit; then the new shop makes the old owner a member again, one more than the plan's seats |
| `AuditLines.cfg` | `MCShopReports`, `LinesMakeTheTotal` | `_price_from_payload` shows a counted line at the price of one piece, under a sale's total that has all of them |
| `ReportsLater.cfg` | `MCShopReports`, `PastReportsStand` | .ai/ARCHITECTURE.md:81: snapshots value the past "without requiring later inventory state", but the sold count of a past day takes a weighed item's status from the current row, so it grows when the item is sold out later |

Smaller observations, written into the models as the code has them:

- the snapshot of an archived weighed item keeps its weight and goes on being
  valued on the analytics page (`HistoryIsCurrent` has the term);
- a sold-out weighed item with a fixed making charge is still worth that charge
  in the stock's value: the SQL adds it per row (`ValuationMatchesPrice` speaks of rows in
  stock);
- a text that already begins with `'=` loses its quote on import, every text the blanks
  around it and the metal its capitals; a row in stock whose name or metal is all
  blanks, which the forms accept, makes the whole export one the importer refuses
  (`ExportImportsBack`);
- an export is written whatever its size, and the importer refuses more than 5,000 rows,
  sold ones included, or 5 MiB (`ExportImportsBack`);
- the overview shows the days of the request's offset and fills them with sales by
  days of the database session's time zone, so where these differ sales of the period
  are on no day shown; a cashier's pages have days in India (`TotalsAddUp`);
- materials other than gold, silver, platinum and stone, which the forms accept, are in
  the takings of the analytics page but in none of its materials (`TotalsAddUp`);
- a rendering that ends between storing a PDF and recording it, or stores one between
  the deletion's erasure and the clearing of the key, leaves it behind
  (`NothingLeftInStorage`);
- a checkout admitted before its shop was deactivated still sells;
- the client replaces its stored idempotency key when the cart changes after an
  ambiguous failure (`frontend/src/utils/checkout.ts`), which to the server is a
  new purchase;
- accepting an invitation to a shop where one has an inactive membership uses up the
  invitation and leaves the membership inactive.

## 7. Not modelled

For good, since they have no state of their own or nothing a property tells
apart: the layout of PDFs and labels, the wording of messages, the user
interface, schema and deployment files, the command line, listing, paging and
filters, the names of audit events other than sales.

So far: the rate limiter and the limits of the device list; coupons, and the
choice among several subscriptions of one organization (the plan in force is what
`OrganizationTeam` has); the WhatsApp template's state and the capability check that
precedes a request; the signature of a Pub/Sub message and the price offers of
Play; the retention of tables other than e-mails, tokens and sessions; the size of
batches where only one row matters. Of the outside services, everything but taking
a call, failing, losing the answer and reporting a status.

The tax that `tax.py` adds to a price: the counter's quote and a line of a sale call the
same function for it. Bulk label printing and the search in stock read rows and write
none.
