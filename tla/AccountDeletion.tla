-------------------------- MODULE AccountDeletion --------------------------
(***************************************************************************)
(* Deleting one account (app/modules/auth, app/jobs/account_deletions.py): *)
(* a request is confirmed by e-mail, may be cancelled for seven days, and  *)
(* is then carried out by a worker that deactivates the owned shops,       *)
(* cancels their subscription at Google Play, erases the invoices from     *)
(* storage and at last deletes the rows.  Everything outside the database  *)
(* is done between transactions, under a lease, and again after a failure. *)
(*                                                                         *)
(* Meanwhile invoices are rendered, requests that were let in before go    *)
(* on, and an ownership transfer may hand the organization over.           *)
(*                                                                         *)
(* Definitions whose name ends in _Mutant are plausible bugs of the one    *)
(* that follows them; the runs' properties are shown to reject them.       *)
(***************************************************************************)
EXTENDS Naturals, FiniteSets

CONSTANTS
  Requests,   \* deletion requests of the account
  Orgs,       \* organizations the account may own
  Shops,      \* shops, each a pair of its organization and a number
  Selling,    \* the shops that have a sale, one each
  Workers,
  Renderers,  \* attempts at rendering an invoice that may be under way at once
  None,       \* Python's None
  MaxFaults   \* bound: deaths, leases overrun, failing calls, attempts cut short

ASSUME ConstantsAssumption ==
  /\ Shops # {} /\ Shops \subseteq Orgs \X Nat
  /\ \A o \in Orgs : \E s \in Shops : s[1] = o
  /\ Selling \subseteq Shops
  /\ None \notin Requests \cup Shops
  /\ MaxFaults \in Nat

ShopsOf(o) == {s \in Shops : s[1] = o}

VARIABLES
  \* User: the row is there; rows of others that refer to it and must not
  \* lose it (a transfer asked for or received, a consent confirmed)
  user, pinned,
  \* Organization: owner, a transfer to another member is pending, its Play
  \* subscription renews
  owner, transfer, renewing,
  \* Shop: state; the invoice of its sale in storage, and s3_object_key is set.
  shop, object, key,
  \* attempts at rendering, whose jobs and leases are InvoicePipeline's: step, and
  \* the sale, named by its shop
  render, sale,
  \* shops whose creation was let in and is not committed
  adding,
  \* AccountDeletionRequest: state, delete_owned_shops, execute_after has
  \* come, external_cleanup_started_at is set, cleanup_next_attempt_at has
  \* come, cleanup_started_at (none, within the lease, older)
  request, consent, due, started, retry, lease,
  \* workers: step, request, whether cleanup_lease_token is still theirs,
  \* organizations and shops listed, shops left to clean, the one at hand
  pc, job, token, targets, listed, todo, at,
  \* history: requests that touched anything outside their row, shops created
  \* after a worker had listed their organization, shops whose invoice was stored
  \* without a key in the row to tell of it
  touched, late, stray,
  faults

userVars == <<user, pinned>>
orgVars == <<owner, transfer, renewing>>
shopVars == <<shop, object, key, adding>>
requestVars == <<request, consent, due, started, retry, lease>>
renderVars == <<render, sale, stray>>
workerVars == <<pc, job, token, targets, listed, todo, at>>
vars == <<userVars, orgVars, shopVars, renderVars, requestVars, workerVars,
                 touched, late, faults>>

Owned == {o \in Orgs : owner[o] = "user"}
Existing(o) == owner[o] \in {"user", "other"}

\* The account's organization and its first shop; which they are makes no
\* difference.
Home == CHOOSE s \in Shops : TRUE

\* One organization with one shop, and a transfer that may yet happen; the others
\* do not exist.
Init ==
  /\ user = TRUE /\ pinned = FALSE
  /\ owner = [o \in Orgs |-> IF o = Home[1] THEN "user" ELSE "none"]
  /\ transfer = [o \in Orgs |-> o = Home[1]]
  /\ shop = [s \in Shops |-> IF s = Home THEN "active" ELSE "none"]
  /\ renewing = [o \in Orgs |-> owner[o] = "user"]
  /\ object = [s \in Shops |-> "none"] /\ key = [s \in Shops |-> FALSE]
  /\ adding = {}
  /\ render = [r \in Renderers |-> "idle"] /\ sale = [r \in Renderers |-> None]
  /\ request = [q \in Requests |-> "asked"]
  /\ consent \in [Requests -> BOOLEAN]
  /\ due = [q \in Requests |-> FALSE]
  /\ started = [q \in Requests |-> FALSE]
  /\ retry = [q \in Requests |-> TRUE]
  /\ lease = [q \in Requests |-> "free"]
  /\ pc = [w \in Workers |-> "idle"]
  /\ job = [w \in Workers |-> None]
  /\ token = [w \in Workers |-> FALSE]
  /\ targets = [w \in Workers |-> {}]
  /\ listed = [w \in Workers |-> {}]
  /\ todo = [w \in Workers |-> {}]
  /\ at = [w \in Workers |-> None]
  /\ touched = {} /\ late = {} /\ stray = {}
  /\ faults = 0

Fault == faults < MaxFaults /\ faults' = faults + 1

-----------------------------------------------------------------------------
(* The account's own requests.                                              *)

\* confirm_account_deletion
Confirm(q) ==
  /\ user /\ request[q] = "asked"
  /\ Owned = {} \/ consent[q]
  /\ request' = [request EXCEPT ![q] = "confirmed"]
  /\ UNCHANGED <<userVars, orgVars, shopVars, renderVars, consent, due, started, retry, lease,
                 workerVars, touched, late, faults>>

\* cancel_account_deletion, also of a request not yet confirmed
Cancel(q) ==
  /\ request[q] \in {"asked", "confirmed"} /\ ~started[q]
  /\ request' = [request EXCEPT ![q] = "cancelled"]
  /\ UNCHANGED <<userVars, orgVars, shopVars, renderVars, consent, due, started, retry, lease,
                 workerVars, touched, late, faults>>

\* add_shop is let in by an active shop of the organization.
BeginAddShop(s) ==
  /\ user /\ owner[s[1]] = "user" /\ shop[s] = "none" /\ s \notin adding
  /\ \E x \in ShopsOf(s[1]) : shop[x] = "active"
  /\ adding' = adding \cup {s}
  /\ UNCHANGED <<userVars, orgVars, shop, object, key, renderVars, requestVars, workerVars,
                 touched, late, faults>>

\* Its transaction locks the organization; without it, it fails.
CommitAddShop(s) ==
  /\ s \in adding
  /\ adding' = adding \ {s}
  /\ IF Existing(s[1])
     THEN /\ shop' = [shop EXCEPT ![s] = "active"]
          /\ late' = IF \E w \in Workers : s[1] \in targets[w] THEN late \cup {s} ELSE late
     ELSE UNCHANGED <<shop, late>>
  /\ UNCHANGED <<userVars, orgVars, object, key, renderVars, requestVars, workerVars, touched,
                 faults>>

\* google_auth with a shop's name, for an account without an active shop
FoundOrganization(o) ==
  /\ user /\ owner[o] = "none"
  /\ \A s \in Shops : owner[s[1]] = "user" => shop[s] # "active"
  /\ LET s == CHOOSE x \in ShopsOf(o) : TRUE IN shop' = [shop EXCEPT ![s] = "active"]
  /\ owner' = [owner EXCEPT ![o] = "user"]
  /\ UNCHANGED <<userVars, transfer, renewing, object, key, adding, renderVars, requestVars,
                 workerVars, touched, late, faults>>

\* _complete_transfer; its row refers to the former owner.
HandOver(o) ==
  /\ transfer[o] /\ owner[o] = "user"
  /\ owner' = [owner EXCEPT ![o] = "other"]
  /\ transfer' = [transfer EXCEPT ![o] = FALSE]
  /\ pinned' = TRUE
  /\ UNCHANGED <<user, renewing, shopVars, renderVars, requestVars, workerVars, touched, late,
                 faults>>

-----------------------------------------------------------------------------
(* Rendering an invoice: persist_invoice_pdf, as process_invoice_jobs calls *)
(* it.  The PDF is stored outside any transaction, between two of them.     *)

Rendering(r, step) ==
  /\ render' = [render EXCEPT ![r] = step]
  /\ UNCHANGED <<userVars, orgVars, shop, adding, requestVars, workerVars, touched, late>>

\* The attempt ends, as planned or not.
RenderEnds(r) == Rendering(r, "idle") /\ sale' = [sale EXCEPT ![r] = None]

\* _claim_invoice_jobs takes jobs of active shops; an attempt that is under way goes on
\* whatever becomes of the shop.
ClaimInvoice(r, s) ==
  /\ render[r] = "idle" /\ s \in Selling /\ shop[s] = "active"
  /\ Rendering(r, "claimed")
  /\ sale' = [sale EXCEPT ![r] = s]
  /\ UNCHANGED <<object, key, stray, faults>>

\* The first transaction reads the sale.
ReadSale(r) ==
  /\ render[r] = "claimed"
  /\ IF shop[sale[r]] = "gone" \/ key[sale[r]]
     THEN RenderEnds(r)
     ELSE Rendering(r, "rendered") /\ UNCHANGED sale
  /\ UNCHANGED <<object, key, stray, faults>>

\* upload_pdf: an object that is there already is left as it is.
Upload(r) ==
  /\ render[r] = "rendered"
  /\ object' = [object EXCEPT ![sale[r]] = "stored"]
  /\ Rendering(r, "uploaded")
  /\ UNCHANGED <<key, sale, stray, faults>>

\* The second transaction; without the row the PDF is deleted again.
Record(r) ==
  /\ render[r] = "uploaded"
  /\ IF shop[sale[r]] = "gone"
     THEN object' = [object EXCEPT ![sale[r]] = "erased"] /\ UNCHANGED <<key, stray>>
     ELSE /\ key' = [key EXCEPT ![sale[r]] = TRUE] /\ UNCHANGED object
          /\ stray' = stray \ {sale[r]}
  /\ RenderEnds(r)
  /\ UNCHANGED faults

\* The process dies, or the storage or the database fails; what was stored stays.
DropInvoice(r) ==
  /\ render[r] # "idle" /\ Fault
  /\ stray' = IF render[r] = "uploaded" /\ (shop[sale[r]] = "gone" \/ ~key[sale[r]])
              THEN stray \cup {sale[r]} ELSE stray
  /\ RenderEnds(r)
  /\ UNCHANGED <<object, key>>

-----------------------------------------------------------------------------
(* The worker.                                                              *)

Reached(w, step) == pc' = [pc EXCEPT ![w] = step]

Goto(w, step) ==
  /\ Reached(w, step)
  /\ UNCHANGED <<job, token, targets, listed, todo, at>>

Fail(w) ==
  /\ Reached(w, "failed")
  /\ targets' = [targets EXCEPT ![w] = {}]
  /\ listed' = [listed EXCEPT ![w] = {}]
  /\ todo' = [todo EXCEPT ![w] = {}]
  /\ at' = [at EXCEPT ![w] = None]
  /\ UNCHANGED <<job, token>>

End_Mutant(w) ==  \* the job is not forgotten
  /\ Reached(w, "idle")
  /\ token' = [token EXCEPT ![w] = FALSE]
  /\ UNCHANGED <<job, targets, listed, todo, at>>

End(w) ==
  /\ Reached(w, "idle")
  /\ job' = [job EXCEPT ![w] = None]
  /\ token' = [token EXCEPT ![w] = FALSE]
  /\ targets' = [targets EXCEPT ![w] = {}]
  /\ listed' = [listed EXCEPT ![w] = {}]
  /\ todo' = [todo EXCEPT ![w] = {}]
  /\ at' = [at EXCEPT ![w] = None]

Claimable_Mutant(q) ==  \* a lease is never taken over
  request[q] = "confirmed" /\ due[q] /\ retry[q] /\ lease[q] = "free"

Claimable(q) ==
  request[q] = "confirmed" /\ due[q] /\ retry[q] /\ lease[q] \in {"free", "over"}

\* _claim_account_deletions; the token a former worker has becomes void.
Claim(w, q) ==
  /\ pc[w] = "idle" /\ Claimable(q)
  /\ lease' = [lease EXCEPT ![q] = "held"]
  /\ Reached(w, "claimed")
  /\ job' = [job EXCEPT ![w] = q]
  /\ token' = [x \in Workers |-> x = w \/ (token[x] /\ job[x] # q)]
  /\ UNCHANGED <<userVars, orgVars, shopVars, renderVars, request, consent, due, started,
                 retry, targets, listed, todo, at, touched, late, faults>>

Open_Mutant(w) == user /\ token[w] /\ request[job[w]] # "completed"   \* cancelled or not

\* The request, found by its lease token, is still to be carried out.
Open(w) == user /\ token[w] /\ request[job[w]] = "confirmed"

\* _process_account_deletion's first transaction
Begin(w) ==
  /\ pc[w] = "claimed"
  /\ IF Open(w)
     THEN started' = [started EXCEPT ![job[w]] = TRUE] /\ Goto(w, "begun")
     ELSE UNCHANGED started /\ End(w)
  /\ UNCHANGED <<userVars, orgVars, shopVars, renderVars, request, consent, due, retry, lease,
                 touched, late, faults>>

ShopsListed_Mutant == {s \in Shops : s[1] \in Owned /\ shop[s] = "active"}
ShopsListed == {s \in Shops : s[1] \in Owned /\ shop[s] # "none"}

\* _claim_owned_organizations_for_deletion
ListOwned(w) ==
  /\ pc[w] = "begun"
  /\ IF consent[job[w]] \/ Owned = {}
     THEN /\ targets' = [targets EXCEPT ![w] = Owned]
          /\ listed' = [listed EXCEPT ![w] = ShopsListed]
          /\ todo' = [todo EXCEPT ![w] = ShopsListed]
          /\ shop' = [s \in Shops |-> IF s \in ShopsListed THEN "inactive" ELSE shop[s]]
          /\ touched' = IF Owned = {} THEN touched ELSE touched \cup {job[w]}
          /\ Reached(w, "next") /\ UNCHANGED <<job, token, at>>
     ELSE Fail(w) /\ UNCHANGED <<shop, touched>>
  /\ UNCHANGED <<userVars, orgVars, object, key, adding, renderVars, requestVars, late,
                 faults>>

\* _renew_deletion_lease
Renews(w) == token[w] /\ request[job[w]] # "completed"
Renew(w) == lease' = [q \in Requests |-> IF q = job[w] THEN "held" ELSE lease[q]]

\* A worker that lost its lease gives up.
LeaseLost(w) ==
  /\ pc[w] = "erasing" \/ (pc[w] = "next" /\ todo[w] # {})
  /\ ~Renews(w)
  /\ Fail(w)
  /\ UNCHANGED <<userVars, orgVars, shopVars, renderVars, requestVars, touched, late, faults>>

\* Google Play, or the storage, fails.
CallFails(w) ==
  /\ pc[w] \in {"cancelling", "erasing"}
  /\ Fault
  /\ Fail(w)
  /\ UNCHANGED <<userVars, orgVars, shopVars, renderVars, requestVars, touched, late>>

First(w, s) == todo[w] \cap ShopsOf(s[1]) = listed[w] \cap ShopsOf(s[1])

\* The next shop; an organization's first has its subscription cancelled.
NextShop(w, s) ==
  /\ pc[w] = "next" /\ s \in todo[w]
  /\ Renews(w) /\ Renew(w)
  /\ Reached(w, IF First(w, s) THEN "cancelling" ELSE "reading")
  /\ at' = [at EXCEPT ![w] = s]
  /\ todo' = [todo EXCEPT ![w] = @ \ {s}]
  /\ UNCHANGED <<userVars, orgVars, shopVars, renderVars, request, consent, due, started,
                 retry, job, token, targets, listed, touched, late, faults>>

CancelBilling(w) ==
  /\ pc[w] = "cancelling"
  /\ renewing' = [renewing EXCEPT ![at[w][1]] = FALSE]
  /\ Goto(w, "reading")
  /\ UNCHANGED <<userVars, owner, transfer, shopVars, renderVars, requestVars, touched, late,
                 faults>>

\* Keys are read a batch at a time; when there are none left the shop is done.
ReadKeys(w) ==
  /\ pc[w] = "reading"
  /\ IF key[at[w]] THEN Goto(w, "erasing")
     ELSE /\ Reached(w, "next")
          /\ at' = [at EXCEPT ![w] = None]
          /\ UNCHANGED <<job, token, targets, listed, todo>>
  /\ UNCHANGED <<userVars, orgVars, shopVars, renderVars, requestVars, touched, late, faults>>

Erase(w) ==
  /\ pc[w] = "erasing" /\ Renews(w) /\ Renew(w)
  /\ object' = [object EXCEPT ![at[w]] = "erased"]
  /\ Goto(w, "erased")
  /\ UNCHANGED <<userVars, orgVars, shop, key, adding, renderVars, request, consent, due,
                 started, retry, touched, late, faults>>

\* The keys that were read are cleared whatever was stored since.
ForgetKeys(w) ==
  /\ pc[w] = "erased"
  /\ key' = [key EXCEPT ![at[w]] = FALSE]
  /\ stray' = IF object[at[w]] = "stored" THEN stray \cup {at[w]} ELSE stray
  /\ Goto(w, "reading")
  /\ UNCHANGED <<userVars, orgVars, shop, object, adding, render, sale, requestVars, touched,
                 late, faults>>

StillOwned(w) == \A o \in targets[w] : owner[o] \in {"user", "gone"}

StillClean_Mutant(w) ==  \* the keys are not looked at again
  \A s \in listed[w] : owner[s[1]] = "user" => shop[s] = "inactive"

StillClean(w) ==
  \A s \in listed[w] : owner[s[1]] = "user" => shop[s] = "inactive" /\ ~key[s]

Deletable_Mutant(w) == ~pinned  \* the owner's foreign key sets null

\* Nothing that must not lose the account refers to it: no other organization it
\* owns, no row that pins it.
Deletable(w) == ~pinned /\ Owned \subseteq targets[w]

\* The last transaction: all is checked again, then the organizations go, with
\* whatever shops they have by now, and the account.
Final(w) ==
  /\ pc[w] = "next" /\ todo[w] = {}
  /\ IF ~Open(w) THEN End(w) /\ UNCHANGED <<user, owner, transfer, shop, request, lease>>
     ELSE IF ~(StillOwned(w) /\ StillClean(w) /\ Deletable(w))
     THEN Fail(w) /\ UNCHANGED <<user, owner, transfer, shop, request, lease>>
     ELSE /\ user' = FALSE
          /\ owner' = [o \in Orgs |-> IF o \in targets[w] THEN "gone" ELSE owner[o]]
          /\ transfer' = [o \in Orgs |-> transfer[o] /\ o \notin targets[w]]
          /\ shop' = [s \in Shops |-> IF s[1] \in targets[w] /\ shop[s] # "none"
                                      THEN "gone" ELSE shop[s]]
          /\ request' = [request EXCEPT ![job[w]] = "completed"]
          /\ lease' = [lease EXCEPT ![job[w]] = "free"]
          /\ End(w)
  /\ UNCHANGED <<pinned, renewing, object, key, adding, renderVars, consent, due, started,
                 retry, touched, late, faults>>

\* _mark_deletion_failure
MarkFailure(w) ==
  /\ pc[w] = "failed"
  /\ IF token[w]
     THEN /\ lease' = [lease EXCEPT ![job[w]] = "free"]
          /\ retry' = [retry EXCEPT ![job[w]] = FALSE]
     ELSE UNCHANGED <<lease, retry>>
  /\ End(w)
  /\ UNCHANGED <<userVars, orgVars, shopVars, renderVars, request, consent, due, started,
                 touched, late, faults>>

Die(w) ==
  /\ pc[w] # "idle" /\ Fault
  /\ End(w)
  /\ UNCHANGED <<userVars, orgVars, shopVars, renderVars, requestVars, touched, late>>

-----------------------------------------------------------------------------
(* Time.                                                                    *)

GracePeriodEnds(q) ==
  /\ request[q] = "confirmed" /\ ~due[q]
  /\ due' = [due EXCEPT ![q] = TRUE]
  /\ UNCHANGED <<userVars, orgVars, shopVars, renderVars, request, consent, started, retry,
                 lease, workerVars, touched, late, faults>>

RetryDue(q) ==
  /\ ~retry[q]
  /\ retry' = [retry EXCEPT ![q] = TRUE]
  /\ UNCHANGED <<userVars, orgVars, shopVars, renderVars, request, consent, due, started,
                 lease, workerVars, touched, late, faults>>

Abandoned(q) == \A w \in Workers : ~(job[w] = q /\ token[w])

\* Two hours after the last renewal; while its worker is still at it, that is a
\* fault.
LeaseExpires(q) ==
  /\ lease[q] = "held"
  /\ IF Abandoned(q) THEN UNCHANGED faults ELSE Fault
  /\ lease' = [lease EXCEPT ![q] = "over"]
  /\ UNCHANGED <<userVars, orgVars, shopVars, renderVars, request, consent, due, started,
                 retry, workerVars, touched, late>>

-----------------------------------------------------------------------------
Process(w) ==
  \/ Begin(w) \/ ListOwned(w) \/ LeaseLost(w) \/ CancelBilling(w) \/ ReadKeys(w)
  \/ Erase(w) \/ ForgetKeys(w) \/ Final(w) \/ MarkFailure(w)
  \/ \E s \in Shops : NextShop(w, s)

RenderInvoice(r) ==
  \/ ReadSale(r) \/ Upload(r) \/ Record(r) \/ DropInvoice(r)
  \/ \E s \in Shops : ClaimInvoice(r, s)

Next ==
  \/ \E q \in Requests :
       Confirm(q) \/ Cancel(q) \/ GracePeriodEnds(q) \/ RetryDue(q) \/ LeaseExpires(q)
  \/ \E s \in Shops : BeginAddShop(s) \/ CommitAddShop(s)
  \/ \E o \in Orgs : FoundOrganization(o) \/ HandOver(o)
  \/ \E r \in Renderers : RenderInvoice(r)
  \/ \E w \in Workers :
       \/ Process(w) \/ CallFails(w) \/ Die(w)
       \/ \E q \in Requests : Claim(w, q)

Spec == Init /\ [][Next]_vars

\* The worker loop runs on and time passes.
Fairness ==
  /\ \A w \in Workers : WF_vars(Process(w))
  /\ \A q \in Requests :
       /\ WF_vars(\E w \in Workers : Claim(w, q))
       /\ WF_vars(GracePeriodEnds(q)) /\ WF_vars(RetryDue(q))
       /\ WF_vars(LeaseExpires(q) /\ Abandoned(q))

FairSpec == Spec /\ Fairness

-----------------------------------------------------------------------------
TypeOK ==
  /\ user \in BOOLEAN /\ pinned \in BOOLEAN
  /\ owner \in [Orgs -> {"none", "user", "other", "gone"}]
  /\ transfer \in [Orgs -> BOOLEAN] /\ renewing \in [Orgs -> BOOLEAN]
  /\ shop \in [Shops -> {"none", "active", "inactive", "gone"}]
  /\ object \in [Shops -> {"none", "stored", "erased"}] /\ key \in [Shops -> BOOLEAN]
  /\ adding \subseteq Shops
  /\ render \in [Renderers -> {"idle", "claimed", "rendered", "uploaded"}]
  /\ sale \in [Renderers -> Shops \cup {None}]
  /\ \A r \in Renderers : render[r] = "idle" <=> sale[r] = None
  /\ request \in [Requests -> {"asked", "confirmed", "cancelled", "completed"}]
  /\ consent \in [Requests -> BOOLEAN] /\ due \in [Requests -> BOOLEAN]
  /\ started \in [Requests -> BOOLEAN] /\ retry \in [Requests -> BOOLEAN]
  /\ lease \in [Requests -> {"free", "held", "over"}]
  /\ pc \in [Workers -> {"idle", "claimed", "begun", "next", "cancelling", "reading",
                         "erasing", "erased", "failed"}]
  /\ \A w \in Workers : pc[w] = "idle" <=> job[w] = None
  /\ job \in [Workers -> Requests \cup {None}]
  /\ token \in [Workers -> BOOLEAN]
  /\ targets \in [Workers -> SUBSET Orgs]
  /\ listed \in [Workers -> SUBSET Shops] /\ todo \in [Workers -> SUBSET Shops]
  /\ at \in [Workers -> Shops \cup {None}]
  /\ touched \subseteq Requests /\ late \subseteq Shops /\ stray \subseteq Shops
  /\ faults \in 0..MaxFaults

\* A cancellation that is accepted comes before any effect: no shop deactivated,
\* no renewal cancelled, no invoice erased on behalf of a cancelled request.
CancelledTouchesNothing == \A q \in Requests : request[q] = "cancelled" => q \notin touched

\* An attempt has stored the PDF and has its last transaction ahead.
Unrecorded(s) == \E r \in Renderers : render[r] = "uploaded" /\ sale[r] = s

\* When the rows are gone no invoice whose key was recorded is left in storage,
\* whatever was rendered meanwhile and however often the clean-up began anew; and an
\* attempt that is still to record one will delete it.  What is left is the invoice
\* of a shop added while the worker was at it, which it does not look for; one whose
\* attempt ended between storing and recording it; and one stored again after a
\* worker had erased it and before it cleared its key.
NothingLeftInStorage ==
  \A s \in Shops :
    shop[s] = "gone" /\ object[s] = "stored" => s \in late \cup stray \/ Unrecorded(s)

\* Nobody is billed for an organization that was deleted.
BillingStops == \A o \in Orgs : owner[o] = "gone" => ~renewing[o]

\* Organizations go with their owner's account, the one founded during the
\* clean-up too: none is left to an owner that is gone.
NoneOrphaned == ~user => Owned = {}

\* What keeps an account: rows that refer to it, and organizations whose
\* deletion was not asked for.
Kept(q) == pinned \/ (~consent[q] /\ Owned # {})

\* Unless it is kept for one of these reasons, a confirmed request is carried out,
\* through failures and deaths.
AccountGoes ==
  \A q \in Requests :
    request[q] = "confirmed" ~> (~user \/ request[q] = "cancelled" \/ Kept(q))

\* .ai/ARCHITECTURE.md:50: "Confirmed account deletions execute after seven days
\* and can be cancelled with the confirmation token until cleanup begins."
ConfirmedIsExecuted ==
  \A q \in Requests :
    request[q] = "confirmed" /\ consent[q] ~> (~user \/ request[q] = "cancelled")
-----------------------------------------------------------------------------
(* The properties as the run checks them.                                   *)

\* A deletion leaves no recorded invoice in storage, no subscription running and no
\* organization without its owner.
NothingIsLeft == TypeOK /\ NothingLeftInStorage /\ BillingStops /\ NoneOrphaned
=============================================================================
