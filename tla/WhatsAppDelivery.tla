--------------------------- MODULE WhatsAppDelivery ---------------------------
(***************************************************************************)
(* Sending the invoice of one sale to its customer by WhatsApp: the two    *)
(* rows of each delivery (the shop's audit row and the worker's job row,   *)
(* app/modules/whatsapp), the sending worker (app/jobs/whatsapp.py), the   *)
(* provider with its status callbacks, and the customer's opt-out.         *)
(*                                                                         *)
(* A step is one database transaction, one call of the provider, or the    *)
(* death of an attempt.  An attempt is the coroutine a worker starts for   *)
(* one claimed job.  All deliveries are of one sale and go to one number.  *)
(* The sale's document is the environment SaleDocument, which the invoice  *)
(* pipeline implements.                                                    *)
(*                                                                         *)
(* Definitions whose name ends in _Mutant are plausible bugs of the one    *)
(* that follows them; the runs' properties are shown to reject them.       *)
(***************************************************************************)
EXTENDS Naturals, FiniteSets

CONSTANTS
  Deliveries,   \* deliveries, each with its own idempotency key
  Workers,      \* attempt slots
  Tokens,       \* lease tokens
  None,         \* Python's None
  MaxAttempts,  \* settings.worker_whatsapp_max_attempts
  MaxFaults,    \* bound: crashes and overruns in a behaviour
  MaxOverruns   \* bound: overruns among them, of a lease by its attempt

ASSUME ConstantsAssumption ==
  /\ None \notin Deliveries \cup Workers \cup Tokens
  /\ IsFiniteSet(Workers)
  /\ MaxAttempts \in Nat \ {0}
  /\ MaxFaults \in Nat
  /\ MaxOverruns \in Nat

VARIABLES
  \* the delivery: "none", "asked" (the request has seen no obstacle), "queued"
  \* (both rows are committed) or "deleted"; the sale's latest one; the latest
  \* one the request saw
  row, latest, seen,
  \* WhatsAppInvoiceDelivery.status and the WhatsAppDeliveryJob row
  delivery, job, attempts, due, lease, leaseToken,
  \* the attempt of each slot: its next step, delivery, token, how the send ended
  pc, target, token, outcome,
  \* the number's suppression is active
  suppressed,
  \* the provider: messages it took, statuses it has reported
  messages, reported,
  \* the sale's document
  keyed, pdf,
  \* crashes, and leases that expired under a running attempt, so far
  faults, overruns

rowVars == <<row, latest, seen>>
jobVars == <<delivery, job, attempts, due, lease, leaseToken>>
attemptVars == <<pc, target, token, outcome>>
providerVars == <<messages, reported>>
documentVars == <<keyed, pdf>>
boundVars == <<faults, overruns>>
vars == <<rowVars, jobVars, attemptVars, suppressed, providerVars, documentVars,
          boundVars>>

Document == INSTANCE SaleDocument

Open == {"pending", "processing"}
Confirmed == {"sent", "delivered", "read"}
Callbacks == Confirmed \cup {"failed"}
Statuses == Open \cup Callbacks \cup {"accepted", "unknown"}

-----------------------------------------------------------------------------
Init ==
  /\ row = [d \in Deliveries |-> "none"]
  /\ latest = None
  /\ seen = [d \in Deliveries |-> None]
  /\ delivery = [d \in Deliveries |-> "pending"]
  /\ job = [d \in Deliveries |-> "none"]
  /\ attempts = [d \in Deliveries |-> 0]
  /\ due = [d \in Deliveries |-> TRUE]
  /\ lease = [d \in Deliveries |-> "none"]
  /\ leaseToken = [d \in Deliveries |-> None]
  /\ pc = [w \in Workers |-> "idle"]
  /\ target = [w \in Workers |-> None]
  /\ token = [w \in Workers |-> None]
  /\ outcome = [w \in Workers |-> "none"]
  /\ suppressed \in BOOLEAN
  /\ messages = [d \in Deliveries |-> 0]
  /\ reported = [d \in Deliveries |-> {}]
  /\ Document!Init
  /\ faults = 0 /\ overruns = 0

-----------------------------------------------------------------------------
(* The request (queue_invoice_delivery), which takes no lock.               *)

\* The sale's latest delivery is settled, and a resend is confirmed.
Ask(d) ==
  /\ row[d] = "none"
  /\ latest # None => delivery[latest] \notin Open
  /\ row' = [row EXCEPT ![d] = "asked"]
  /\ seen' = [seen EXCEPT ![d] = latest]
  /\ UNCHANGED latest
  /\ UNCHANGED <<jobVars, attemptVars, suppressed, providerVars, documentVars, boundVars>>

\* Both rows are written, and the fresh consent ends a suppression.  created_at
\* is when the transaction began, so of two that overlap either may be latest.
Queue(d) ==
  /\ row[d] = "asked"
  /\ row' = [row EXCEPT ![d] = "queued"]
  /\ latest' \in IF latest = seen[d] THEN {d} ELSE {d, latest}
  /\ job' = [job EXCEPT ![d] = "pending"]
  /\ suppressed' = FALSE
  /\ UNCHANGED <<seen, delivery, attempts, due, lease, leaseToken>>
  /\ UNCHANGED <<attemptVars, providerVars, documentVars, boundVars>>

-----------------------------------------------------------------------------
(* The sending worker.                                                      *)

Goto(w, step) ==
  pc' = [pc EXCEPT ![w] = step] /\ UNCHANGED <<target, token, outcome>>

\* The attempt is to record this outcome.
Conclude(w, result) ==
  /\ pc' = [pc EXCEPT ![w] = "finish"]
  /\ outcome' = [outcome EXCEPT ![w] = result]
  /\ UNCHANGED <<target, token>>

End(w) ==
  /\ pc' = [pc EXCEPT ![w] = "idle"]
  /\ target' = [target EXCEPT ![w] = None]
  /\ token' = [token EXCEPT ![w] = None]
  /\ outcome' = [outcome EXCEPT ![w] = "none"]

\* The job row still carries the token of this attempt.
Runs(w, d) == pc[w] # "idle" /\ target[w] = d /\ token[w] = leaseToken[d]
Owns(w) == Runs(w, target[w])

TokensInUse == {leaseToken[d] : d \in Deliveries} \cup {token[w] : w \in Workers}

\* Which of the unused tokens a uuid4 is makes no difference.
FreshToken == CHOOSE t \in Tokens : t \notin TokensInUse

Claimable_Mutant(d) ==  \* a lease is not waited for
  (job[d] = "pending" /\ due[d]) \/ job[d] = "processing"

Unclaimed_Mutant(d) ==  \* an expired lease is not claimed again
  job[d] = "pending" /\ due[d]

Claimable(d) ==
  \/ job[d] = "pending" /\ due[d]
  \/ job[d] = "processing" /\ lease[d] = "expired"

Claim(w, d, t) ==
  /\ pc[w] = "idle"
  /\ Claimable(d)
  /\ t \notin TokensInUse /\ t = FreshToken
  /\ job' = [job EXCEPT ![d] = "processing"]
  /\ lease' = [lease EXCEPT ![d] = "held"]
  /\ leaseToken' = [leaseToken EXCEPT ![d] = t]
  /\ pc' = [pc EXCEPT ![w] = "claimed"]
  /\ target' = [target EXCEPT ![w] = d]
  /\ token' = [token EXCEPT ![w] = t]
  /\ UNCHANGED <<outcome, delivery, attempts, due>>
  /\ UNCHANGED <<rowVars, suppressed, providerVars, documentVars, boundVars>>

Deliverable == keyed /\ pdf = "ready"

\* The rows are read: the attempt waits for a document that may still come.
Load(w) ==
  /\ pc[w] = "claimed"
  /\ \/ row[target[w]] # "queued" /\ Conclude(w, "failed")
     \/ row[target[w]] = "queued" /\ Deliverable /\ Goto(w, "loaded")
     \/ row[target[w]] = "queued" /\ ~Deliverable /\ pdf = "failed" /\ Conclude(w, "failed")
     \/ row[target[w]] = "queued" /\ ~Deliverable /\ pdf # "failed" /\ Goto(w, "deferred")
  /\ UNCHANGED <<rowVars, jobVars, suppressed, providerVars, documentVars, boundVars>>

CheckSuppression(w) ==
  /\ pc[w] = "loaded"
  /\ \/ suppressed /\ Conclude(w, "failed")
     \/ ~suppressed /\ Goto(w, "cleared")
  /\ UNCHANGED <<rowVars, jobVars, suppressed, providerVars, documentVars, boundVars>>

\* The document is read, uploaded and sent.  The provider takes the message and
\* says so; or its answer is lost: by a timeout or for want of an id ("unknown"),
\* by a broken connection or because it cannot be read ("retry").
Send(w) ==
  /\ pc[w] = "cleared"
  /\ messages' = [messages EXCEPT ![target[w]] = @ + 1]
  /\ \E result \in {"accepted", "unknown", "retry"} : Conclude(w, result)
  /\ UNCHANGED <<rowVars, jobVars, suppressed, reported, documentVars, boundVars>>

\* The provider takes no message: the store or the provider fails, refuses, or
\* does not answer in time.
SendFails(w) ==
  /\ pc[w] = "cleared"
  /\ \E result \in {"failed", "unknown", "retry"} : Conclude(w, result)
  /\ UNCHANGED <<rowVars, jobVars, suppressed, providerVars, documentVars, boundVars>>

\* _defer_for_pdf: not an attempt.
Defer(w) ==
  LET d == target[w] IN
  /\ pc[w] = "deferred"
  /\ End(w)
  /\ \/ /\ Owns(w)
        /\ job' = [job EXCEPT ![d] = "pending"]
        /\ due' = [due EXCEPT ![d] = FALSE]
        /\ lease' = [lease EXCEPT ![d] = "none"]
        /\ leaseToken' = [leaseToken EXCEPT ![d] = None]
        /\ UNCHANGED <<delivery, attempts>>
     \/ ~Owns(w) /\ UNCHANGED jobVars
  /\ UNCHANGED <<rowVars, suppressed, providerVars, documentVars, boundVars>>

Settle_Mutant(d, result) ==  \* one attempt too many
  LET again == result = "retry" /\ attempts[d] <= MaxAttempts
      final == IF again THEN "pending" ELSE IF result = "retry" THEN "failed" ELSE result
  IN
  /\ attempts' = [attempts EXCEPT ![d] = @ + 1]
  /\ job' = [job EXCEPT ![d] = final]
  /\ delivery' = [delivery EXCEPT ![d] = final]
  /\ due' = [due EXCEPT ![d] = ~again]
  /\ lease' = [lease EXCEPT ![d] = "none"]
  /\ leaseToken' = [leaseToken EXCEPT ![d] = None]

\* _finish_delivery settles both rows, or schedules another attempt.
Settle(d, result) ==
  LET again == result = "retry" /\ attempts[d] + 1 < MaxAttempts
      final == IF again THEN "pending" ELSE IF result = "retry" THEN "failed" ELSE result
  IN
  /\ attempts' = [attempts EXCEPT ![d] = @ + 1]
  /\ job' = [job EXCEPT ![d] = final]
  /\ delivery' = [delivery EXCEPT ![d] = final]
  /\ due' = [due EXCEPT ![d] = ~again]
  /\ lease' = [lease EXCEPT ![d] = "none"]
  /\ leaseToken' = [leaseToken EXCEPT ![d] = None]

Finish_Mutant(w) ==  \* the lease token is not compared
  /\ pc[w] = "finish"
  /\ End(w)
  /\ Settle(target[w], outcome[w])
  /\ UNCHANGED <<rowVars, suppressed, providerVars, documentVars, boundVars>>

Finish(w) ==
  /\ pc[w] = "finish"
  /\ End(w)
  /\ \/ Owns(w) /\ Settle(target[w], outcome[w])
     \/ ~Owns(w) /\ UNCHANGED jobVars
  /\ UNCHANGED <<rowVars, suppressed, providerVars, documentVars, boundVars>>

\* The worker process dies, or its database connection does.
Crash(w) ==
  /\ pc[w] # "idle"
  /\ faults + overruns < MaxFaults
  /\ faults' = faults + 1
  /\ End(w)
  /\ UNCHANGED <<rowVars, jobVars, suppressed, providerVars, documentVars, overruns>>

\* Ten minutes pass after the claim, perhaps under a running attempt.
LeaseExpires(d) ==
  /\ lease[d] = "held"
  /\ lease' = [lease EXCEPT ![d] = "expired"]
  /\ \/ /\ \E w \in Workers : Runs(w, d)
        /\ overruns < MaxOverruns /\ faults + overruns < MaxFaults
        /\ overruns' = overruns + 1
     \/ /\ ~\E w \in Workers : Runs(w, d)
        /\ UNCHANGED overruns
  /\ UNCHANGED <<delivery, job, attempts, due, leaseToken, faults>>
  /\ UNCHANGED <<rowVars, attemptVars, suppressed, providerVars, documentVars>>

BackoffElapses(d) ==
  /\ job[d] = "pending" /\ ~due[d]
  /\ due' = [due EXCEPT ![d] = TRUE]
  /\ UNCHANGED <<delivery, job, attempts, lease, leaseToken>>
  /\ UNCHANGED <<rowVars, attemptVars, suppressed, providerVars, documentVars, boundVars>>

-----------------------------------------------------------------------------
(* The provider and its webhook.  A report can be delivered late, more than *)
(* once, in any order, or never.                                            *)

Report(d, s) ==
  /\ messages[d] > 0 /\ s \in Callbacks \ reported[d]
  /\ s = "delivered" => "sent" \in reported[d]
  /\ s = "read" => "delivered" \in reported[d]
  /\ s = "failed" => "delivered" \notin reported[d] \/ messages[d] > 1
  /\ s \in Confirmed => "failed" \notin reported[d] \/ messages[d] > 1
  /\ reported' = [reported EXCEPT ![d] = @ \cup {s}]
  /\ UNCHANGED <<rowVars, jobVars, attemptVars, suppressed, messages, documentVars, boundVars>>

\* STATUS_ORDER; a status that is not in it ranks below all.
Rank(s) ==
  CASE s = "pending" -> 1 [] s = "processing" -> 2 [] s = "accepted" -> 3
    [] s = "sent" -> 4 [] s = "delivered" -> 5 [] s = "read" -> 6 [] OTHER -> 0

\* The callback is newer than what the delivery says.
Advances(s, current) ==
  IF s = "failed" THEN current \notin Confirmed ELSE Rank(s) >= Rank(current)

Record_Mutant(d, s) ==  \* the job row alone is updated
  job' = [job EXCEPT ![d] = s] /\ UNCHANGED delivery

\* _record_status writes both rows; the lease stays as it is.
Record(d, s) ==
  delivery' = [delivery EXCEPT ![d] = s] /\ job' = [job EXCEPT ![d] = s]

\* A failure that reports a block suppresses the number.
Callback(d, s) ==
  /\ s \in reported[d]
  /\ row[d] = "queued" /\ Advances(s, delivery[d])
  /\ Record(d, s)
  /\ suppressed' \in IF s = "failed" THEN {suppressed, TRUE} ELSE {suppressed}
  /\ UNCHANGED <<attempts, due, lease, leaseToken>>
  /\ UNCHANGED <<rowVars, attemptVars, providerVars, documentVars, boundVars>>

\* STOP and its synonyms.
OptOut ==
  /\ suppressed' = TRUE
  /\ UNCHANGED <<rowVars, jobVars, attemptVars, providerVars, documentVars, boundVars>>

-----------------------------------------------------------------------------
(* The rest of the system.                                                  *)

DocumentStep ==
  /\ Document!Next
  /\ UNCHANGED <<rowVars, jobVars, attemptVars, suppressed, providerVars, boundVars>>

\* Deleting the shop cascades to its deliveries and their jobs.
DeleteRows ==
  /\ row' = [d \in Deliveries |-> "deleted"]
  /\ job' = [d \in Deliveries |-> "none"]
  /\ lease' = [d \in Deliveries |-> "none"]
  /\ leaseToken' = [d \in Deliveries |-> None]
  /\ UNCHANGED <<latest, seen, delivery, attempts, due>>
  /\ UNCHANGED <<attemptVars, suppressed, providerVars, documentVars, boundVars>>

-----------------------------------------------------------------------------
WorkerStep(w) ==
  \/ Load(w) \/ CheckSuppression(w) \/ Send(w) \/ SendFails(w)
  \/ Defer(w) \/ Finish(w) \/ Crash(w)

DeliveryStep(d) ==
  \/ Ask(d) \/ Queue(d) \/ LeaseExpires(d) \/ BackoffElapses(d)
  \/ \E s \in Callbacks : Report(d, s) \/ Callback(d, s)

Next ==
  \/ \E w \in Workers, d \in Deliveries, t \in Tokens : Claim(w, d, t)
  \/ \E w \in Workers : WorkerStep(w)
  \/ \E d \in Deliveries : DeliveryStep(d)
  \/ OptOut \/ DocumentStep \/ DeleteRows

Spec == Init /\ [][Next]_vars

\* The worker polls forever, a coroutine runs on unless its process dies, and
\* time passes.  Nothing is assumed of requests, callbacks and the document.
Progress(w) ==
  \/ Load(w) \/ CheckSuppression(w) \/ Send(w) \/ SendFails(w)
  \/ Defer(w) \/ Finish(w)

Fairness ==
  /\ \A w \in Workers : WF_vars(Progress(w))
  /\ \A d \in Deliveries :
       /\ WF_vars(\E w \in Workers, t \in Tokens : Claim(w, d, t))
       /\ WF_vars(LeaseExpires(d))
       /\ WF_vars(BackoffElapses(d))

FairSpec == Spec /\ Fairness

-----------------------------------------------------------------------------
TypeOK ==
  /\ row \in [Deliveries -> {"none", "asked", "queued", "deleted"}]
  /\ latest \in Deliveries \cup {None}
  /\ seen \in [Deliveries -> Deliveries \cup {None}]
  /\ delivery \in [Deliveries -> Statuses]
  /\ job \in [Deliveries -> Statuses \cup {"none"}]
  /\ attempts \in [Deliveries -> 0..MaxAttempts]
  /\ due \in [Deliveries -> BOOLEAN]
  /\ lease \in [Deliveries -> {"none", "held", "expired"}]
  /\ leaseToken \in [Deliveries -> Tokens \cup {None}]
  /\ pc \in [Workers -> {"idle", "claimed", "loaded", "cleared", "deferred", "finish"}]
  /\ target \in [Workers -> Deliveries \cup {None}]
  /\ token \in [Workers -> Tokens \cup {None}]
  /\ outcome \in [Workers -> {"none", "accepted", "unknown", "failed", "retry"}]
  /\ suppressed \in BOOLEAN
  /\ messages \in [Deliveries -> Nat]
  /\ reported \in [Deliveries -> SUBSET Callbacks]
  /\ keyed \in BOOLEAN /\ pdf \in {"pending", "ready", "failed"}
  /\ faults \in 0..MaxFaults /\ overruns \in 0..MaxOverruns

\* A delivery shown as waiting, which blocks every further request to send the
\* invoice, has a job that will settle it: the worker, the callbacks and the
\* stale attempts never settle the job row and leave the audit row waiting.
WaitingHasJob ==
  \A d \in Deliveries :
    row[d] = "queued" /\ delivery[d] \in Open => job[d] \in Open

\* An ambiguous outcome is final for the worker: once the job row says unknown,
\* no attempt, retry or late finish makes it claimable again.
UnknownIsNotRetried ==
  [][\A d \in Deliveries : job[d] = "unknown" => job'[d] \notin Open]_vars

\* Duplicates are paid for: the provider gets no more messages for a delivery
\* than attempts were counted, but for one per crash, one per lease outlived,
\* and the one whose outcome is about to be recorded.
MessagesAccounted ==
  \A d \in Deliveries :
    row[d] = "queued" =>
      messages[d] <= attempts[d] + faults + overruns
                     + Cardinality({w \in Workers : pc[w] = "finish" /\ Runs(w, d)})

\* Nothing waits for ever: once the document has come or failed for good, every
\* queued delivery leaves the queue, whatever crashed, was lost or came late.
DeliveryEventuallySettles ==
  <>[](Deliverable \/ pdf = "failed") =>
    \A d \in Deliveries : job[d] \in Open ~> job[d] \notin Open

\* docs/WHATSAPP_INVOICE_DELIVERY.md: "No further worker delivery is sent while
\* suppression is active."
SuppressedIsNotSent ==
  [][suppressed => messages' = messages]_vars

\* .ai/ARCHITECTURE.md: "Signed Meta webhooks advance delivery status".  What a
\* callback has confirmed is not taken back.
ConfirmedIsKept ==
  [][\A d \in Deliveries :
       delivery[d] \in Confirmed => delivery'[d] \in Confirmed]_vars

\* tests/test_whatsapp.py: a second request for an invoice that is queued is
\* refused (DELIVERY_ALREADY_PENDING).
OneOpenDelivery ==
  \A c, d \in Deliveries : job[c] \in Open /\ job[d] \in Open => c = d
=============================================================================
