---------------------------- MODULE PlayBilling ----------------------------
(***************************************************************************)
(* One Google Play subscription (app/modules/billing and the reconciling   *)
(* part of app/worker.py).  Google's own record is read by the owner's     *)
(* purchase request, by the handler of Google's notifications and by       *)
(* workers that verify it from time to time under a lease; each reading is *)
(* taken before the transaction that applies it.  A purchase that is not   *)
(* acknowledged is refunded, so an acknowledgement that failed is retried. *)
(*                                                                         *)
(* A purchase read for another organization is refused on the reading and  *)
(* changes nothing; it is left out.                                        *)
(*                                                                         *)
(* Definitions whose name ends in _Mutant are plausible bugs of the one    *)
(* that follows them; the runs' properties are shown to reject them.       *)
(***************************************************************************)
EXTENDS Naturals, FiniteSets

CONSTANTS
  Handlers,    \* request handlers: purchases and notifications
  Workers,
  Leases,      \* lease tokens
  None,        \* Python's None
  MaxChanges,  \* bound: changes of the subscription at Google
  MaxSubmits,  \* bound: purchase requests
  MaxFaults    \* bound: deaths, failed calls, answers lost, leases overrun, duplicates

ASSUME ConstantsAssumption ==
  /\ Handlers \cap Workers = {}
  /\ None \notin Leases
  /\ {MaxChanges, MaxSubmits, MaxFaults} \subseteq Nat

Tasks == Handlers \cup Workers
Versions == 0..MaxChanges

VARIABLES
  \* Google: the subscription's version, whether it is acknowledged, and for
  \* each change whether its notification is still to be delivered
  google, acknowledged, undelivered,
  \* the subscription and PlaySubscription rows: there, the version last
  \* applied, acknowledgement_pending and its time has come, a verification is
  \* due, verification_lease_token, verification_lease_until has passed
  row, applied, pending, ackDue, verifyDue, lease, leaseOver,
  \* processed_at of the BillingEvent of each change
  event,
  \* running tasks: next step, reading, row copy, notification, lease token
  pc, reading, unacked, loaded, note, token,
  \* history: who wrote the version last applied
  writer,
  submits, faults

googleVars == <<google, acknowledged, undelivered>>
dueVars == <<verifyDue, lease, leaseOver>>
rowVars == <<row, applied, pending, ackDue, dueVars>>
taskVars == <<pc, reading, unacked, loaded, note, token>>
vars == <<googleVars, rowVars, event, taskVars, writer, submits, faults>>

Init ==
  /\ google = 0
  /\ acknowledged \in BOOLEAN
  /\ undelivered = {}
  /\ row \in {"none", "kept"}
  /\ applied = 0
  /\ pending = (row = "kept" /\ ~acknowledged)
  /\ ackDue = pending
  /\ verifyDue = TRUE /\ lease = None /\ leaseOver = FALSE
  /\ event = [v \in Versions |-> "none"]
  /\ pc = [t \in Tasks |-> "idle"]
  /\ reading = [t \in Tasks |-> 0]
  /\ unacked = [t \in Tasks |-> FALSE]
  /\ loaded = [t \in Tasks |-> FALSE]
  /\ note = [t \in Tasks |-> 0]
  /\ token = [t \in Tasks |-> None]
  /\ writer = "handler"
  /\ submits = 0 /\ faults = 0

Fault == faults < MaxFaults /\ faults' = faults + 1

\* The subscription lapses, is renewed or cancelled at Google.
GoogleChanges ==
  /\ google < MaxChanges
  /\ google' = google + 1
  /\ undelivered' = undelivered \cup {google + 1}
  /\ UNCHANGED <<acknowledged, rowVars, event, taskVars, writer, submits, faults>>

-----------------------------------------------------------------------------
(* Tasks.  The advisory lock on the purchase is held by a task that applies *)
(* its reading, the row by a worker that is about to.                       *)

Applying == {t \in Tasks : pc[t] = "applying"}
RowLocked == \E w \in Workers : pc[w] = "locked"
Reached(t, step) == pc' = [pc EXCEPT ![t] = step]

End(t) ==
  /\ pc' = [pc EXCEPT ![t] = "idle"]
  /\ reading' = [reading EXCEPT ![t] = 0]
  /\ unacked' = [unacked EXCEPT ![t] = FALSE]
  /\ loaded' = [loaded EXCEPT ![t] = FALSE]
  /\ note' = [note EXCEPT ![t] = 0]
  /\ token' = [token EXCEPT ![t] = None]

\* submit_purchase
Submit(h) ==
  /\ pc[h] = "idle" /\ submits < MaxSubmits /\ row # "deleted"
  /\ submits' = submits + 1
  /\ Reached(h, "fetch")
  /\ UNCHANGED <<googleVars, rowVars, event, reading, unacked, loaded, note, token, writer,
                 faults>>

\* receive_rtdn up to its first commit.  Pub/Sub delivers until it is answered, at
\* times once more.
Receive(h, v) ==
  /\ pc[h] = "idle"
  /\ IF v \in undelivered THEN UNCHANGED faults ELSE v \in 1..google /\ Fault
  /\ IF event[v] = "processed" \/ row # "kept"
     THEN /\ event' = [event EXCEPT ![v] = "processed"]
          /\ undelivered' = undelivered \ {v}
          /\ UNCHANGED taskVars
     ELSE /\ event' = [event EXCEPT ![v] = "open"]
          /\ Reached(h, "fetch")
          /\ note' = [note EXCEPT ![h] = v]
          /\ UNCHANGED <<undelivered, reading, unacked, loaded, token>>
  /\ UNCHANGED <<google, acknowledged, rowVars, writer, submits>>

\* Its notification, if it came with one, is answered.
Answered(h) == undelivered' = undelivered \ {note[h]}

\* fetch_play_purchase, and for a worker the exception it may raise
Fetch(t) ==
  /\ pc[t] = "fetch"
  /\ \/ /\ Reached(t, "fetched")
        /\ reading' = [reading EXCEPT ![t] = google]
        /\ unacked' = [unacked EXCEPT ![t] = ~acknowledged]
        /\ UNCHANGED <<loaded, note, token, faults>>
     \/ /\ Fault
        /\ IF t \in Workers
           THEN Reached(t, "failed") /\ UNCHANGED <<reading, unacked, loaded, note, token>>
           ELSE End(t)
  /\ UNCHANGED <<googleVars, rowVars, event, writer, submits>>

\* A handler's transaction: the advisory lock, then the row is read unlocked.
BeginApply(h) ==
  /\ h \in Handlers /\ pc[h] = "fetched"
  /\ Applying = {}
  /\ row = "kept" \/ (row = "none" /\ note[h] = 0)
  /\ Reached(h, "applying")
  /\ loaded' = [loaded EXCEPT ![h] = pending]
  /\ UNCHANGED <<googleVars, rowVars, event, reading, unacked, note, token, writer, submits,
                 faults>>

\* The organization was deleted: a notification has nothing to do, a purchase fails.
Gone(h) ==
  /\ h \in Handlers /\ pc[h] = "fetched" /\ row = "deleted"
  /\ Answered(h)
  /\ End(h)
  /\ UNCHANGED <<google, acknowledged, rowVars, event, writer, submits, faults>>

\* The object's attributes are written where they differ from what was loaded.
WrittenPending(t) == IF unacked[t] # loaded[t] THEN unacked[t] ELSE pending

AfterApply_Mutant(t) ==  \* a worker only verifies
  IF unacked[t] /\ t \in Handlers THEN "acknowledge" ELSE "finish"

AfterApply(t) == IF unacked[t] THEN "acknowledge" ELSE "finish"

\* apply_play_purchase and the handler's commit
CommitApply(h) ==
  /\ h \in Handlers /\ pc[h] = "applying"
  /\ row # "deleted" /\ ~RowLocked
  /\ row' = "kept"
  /\ applied' = reading[h]
  /\ writer' = "handler"
  /\ pending' = WrittenPending(h)
  /\ ackDue' = unacked[h]
  /\ Reached(h, AfterApply(h))
  /\ reading' = [reading EXCEPT ![h] = 0]
  /\ loaded' = [loaded EXCEPT ![h] = FALSE]
  /\ UNCHANGED <<googleVars, dueVars, event, unacked, note, token, submits, faults>>

Acknowledge_Mutant(t) ==  \* a worker's failure takes the handler's way
  /\ pc[t] = "acknowledge"
  /\ \/ acknowledged' = TRUE /\ Reached(t, "acknowledged") /\ UNCHANGED faults
     \/ /\ Fault
        /\ acknowledged' \in {acknowledged, TRUE}
        /\ Reached(t, "unacknowledged")
  /\ UNCHANGED <<google, undelivered, rowVars, event, reading, unacked, loaded, note, token,
                 writer, submits>>

\* GooglePlayClient.acknowledge, which may fail, also after Google took it
Acknowledge(t) ==
  /\ pc[t] = "acknowledge"
  /\ \/ acknowledged' = TRUE /\ Reached(t, "acknowledged") /\ UNCHANGED faults
     \/ /\ Fault
        /\ acknowledged' \in {acknowledged, TRUE}
        /\ Reached(t, IF t \in Workers THEN "failed" ELSE "unacknowledged")
  /\ UNCHANGED <<google, undelivered, rowVars, event, reading, unacked, loaded, note, token,
                 writer, submits>>

RecordAcknowledgement_Mutant(failed) ==  \* recorded whether the call failed or not
  IF row = "kept" THEN pending' = FALSE /\ ackDue' = FALSE
  ELSE UNCHANGED <<pending, ackDue>>

\* record_play_acknowledgement
RecordAcknowledgement(failed) ==
  IF row = "kept" THEN pending' = failed /\ ackDue' = FALSE
  ELSE UNCHANGED <<pending, ackDue>>

HandlerRecords(h) ==
  /\ h \in Handlers /\ pc[h] \in {"acknowledged", "unacknowledged"}
  /\ ~RowLocked
  /\ RecordAcknowledgement(pc[h] = "unacknowledged")
  /\ Reached(h, "finish")
  /\ UNCHANGED <<googleVars, row, applied, dueVars, event, reading, unacked, loaded, note,
                 token, writer, submits, faults>>

\* The request ends; a notification is marked as processed first.
MarkProcessed(h) ==
  /\ h \in Handlers /\ pc[h] = "finish"
  /\ event' = [v \in Versions |-> IF v = note[h] /\ v # 0 THEN "processed" ELSE event[v]]
  /\ Answered(h)
  /\ End(h)
  /\ UNCHANGED <<google, acknowledged, rowVars, writer, submits, faults>>

-----------------------------------------------------------------------------
(* Reconciliation.                                                          *)

Due_Mutant == pending /\ ackDue   \* only while an acknowledgement is missing
Due == verifyDue \/ (pending /\ ackDue)

\* Which of them is taken makes no difference.
FreshLeases == {l \in Leases \ {lease} : \A t \in Tasks : token[t] # l}

\* _claim_play_reconciliation, which skips a locked row
ClaimReconciliation(w) ==
  /\ pc[w] = "idle" /\ row = "kept" /\ Due /\ ~RowLocked
  /\ lease = None \/ leaseOver
  /\ FreshLeases # {}
  /\ lease' = CHOOSE l \in FreshLeases : TRUE
  /\ token' = [token EXCEPT ![w] = lease']
  /\ leaseOver' = FALSE
  /\ Reached(w, "fetch")
  /\ UNCHANGED <<googleVars, row, applied, pending, ackDue, verifyDue, event, reading,
                 unacked, loaded, note, writer, submits, faults>>

Holds_Mutant(w) == row = "kept"   \* the token is not compared
Holds(w) == row = "kept" /\ lease = token[w]

LockRow(w) ==
  /\ w \in Workers /\ pc[w] = "fetched"
  /\ ~RowLocked
  /\ IF Holds(w) THEN Reached(w, "locked") /\ UNCHANGED <<reading, unacked, loaded, note, token>>
     ELSE End(w)
  /\ UNCHANGED <<googleVars, rowVars, event, writer, submits, faults>>

WorkerApplies(w) ==
  /\ w \in Workers /\ pc[w] = "locked"
  /\ Applying = {}
  /\ applied' = reading[w]
  /\ writer' = "worker"
  /\ pending' = unacked[w]
  /\ ackDue' = unacked[w]
  /\ verifyDue' = FALSE
  /\ Reached(w, AfterApply(w))
  /\ reading' = [reading EXCEPT ![w] = 0]
  /\ UNCHANGED <<googleVars, row, lease, leaseOver, event, unacked, loaded, note, token,
                 submits, faults>>

FreeLease == lease' = None /\ leaseOver' = FALSE

\* The last transaction: an acknowledgement is recorded, the lease given back.
\* A verification that failed is repeated after ten minutes.
Conclude(w) ==
  /\ w \in Workers /\ pc[w] \in {"finish", "acknowledged", "failed"}
  /\ ~RowLocked
  /\ IF Holds(w)
     THEN /\ IF unacked[w] THEN RecordAcknowledgement(pc[w] = "failed")
             ELSE UNCHANGED <<pending, ackDue>>
          /\ verifyDue' = (verifyDue /\ pc[w] # "failed")
          /\ FreeLease
     ELSE UNCHANGED <<pending, ackDue, dueVars>>
  /\ End(w)
  /\ UNCHANGED <<googleVars, row, applied, event, writer, submits, faults>>

-----------------------------------------------------------------------------
(* Deadlock, death, time.                                                   *)

\* A handler has the advisory lock and waits for the row, a worker the reverse.
Deadlocked(h, w) == pc[h] = "applying" /\ pc[w] = "locked"

\* PostgreSQL fails one of them.
BreakDeadlock(h, w) ==
  /\ Deadlocked(h, w)
  /\ \/ End(h)
     \/ Reached(w, "failed") /\ UNCHANGED <<reading, unacked, loaded, note, token>>
  /\ UNCHANGED <<googleVars, rowVars, event, writer, submits, faults>>

Die(t) ==
  /\ pc[t] # "idle" /\ Fault
  /\ End(t)
  /\ UNCHANGED <<googleVars, rowVars, event, writer, submits>>

\* Its subscription row goes with the organization.
DeleteOrganization ==
  /\ row = "kept" /\ ~RowLocked /\ Applying = {}
  /\ row' = "deleted"
  /\ UNCHANGED <<googleVars, applied, pending, ackDue, dueVars, event, taskVars, writer,
                 submits, faults>>

VerificationDue ==
  /\ row = "kept" /\ ~verifyDue
  /\ verifyDue' = TRUE
  /\ UNCHANGED <<googleVars, row, applied, pending, ackDue, lease, leaseOver, event, taskVars,
                 writer, submits, faults>>

AcknowledgementDue ==
  /\ row = "kept" /\ pending /\ ~ackDue
  /\ ackDue' = TRUE
  /\ UNCHANGED <<googleVars, row, applied, pending, dueVars, event, taskVars, writer,
                 submits, faults>>

Abandoned == \A w \in Workers : token[w] # lease

\* Ten minutes after the claim; while its worker is still at it, that is a fault.
LeaseExpires ==
  /\ lease # None /\ ~leaseOver
  /\ IF Abandoned THEN UNCHANGED faults ELSE Fault
  /\ leaseOver' = TRUE
  /\ UNCHANGED <<googleVars, row, applied, pending, ackDue, verifyDue, lease, event, taskVars,
                 writer, submits>>

-----------------------------------------------------------------------------
HandlerStep(h) ==
  \/ Fetch(h) \/ BeginApply(h) \/ Gone(h) \/ CommitApply(h) \/ Acknowledge(h)
  \/ HandlerRecords(h) \/ MarkProcessed(h)

WorkerStep(w) ==
  \/ ClaimReconciliation(w) \/ Fetch(w) \/ LockRow(w) \/ WorkerApplies(w) \/ Acknowledge(w)
  \/ Conclude(w)

Next ==
  \/ \E h \in Handlers : Submit(h) \/ HandlerStep(h) \/ \E v \in Versions \ {0} : Receive(h, v)
  \/ \E w \in Workers : WorkerStep(w)
  \/ \E h \in Handlers, w \in Workers : BreakDeadlock(h, w)
  \/ \E t \in Tasks : Die(t)
  \/ GoogleChanges \/ DeleteOrganization \/ VerificationDue \/ AcknowledgementDue
  \/ LeaseExpires

Spec == Init /\ [][Next]_vars

\* Requests and the worker loop run on, Pub/Sub delivers, time passes, PostgreSQL
\* breaks deadlocks and grants a lock to who waits for it.  Nothing says when
\* Google changes or a request arrives.
Fairness ==
  /\ \A h \in Handlers :
       /\ WF_vars(HandlerStep(h) \/ \E w \in Workers : BreakDeadlock(h, w))
       /\ SF_vars(CommitApply(h))
  /\ \A w \in Workers : WF_vars(WorkerStep(w)) /\ SF_vars(WorkerApplies(w))
  /\ \A v \in Versions \ {0} :
       WF_vars(v \in undelivered /\ \E h \in Handlers : Receive(h, v))
  /\ WF_vars(VerificationDue) /\ WF_vars(AcknowledgementDue)
  /\ WF_vars(LeaseExpires /\ Abandoned)

FairSpec == Spec /\ Fairness

-----------------------------------------------------------------------------
CommonSteps == {"idle", "fetch", "fetched", "acknowledge", "acknowledged", "finish"}
HandlerSteps == CommonSteps \cup {"applying", "unacknowledged"}
WorkerSteps == CommonSteps \cup {"locked", "failed"}

TypeOK ==
  /\ google \in Versions /\ acknowledged \in BOOLEAN /\ undelivered \subseteq Versions
  /\ row \in {"none", "kept", "deleted"}
  /\ applied \in Versions
  /\ pending \in BOOLEAN /\ ackDue \in BOOLEAN
  /\ verifyDue \in BOOLEAN /\ leaseOver \in BOOLEAN
  /\ lease \in Leases \cup {None}
  /\ event \in [Versions -> {"none", "open", "processed"}]
  /\ pc \in [Tasks -> HandlerSteps \cup WorkerSteps]
  /\ \A h \in Handlers : pc[h] \in HandlerSteps
  /\ \A w \in Workers : pc[w] \in WorkerSteps
  /\ reading \in [Tasks -> Versions]
  /\ unacked \in [Tasks -> BOOLEAN] /\ loaded \in [Tasks -> BOOLEAN]
  /\ note \in [Tasks -> Versions]
  /\ token \in [Tasks -> Leases \cup {None}]
  /\ writer \in {"handler", "worker"}
  /\ submits \in 0..MaxSubmits /\ faults \in 0..MaxFaults

\* A purchase Google still waits to see acknowledged is marked as pending: however
\* readings and failures interleave, the retry is not lost and Google refunds nobody.
AcknowledgementNotForgotten == row = "kept" /\ ~acknowledged => pending

\* Readings can be applied in the opposite order of their taking; a worker puts
\* back an older one only over what a request wrote since, never over another
\* worker's: a worker whose lease was taken over writes nothing.
LateWorkerWritesNothing ==
  [][applied' < applied /\ writer' = "worker" => writer = "handler"]_vars

\* Whatever is lost, late or applied out of order, what is recorded of a
\* subscription agrees with Google in the end.
RecordConverges ==
  <>[](row # "kept" \/ applied = google)

\* A purchase that is recorded is acknowledged.
PurchaseAcknowledged == row = "kept" ~> (acknowledged \/ row # "kept")
-----------------------------------------------------------------------------
(* The properties as the run checks them.                                   *)

\* Types, and no purchase that waits for its acknowledgement is forgotten.
AcknowledgementPlanned == TypeOK /\ AcknowledgementNotForgotten

\* Whatever fails or comes late, the record ends up as Google's and the purchase
\* that is recorded acknowledged.
PurchaseSettles == RecordConverges /\ PurchaseAcknowledged
=============================================================================
