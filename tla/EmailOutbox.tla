---------------------------- MODULE EmailOutbox ----------------------------
(***************************************************************************)
(* Mail leaves through an outbox (app/modules/notifications): a message is *)
(* a row written by the transaction that calls for it, and workers         *)
(* (app/jobs/emails.py) claim rows under a lease, hand them to the mail    *)
(* service and write down how that went.  A worker may die at any step, a  *)
(* lease may run out under a slow one, and the answer of the mail service  *)
(* may be lost after it took the message.                                  *)
(*                                                                         *)
(* Definitions whose name ends in _Mutant are plausible bugs of the one    *)
(* that follows them; the runs' properties are shown to reject them.       *)
(***************************************************************************)
EXTENDS Naturals, FiniteSets

CONSTANTS
  Total,        \* messages 1..Total, numbered in the order they were created
  Workers,
  Batch,        \* messages claimed at once (20)
  Concurrency,  \* messages a worker delivers at once
  MaxAttempts,  \* worker_email_max_attempts
  MaxFaults     \* bound: deaths, leases overrun, answers lost

ASSUME OutboxAssumption ==
  /\ {Total, Batch, Concurrency, MaxAttempts} \subseteq Nat \ {0}
  /\ MaxFaults \in Nat
  /\ IsFiniteSet(Workers)

Messages == 1..Total

VARIABLES
  \* EmailOutbox: status, attempts, claim_token, next_attempt_at has come,
  \* claimed_at is older than the lease, the body is still there.  A claim
  \* token is the number of the claim, 0 for none.
  status, attempts, claim, due, overdue, body,
  \* each worker's deliveries: how far, and under which token
  stage, held,
  \* history: claims, copies the mail service took, answers lost, times a lease was
  \* lost, messages handed over without their text
  claims, copies, lost, reclaimed, blank,
  faults

rowVars == <<status, attempts, claim, due, overdue, body>>
deliveryVars == <<stage, held>>
history == <<claims, copies, lost, reclaimed, blank>>
outboxVars == <<rowVars, deliveryVars, history, faults>>

Statuses == {"none", "pending", "processing", "sent", "failed", "deleted"}
Settled == {"sent", "failed"}

OutboxInit ==
  /\ status \in [Messages -> {"none", "pending"}]
  /\ attempts = [m \in Messages |-> 0]
  /\ claim = [m \in Messages |-> 0]
  /\ due = [m \in Messages |-> TRUE]
  /\ overdue = [m \in Messages |-> FALSE]
  /\ body = [m \in Messages |-> "text"]
  /\ stage = [w \in Workers |-> [m \in Messages |-> "none"]]
  /\ held = [w \in Workers |-> [m \in Messages |-> 0]]
  /\ claims = [m \in Messages |-> 0]
  /\ copies = [m \in Messages |-> 0]
  /\ lost = [m \in Messages |-> 0]
  /\ reclaimed = [m \in Messages |-> 0]
  /\ blank = {}
  /\ faults = 0

-----------------------------------------------------------------------------
\* queue_email, in a transaction that commits
QueueEmail(m) ==
  /\ status[m] = "none"
  /\ status' = [status EXCEPT ![m] = "pending"]
  /\ UNCHANGED <<attempts, claim, due, overdue, body, deliveryVars, history, faults>>

Unreclaimed_Mutant == {m \in Messages : status[m] = "pending" /\ due[m]}

Claimable_Mutant == {m \in Messages :  \* leases are ignored
  (status[m] = "pending" /\ due[m]) \/ status[m] = "processing"}

Claimable == {m \in Messages :
  (status[m] = "pending" /\ due[m]) \/ (status[m] = "processing" /\ overdue[m])}

\* The oldest of them, up to a batch.
Oldest == {m \in Claimable : Cardinality({n \in Claimable : n < m}) < Batch}

Idle(w) == \A m \in Messages : stage[w][m] = "none"

\* _claim_email_batch.  A worker begins a batch when it is done with the last.
ClaimBatch(w) ==
  /\ Idle(w) /\ Oldest # {}
  /\ claims' = [m \in Messages |-> IF m \in Oldest THEN claims[m] + 1 ELSE claims[m]]
  /\ claim' = [m \in Messages |-> IF m \in Oldest THEN claims'[m] ELSE claim[m]]
  /\ held' = [held EXCEPT ![w] =
                [m \in Messages |-> IF m \in Oldest THEN claims'[m] ELSE 0]]
  /\ stage' = [stage EXCEPT ![w] =
                 [m \in Messages |-> IF m \in Oldest THEN "claimed" ELSE "none"]]
  /\ status' = [m \in Messages |-> IF m \in Oldest THEN "processing" ELSE status[m]]
  /\ overdue' = [m \in Messages |-> m \notin Oldest /\ overdue[m]]
  /\ reclaimed' = [m \in Messages |->
                     IF m \in Oldest /\ overdue[m] THEN reclaimed[m] + 1
                     ELSE reclaimed[m]]
  /\ UNCHANGED <<attempts, due, body, copies, lost, blank, faults>>

Sending(w) == {m \in Messages : stage[w][m] \notin {"none", "claimed"}}

EndDelivery(w, m) ==
  /\ stage' = [stage EXCEPT ![w][m] = "none"]
  /\ held' = [held EXCEPT ![w][m] = 0]

Reached(w, m, step) ==
  /\ stage' = [stage EXCEPT ![w][m] = step]
  /\ UNCHANGED held

\* The row is still processing, under this delivery's token.
Owned(w, m) == status[m] = "processing" /\ claim[m] = held[w][m]

\* _load_email_message: waits for the semaphore, gives up a lost lease.
Load(w, m) ==
  /\ stage[w][m] = "claimed"
  /\ Cardinality(Sending(w)) < Concurrency
  /\ IF Owned(w, m)
     THEN /\ Reached(w, m, IF body[m] = "text" THEN "loaded" ELSE "blank")
     ELSE EndDelivery(w, m)
  /\ UNCHANGED <<rowVars, history, faults>>

\* The mail service takes the message, or refuses it.
Send(w, m) ==
  /\ stage[w][m] \in {"loaded", "blank"}
  /\ blank' = IF stage[w][m] = "blank" THEN blank \cup {m} ELSE blank
  /\ \/ /\ Reached(w, m, "accepted")
        /\ copies' = [copies EXCEPT ![m] = @ + 1]
     \/ /\ Reached(w, m, "error")
        /\ UNCHANGED copies
  /\ UNCHANGED <<rowVars, claims, lost, reclaimed, faults>>

Fault == faults < MaxFaults /\ faults' = faults + 1

\* It takes the message and its answer is lost.
SendUnanswered(w, m) ==
  /\ stage[w][m] \in {"loaded", "blank"}
  /\ Fault
  /\ Reached(w, m, "error")
  /\ copies' = [copies EXCEPT ![m] = @ + 1]
  /\ lost' = [lost EXCEPT ![m] = @ + 1]
  /\ UNCHANGED <<rowVars, claims, reclaimed, blank>>

Exhausted_Mutant(m) == attempts[m] + 1 > MaxAttempts   \* one attempt too many
GivenUpEarly_Mutant(m) == attempts[m] + 2 >= MaxAttempts   \* one too few
Exhausted(m) == attempts[m] + 1 >= MaxAttempts

Swallowed_Mutant(w, m) ==  \* an error passes for success
  /\ status' = [status EXCEPT ![m] = "sent"]
  /\ UNCHANGED <<attempts, due>>

Outcome(w, m) ==
  \/ /\ stage[w][m] = "accepted"
     /\ status' = [status EXCEPT ![m] = "sent"]
     /\ UNCHANGED <<attempts, due>>
  \/ /\ stage[w][m] = "error"
     /\ attempts' = [attempts EXCEPT ![m] = @ + 1]
     /\ status' = [status EXCEPT ![m] = IF Exhausted(m) THEN "failed" ELSE "pending"]
     /\ due' = [due EXCEPT ![m] = FALSE]

\* _finish_email
FinishEmail(w, m) ==
  /\ stage[w][m] \in {"accepted", "error"}
  /\ EndDelivery(w, m)
  /\ IF Owned(w, m)
     THEN /\ Outcome(w, m)
          /\ claim' = [claim EXCEPT ![m] = 0]
          /\ overdue' = [overdue EXCEPT ![m] = FALSE]
     ELSE UNCHANGED <<status, attempts, claim, due, overdue>>
  /\ UNCHANGED <<body, history, faults>>

\* The process dies, or its transaction fails, and leaves rows claimed.
Die(w) ==
  /\ ~Idle(w) /\ Fault
  /\ stage' = [stage EXCEPT ![w] = [m \in Messages |-> "none"]]
  /\ held' = [held EXCEPT ![w] = [m \in Messages |-> 0]]
  /\ UNCHANGED <<rowVars, history>>

-----------------------------------------------------------------------------
(* Time and retention.                                                      *)

BackoffElapses(m) ==
  /\ status[m] = "pending" /\ ~due[m]
  /\ due' = [due EXCEPT ![m] = TRUE]
  /\ UNCHANGED <<status, attempts, claim, overdue, body, deliveryVars, history, faults>>

Abandoned(m) == \A w \in Workers : held[w][m] # claim[m]

\* Ten minutes after the claim; while its worker is still at it, that is a fault.
LeaseExpires(m) ==
  /\ status[m] = "processing" /\ ~overdue[m]
  /\ IF Abandoned(m) THEN UNCHANGED faults ELSE Fault
  /\ overdue' = [overdue EXCEPT ![m] = TRUE]
  /\ UNCHANGED <<status, attempts, claim, due, body, deliveryVars, history>>

Redactable_Mutant(m) == status[m] \notin {"none", "deleted"}   \* by age alone
Redactable(m) == status[m] \in Settled

\* cleanup_expired_records: the text of a settled message goes after a day, the
\* row after thirty.
Redact(m) ==
  /\ Redactable(m) /\ body[m] = "text"
  /\ body' = [body EXCEPT ![m] = "redacted"]
  /\ UNCHANGED <<status, attempts, claim, due, overdue, deliveryVars, history, faults>>

Delete(m) ==
  /\ status[m] \in Settled
  /\ status' = [status EXCEPT ![m] = "deleted"]
  /\ UNCHANGED <<attempts, claim, due, overdue, body, deliveryVars, history, faults>>

-----------------------------------------------------------------------------
Deliver(w) == \E m \in Messages : Load(w, m) \/ Send(w, m) \/ FinishEmail(w, m)

OutboxNext ==
  \/ \E w \in Workers : ClaimBatch(w) \/ Deliver(w) \/ Die(w)
  \/ \E w \in Workers, m \in Messages : SendUnanswered(w, m)
  \/ \E m \in Messages :
       \/ QueueEmail(m) \/ BackoffElapses(m) \/ LeaseExpires(m) \/ Redact(m) \/ Delete(m)

OutboxSpec == OutboxInit /\ [][OutboxNext]_outboxVars

\* The worker loop runs on, and time passes.
OutboxFairness ==
  /\ \A w \in Workers : WF_outboxVars(ClaimBatch(w)) /\ WF_outboxVars(Deliver(w))
  /\ \A m \in Messages : WF_outboxVars(BackoffElapses(m))
                         /\ WF_outboxVars(LeaseExpires(m) /\ Abandoned(m))

FairOutboxSpec == OutboxSpec /\ OutboxFairness

-----------------------------------------------------------------------------
OutboxTypeOK ==
  /\ status \in [Messages -> Statuses]
  /\ attempts \in [Messages -> 0..MaxAttempts]
  /\ claim \in [Messages -> Nat] /\ claims \in [Messages -> Nat]
  /\ due \in [Messages -> BOOLEAN] /\ overdue \in [Messages -> BOOLEAN]
  /\ body \in [Messages -> {"text", "redacted"}]
  /\ stage \in [Workers ->
                 [Messages -> {"none", "claimed", "loaded", "blank", "accepted", "error"}]]
  /\ held \in [Workers -> [Messages -> Nat]]
  /\ copies \in [Messages -> Nat] /\ lost \in [Messages -> Nat]
  /\ reclaimed \in [Messages -> Nat]
  /\ blank \subseteq Messages
  /\ faults \in 0..MaxFaults

\* A message goes out twice only where that cannot be helped: for each extra copy
\* an answer was lost or a lease was taken over.
CopiesExplained == \A m \in Messages : copies[m] <= 1 + lost[m] + reclaimed[m]

\* At least once: a row marked sent was taken by the mail service.
SentWasTaken == \A m \in Messages : status[m] = "sent" => copies[m] > 0

\* A message given up was refused each time it was tried; if the service took it
\* all the same, an answer was lost or a lease was taken over.
FailedWasRefused ==
  \A m \in Messages : status[m] = "failed" =>
    /\ attempts[m] = MaxAttempts
    /\ copies[m] <= lost[m] + reclaimed[m]

\* Retention never takes the text of a message that may still have to be sent.
NoBlankMail == blank = {}

\* Every message queued is sent or given up, through deaths and lost leases.
MessagesSettle == \A m \in Messages : status[m] = "pending" ~> status[m] \in Settled
-----------------------------------------------------------------------------
(* The properties as the run checks them.                                   *)

\* What a row says of its message is true, and no text is lost before it is sent.
OutcomesAreTrue == OutboxTypeOK /\ SentWasTaken /\ FailedWasRefused /\ NoBlankMail
=============================================================================
