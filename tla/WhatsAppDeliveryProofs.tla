----------------------- MODULE WhatsAppDeliveryProofs -----------------------
(* Proofs about WhatsAppDelivery: types and the retry bound, that a waiting *)
(* delivery has a job, that an ambiguous outcome is final, and that every   *)
(* message the provider takes is accounted for.                             *)
EXTENDS WhatsAppDelivery, FiniteSetTheorems, TLAPS

\* What a running attempt carries.
AttemptOK ==
  \A w \in Workers :
    /\ pc[w] # "idle" => target[w] \in Deliveries /\ token[w] \in Tokens
    /\ pc[w] = "finish" => outcome[w] # "none"

\* A job that may still be attempted has an attempt left.
BudgetOK ==
  \A d \in Deliveries :
    \/ leaseToken[d] # None
    \/ job[d] \in Open
    \/ row[d] \in {"none", "asked"}
    => attempts[d] < MaxAttempts

\* Rows come and go together, and only callbacks settle a job under a lease.
JobOK ==
  \A d \in Deliveries :
    /\ row[d] # "queued" => job[d] = "none" /\ leaseToken[d] = None
    /\ job[d] = "unknown" => leaseToken[d] = None

IInv == TypeOK /\ AttemptOK /\ BudgetOK /\ JobOK /\ WaitingHasJob

-----------------------------------------------------------------------------
LEMMA InitIInv == Init => IInv
<1> SUFFICES ASSUME Init PROVE IInv
  OBVIOUS
<1> USE ConstantsAssumption DEF Init, Document!Init, Statuses, Open, Confirmed, Callbacks
<1>1. /\ row \in [Deliveries -> {"none", "asked", "queued", "deleted"}]
      /\ latest \in Deliveries \cup {None}
      /\ seen \in [Deliveries -> Deliveries \cup {None}]
      /\ delivery \in [Deliveries -> Statuses]
      /\ job \in [Deliveries -> Statuses \cup {"none"}]
      /\ attempts \in [Deliveries -> 0..MaxAttempts]
      /\ due \in [Deliveries -> BOOLEAN]
  OBVIOUS
<1>2. /\ lease \in [Deliveries -> {"none", "held", "expired"}]
      /\ leaseToken \in [Deliveries -> Tokens \cup {None}]
      /\ pc \in [Workers -> {"idle", "claimed", "loaded", "cleared", "deferred", "finish"}]
      /\ target \in [Workers -> Deliveries \cup {None}]
      /\ token \in [Workers -> Tokens \cup {None}]
      /\ outcome \in [Workers -> {"none", "accepted", "unknown", "failed", "retry"}]
  OBVIOUS
<1>3. /\ messages \in [Deliveries -> Nat]
      /\ reported \in [Deliveries -> SUBSET Callbacks]
      /\ pdf \in {"pending", "ready", "failed"}
      /\ faults \in 0..MaxFaults /\ overruns \in 0..MaxOverruns
  OBVIOUS
<1>4. suppressed \in BOOLEAN /\ keyed \in BOOLEAN
  OBVIOUS
<1>5. TypeOK
  BY <1>1, <1>2, <1>3, <1>4 DEF TypeOK
<1>6. AttemptOK /\ BudgetOK /\ JobOK /\ WaitingHasJob
  BY DEF AttemptOK, BudgetOK, JobOK, WaitingHasJob
<1> QED
  BY <1>5, <1>6 DEF IInv

LEMMA IInvStep == IInv /\ [Next]_vars => IInv'
<1> SUFFICES ASSUME IInv, [Next]_vars PROVE IInv'
  OBVIOUS
<1> USE ConstantsAssumption
    DEF IInv, TypeOK, AttemptOK, BudgetOK, JobOK, WaitingHasJob,
        Statuses, Open, Confirmed, Callbacks,
        rowVars, jobVars, attemptVars, providerVars, documentVars, boundVars
<1>1. ASSUME NEW d \in Deliveries, Ask(d)
      PROVE  IInv'
  BY <1>1 DEF Ask
<1>2. ASSUME NEW d \in Deliveries, Queue(d)
      PROVE  IInv'
  <2>1. attempts[d] < MaxAttempts /\ job[d] = "none" /\ leaseToken[d] = None
    BY <1>2 DEF Queue
  <2>2. latest' \in {d, latest}
    BY <1>2 DEF Queue
  <2>3. latest' \in Deliveries \cup {None}
    BY <2>2
  <2>4. suppressed' \in BOOLEAN
    BY <1>2 DEF Queue
  <2>5. /\ row' = [row EXCEPT ![d] = "queued"]
        /\ job' = [job EXCEPT ![d] = "pending"]
        /\ UNCHANGED <<seen, delivery, attempts, due, lease, leaseToken, attemptVars,
                       providerVars, documentVars, boundVars>>
    BY <1>2 DEF Queue
  <2>6. TypeOK'
    BY <2>3, <2>4, <2>5
  <2>7. AttemptOK' /\ BudgetOK' /\ JobOK' /\ WaitingHasJob'
    BY <2>1, <2>5
  <2> QED
    BY <2>6, <2>7
<1>3. ASSUME NEW w \in Workers, NEW d \in Deliveries, NEW t \in Tokens, Claim(w, d, t)
      PROVE  IInv'
  BY <1>3 DEF Claim, Claimable
<1>4. ASSUME NEW w \in Workers, Load(w)
      PROVE  IInv'
  BY <1>4 DEF Load, Conclude, Goto
<1>5. ASSUME NEW w \in Workers, CheckSuppression(w)
      PROVE  IInv'
  BY <1>5 DEF CheckSuppression, Conclude, Goto
<1>6. ASSUME NEW w \in Workers, Send(w)
      PROVE  IInv'
  BY <1>6 DEF Send, Conclude
<1>7. ASSUME NEW w \in Workers, SendFails(w)
      PROVE  IInv'
  BY <1>7 DEF SendFails, Conclude
<1>8. ASSUME NEW w \in Workers, Defer(w)
      PROVE  IInv'
  <2> DEFINE d == target[w]
  <2>1. CASE ~Owns(w)
    BY <1>8, <2>1 DEF Defer, End, Owns, Runs
  <2>2. CASE Owns(w)
    <3>1. /\ d \in Deliveries /\ leaseToken[d] # None
          /\ attempts[d] < MaxAttempts /\ row[d] = "queued"
      BY <1>8, <2>2 DEF Defer, Owns, Runs
    <3>2. /\ job' = [job EXCEPT ![d] = "pending"]
          /\ due' = [due EXCEPT ![d] = FALSE]
          /\ lease' = [lease EXCEPT ![d] = "none"]
          /\ leaseToken' = [leaseToken EXCEPT ![d] = None]
          /\ UNCHANGED <<delivery, attempts, rowVars, suppressed, providerVars,
                         documentVars, boundVars>>
      BY <1>8, <2>2 DEF Defer, Owns, Runs
    <3>3. /\ pc' = [pc EXCEPT ![w] = "idle"]
          /\ target' = [target EXCEPT ![w] = None]
          /\ token' = [token EXCEPT ![w] = None]
          /\ outcome' = [outcome EXCEPT ![w] = "none"]
      BY <1>8 DEF Defer, End
    <3>4. TypeOK'
      BY <3>1, <3>2, <3>3
    <3>5. AttemptOK' /\ BudgetOK' /\ JobOK' /\ WaitingHasJob'
      BY <3>1, <3>2, <3>3
    <3> QED
      BY <3>4, <3>5
  <2> QED
    BY <2>1, <2>2
<1>9. ASSUME NEW w \in Workers, Finish(w)
      PROVE  IInv'
  <2> DEFINE d == target[w]
  <2>1. CASE ~Owns(w)
    BY <1>9, <2>1 DEF Finish, End, Owns, Runs
  <2>2. CASE Owns(w)
    <3>1. /\ d \in Deliveries /\ leaseToken[d] # None
          /\ attempts[d] < MaxAttempts /\ row[d] = "queued"
          /\ outcome[w] \in {"accepted", "unknown", "failed", "retry"}
      BY <1>9, <2>2 DEF Finish, Owns, Runs
    <3>2. Settle(d, outcome[w])
      BY <1>9, <2>2 DEF Finish
    <3> DEFINE again == outcome[w] = "retry" /\ attempts[d] + 1 < MaxAttempts
               final == IF again THEN "pending"
                        ELSE IF outcome[w] = "retry" THEN "failed" ELSE outcome[w]
    <3>3. /\ job' = [job EXCEPT ![d] = final]
          /\ delivery' = [delivery EXCEPT ![d] = final]
          /\ due' = [due EXCEPT ![d] = ~again]
      BY <3>2 DEF Settle
    <3>4. /\ final \in {"pending", "failed", "accepted", "unknown"}
          /\ final = "pending" => attempts[d] + 1 < MaxAttempts
      BY <3>1
    <3>5. PICK f \in {"pending", "failed", "accepted", "unknown"} :
            /\ f = "pending" => attempts[d] + 1 < MaxAttempts
            /\ job' = [job EXCEPT ![d] = f]
            /\ delivery' = [delivery EXCEPT ![d] = f]
      BY <3>3, <3>4
    <3>6. /\ attempts' = [attempts EXCEPT ![d] = @ + 1]
          /\ lease' = [lease EXCEPT ![d] = "none"]
          /\ leaseToken' = [leaseToken EXCEPT ![d] = None]
          /\ UNCHANGED <<rowVars, suppressed, providerVars, documentVars, boundVars>>
      BY <1>9, <2>2 DEF Finish, Settle, Owns, Runs
    <3>7. /\ pc' = [pc EXCEPT ![w] = "idle"]
          /\ target' = [target EXCEPT ![w] = None]
          /\ token' = [token EXCEPT ![w] = None]
          /\ outcome' = [outcome EXCEPT ![w] = "none"]
      BY <1>9 DEF Finish, End
    <3>8. /\ job' \in [Deliveries -> Statuses \cup {"none"}]
          /\ delivery' \in [Deliveries -> Statuses]
      BY <3>1, <3>5
    <3>9. attempts' \in [Deliveries -> 0..MaxAttempts]
      BY <3>1, <3>6
    <3>10. due' \in [Deliveries -> BOOLEAN]
      BY <3>3
    <3>11. TypeOK'
      BY <3>1, <3>6, <3>7, <3>8, <3>9, <3>10
    <3>12. AttemptOK' /\ BudgetOK' /\ JobOK' /\ WaitingHasJob'
      BY <3>1, <3>5, <3>6, <3>7
    <3> QED
      BY <3>11, <3>12
  <2> QED
    BY <2>1, <2>2
<1>10. ASSUME NEW w \in Workers, Crash(w)
       PROVE  IInv'
  BY <1>10 DEF Crash, End
<1>11. ASSUME NEW d \in Deliveries, LeaseExpires(d)
       PROVE  IInv'
  BY <1>11 DEF LeaseExpires
<1>12. ASSUME NEW d \in Deliveries, BackoffElapses(d)
       PROVE  IInv'
  BY <1>12 DEF BackoffElapses
<1>13. ASSUME NEW d \in Deliveries, NEW s \in Callbacks, Report(d, s)
       PROVE  IInv'
  BY <1>13 DEF Report
<1>14. ASSUME NEW d \in Deliveries, NEW s \in Callbacks, Callback(d, s)
       PROVE  IInv'
  <2>1. /\ row[d] = "queued"
        /\ delivery' = [delivery EXCEPT ![d] = s] /\ job' = [job EXCEPT ![d] = s]
        /\ suppressed' \in BOOLEAN
        /\ UNCHANGED <<attempts, due, lease, leaseToken, rowVars, attemptVars,
                       providerVars, documentVars, boundVars>>
    BY <1>14 DEF Callback, Record
  <2>2. s \in {"sent", "delivered", "read", "failed"}
    OBVIOUS
  <2>3. TypeOK'
    BY <2>1, <2>2
  <2>4. AttemptOK' /\ BudgetOK' /\ JobOK' /\ WaitingHasJob'
    BY <2>1, <2>2
  <2> QED
    BY <2>3, <2>4
<1>15. CASE OptOut
  BY <1>15 DEF OptOut
<1>16. CASE DocumentStep
  BY <1>16 DEF DocumentStep, Document!Next, Document!Record, Document!Mark, Document!Forget
<1>17. CASE DeleteRows
  BY <1>17 DEF DeleteRows
<1>18. CASE UNCHANGED vars
  BY <1>18 DEF vars
<1> HIDE DEF IInv, TypeOK, AttemptOK, BudgetOK, JobOK, WaitingHasJob,
             Statuses, Open, Confirmed, Callbacks,
             rowVars, jobVars, attemptVars, providerVars, documentVars, boundVars
<1> QED
  BY <1>1, <1>2, <1>3, <1>4, <1>5, <1>6, <1>7, <1>8, <1>9, <1>10, <1>11, <1>12,
     <1>13, <1>14, <1>15, <1>16, <1>17, <1>18
  DEF Next, WorkerStep, DeliveryStep

LEMMA Invariance == Spec => []IInv
BY InitIInv, IInvStep, PTL DEF Spec

\* Types hold whatever the workers, callbacks and expired leases do; attempts
\* never exceed worker_whatsapp_max_attempts (_finish_delivery).
THEOREM TypeCorrectness == Spec => []TypeOK
BY Invariance, PTL DEF IInv

\* A delivery that still blocks further requests for its sale's invoice has a
\* job row the worker will pick up (_finish_delivery and _record_status always
\* write the two rows alike).
THEOREM WaitingIsServed == Spec => []WaitingHasJob
BY Invariance, PTL DEF IInv

-----------------------------------------------------------------------------
(* An ambiguous outcome.                                                     *)

\* One step never makes an unknown job claimable.
LEMMA UnknownStep ==
  ASSUME IInv, [Next]_vars, NEW c \in Deliveries, job[c] = "unknown"
  PROVE  job'[c] \notin Open
<1>1. row[c] = "queued" /\ leaseToken[c] = None /\ job[c] \notin Open
  BY DEF IInv, JobOK, Open
<1> USE ConstantsAssumption
    DEF IInv, TypeOK, AttemptOK, Open, Confirmed, Callbacks, Statuses, jobVars, rowVars
<1>2. ASSUME UNCHANGED job
      PROVE  job'[c] \notin Open
  BY <1>1, <1>2
<1>3. ASSUME NEW d \in Deliveries, Queue(d)
      PROVE  job'[c] \notin Open
  BY <1>1, <1>3 DEF Queue
<1>4. ASSUME NEW w \in Workers, NEW d \in Deliveries, NEW t \in Tokens, Claim(w, d, t)
      PROVE  job'[c] \notin Open
  BY <1>1, <1>4 DEF Claim, Claimable
<1>5. ASSUME NEW w \in Workers, Owns(w)
      PROVE  target[w] \in Deliveries /\ target[w] # c
  BY <1>1, <1>5 DEF Owns, Runs
<1>6. ASSUME NEW w \in Workers, Defer(w)
      PROVE  job'[c] \notin Open
  BY <1>1, <1>5, <1>6 DEF Defer
<1>7. ASSUME NEW w \in Workers, Finish(w)
      PROVE  job'[c] \notin Open
  BY <1>1, <1>5, <1>7 DEF Finish, Settle
<1>8. ASSUME NEW d \in Deliveries, NEW s \in Callbacks, Callback(d, s)
      PROVE  job'[c] \notin Open
  BY <1>1, <1>8 DEF Callback, Record
<1>9. ASSUME DeleteRows
      PROVE  job'[c] \notin Open
  BY <1>9 DEF DeleteRows
<1> HIDE DEF IInv, TypeOK, AttemptOK, Open, Confirmed, Callbacks, Statuses
<1>10. ASSUME NEW w \in Workers, WorkerStep(w)
       PROVE  job'[c] \notin Open
  BY <1>2, <1>6, <1>7, <1>10
  DEF WorkerStep, Load, CheckSuppression, Send, SendFails, Crash
<1>11. ASSUME NEW d \in Deliveries, DeliveryStep(d)
       PROVE  job'[c] \notin Open
  BY <1>2, <1>3, <1>8, <1>11
  DEF DeliveryStep, Ask, LeaseExpires, BackoffElapses, Report
<1>12. CASE OptOut \/ DocumentStep \/ UNCHANGED vars
  BY <1>2, <1>12 DEF OptOut, DocumentStep, vars
<1> QED
  BY <1>4, <1>9, <1>10, <1>11, <1>12 DEF Next

\* An outcome _finish_delivery recorded as unknown is final for the worker,
\* whatever attempts, expired leases and callbacks race.
THEOREM UnknownIsFinal == Spec => UnknownIsNotRetried
<1>1. IInv /\ [Next]_vars =>
        [\A d \in Deliveries : job[d] = "unknown" => job'[d] \notin Open]_vars
  BY UnknownStep
<1> QED
  BY <1>1, Invariance, PTL DEF Spec, UnknownIsNotRetried

-----------------------------------------------------------------------------
(* The messages the provider took, counted.                                 *)

Sending == {"claimed", "loaded", "cleared"}

\* Attempts whose message is paid for by a fault: those that lost the job and may
\* still send, and the one that runs on after its lease.
Risk(d) ==
  {w \in Workers :
     /\ target[w] = d
     /\ \/ pc[w] \in Sending /\ token[w] # leaseToken[d]
        \/ pc[w] # "idle" /\ token[w] = leaseToken[d] /\ lease[d] = "expired"}

\* The attempt whose outcome is about to be counted.
Done(d) == {w \in Workers : pc[w] = "finish" /\ Runs(w, d)}

Paid(d) ==
  messages[d] + Cardinality(Risk(d))
    <= attempts[d] + faults + overruns + Cardinality(Done(d))

\* No two attempts carry the same token.
TokensDiffer ==
  \A v, w \in Workers :
    pc[v] # "idle" /\ pc[w] # "idle" /\ token[v] = token[w] => v = w

\* Nobody has worked on a delivery before it is queued, nobody on a pending job.
UntouchedOK ==
  \A d \in Deliveries :
    /\ row[d] \in {"none", "asked"} =>
         messages[d] = 0 /\ \A w \in Workers : target[w] # d
    /\ job[d] = "pending" => leaseToken[d] = None

PaidOK == \A d \in Deliveries : row[d] = "queued" => Paid(d)

AccountOK == TokensDiffer /\ UntouchedOK /\ PaidOK

-----------------------------------------------------------------------------
\* Sets of attempts that gain or lose one.
LEMMA Counting ==
  ASSUME NEW S \in SUBSET Workers, NEW T \in SUBSET Workers, NEW w \in Workers
  PROVE  /\ Cardinality(S) \in Nat /\ Cardinality(T) \in Nat
         /\ S \subseteq T => Cardinality(S) <= Cardinality(T)
         /\ S \subseteq T \cup {w} => Cardinality(S) <= Cardinality(T) + 1
         /\ w \in T /\ S \subseteq T \ {w} => Cardinality(S) + 1 <= Cardinality(T)
<1>1. IsFiniteSet(S) /\ IsFiniteSet(T)
  BY FS_Subset, ConstantsAssumption
<1>2. Cardinality(S) \in Nat /\ Cardinality(T) \in Nat
  BY <1>1, FS_CardinalityType
<1>3. S \subseteq T => Cardinality(S) <= Cardinality(T)
  BY <1>1, FS_Subset
<1>4. ASSUME S \subseteq T \cup {w} PROVE Cardinality(S) <= Cardinality(T) + 1
  <2>1. IsFiniteSet(T \cup {w}) /\ Cardinality(T \cup {w}) \in {Cardinality(T), Cardinality(T) + 1}
    BY <1>1, FS_AddElement
  <2>2. Cardinality(S) <= Cardinality(T \cup {w})
    BY <1>4, <2>1, FS_Subset
  <2> QED
    BY <1>2, <2>1, <2>2
<1>5. ASSUME w \in T, S \subseteq T \ {w} PROVE Cardinality(S) + 1 <= Cardinality(T)
  <2>1. IsFiniteSet(T \ {w}) /\ Cardinality(T \ {w}) = Cardinality(T) - 1
    BY <1>1, <1>5, FS_RemoveElement
  <2>2. Cardinality(S) <= Cardinality(T \ {w})
    BY <1>5, <2>1, FS_Subset
  <2> QED
    BY <1>2, <2>1, <2>2
<1> QED
  BY <1>2, <1>3, <1>4, <1>5

LEMMA Numbers ==
  ASSUME TypeOK, TypeOK', NEW d \in Deliveries
  PROVE  /\ messages[d] \in Nat /\ messages'[d] \in Nat
         /\ attempts[d] \in Nat /\ attempts'[d] \in Nat
         /\ faults \in Nat /\ faults' \in Nat /\ overruns \in Nat /\ overruns' \in Nat
BY ConstantsAssumption DEF TypeOK

LEMMA Sets ==
  ASSUME NEW d \in Deliveries
  PROVE  /\ Risk(d) \in SUBSET Workers /\ Risk(d)' \in SUBSET Workers
         /\ Done(d) \in SUBSET Workers /\ Done(d)' \in SUBSET Workers
BY DEF Risk, Done

\* Nobody more at risk, nobody less about to be counted.
LEMMA PaidStays ==
  ASSUME TypeOK, TypeOK', NEW d \in Deliveries, Paid(d),
         Risk(d)' \subseteq Risk(d), Done(d) \subseteq Done(d)',
         messages'[d] = messages[d],
         attempts'[d] >= attempts[d], faults' >= faults, overruns' >= overruns
  PROVE  Paid(d)'
<1>1. Cardinality(Risk(d)') <= Cardinality(Risk(d)) /\ Cardinality(Done(d)) <= Cardinality(Done(d)')
  <2>1. CASE Workers = {}
    <3>1. Risk(d)' = Risk(d) /\ Done(d)' = Done(d)
      BY <2>1 DEF Risk, Done
    <3>2. Cardinality(Risk(d)) \in Nat /\ Cardinality(Done(d)) \in Nat
      BY Sets, FS_Subset, FS_CardinalityType, ConstantsAssumption
    <3> QED
      BY <3>1, <3>2
  <2>2. ASSUME NEW w \in Workers
        PROVE  /\ Cardinality(Risk(d)') <= Cardinality(Risk(d))
               /\ Cardinality(Done(d)) <= Cardinality(Done(d)')
    BY Sets, Counting
  <2> QED
    BY <2>1, <2>2
<1>2. /\ Cardinality(Risk(d)) \in Nat /\ Cardinality(Done(d)) \in Nat
      /\ Cardinality(Risk(d)') \in Nat /\ Cardinality(Done(d)') \in Nat
  BY Sets, FS_Subset, FS_CardinalityType, ConstantsAssumption
<1> QED
  BY <1>1, <1>2, Numbers DEF Paid

\* One more cause recorded pays for one attempt at risk or no longer counted.
LEMMA PaidByCause ==
  ASSUME TypeOK, TypeOK', NEW d \in Deliveries, Paid(d), NEW w \in Workers,
         messages'[d] = messages[d],
         attempts'[d] + faults' + overruns' = attempts[d] + faults + overruns + 1,
         \/ Risk(d)' \subseteq Risk(d) /\ Done(d) \subseteq Done(d)' \cup {w}
         \/ Risk(d)' \subseteq Risk(d) \cup {w} /\ Done(d) \subseteq Done(d)'
  PROVE  Paid(d)'
<1>1. /\ Cardinality(Risk(d)) \in Nat /\ Cardinality(Done(d)) \in Nat
      /\ Cardinality(Risk(d)') \in Nat /\ Cardinality(Done(d)') \in Nat
  BY Sets, FS_Subset, FS_CardinalityType, ConstantsAssumption
<1>2. Cardinality(Risk(d)') + Cardinality(Done(d))
        <= Cardinality(Risk(d)) + Cardinality(Done(d)') + 1
  <2>1. CASE Risk(d)' \subseteq Risk(d) /\ Done(d) \subseteq Done(d)' \cup {w}
    <3>1. Cardinality(Risk(d)') <= Cardinality(Risk(d))
      BY <2>1, Sets, Counting
    <3>2. Cardinality(Done(d)) <= Cardinality(Done(d)') + 1
      BY <2>1, Sets, Counting
    <3> QED
      BY <1>1, <3>1, <3>2
  <2>2. CASE Risk(d)' \subseteq Risk(d) \cup {w} /\ Done(d) \subseteq Done(d)'
    <3>1. Cardinality(Risk(d)') <= Cardinality(Risk(d)) + 1
      BY <2>2, Sets, Counting
    <3>2. Cardinality(Done(d)) <= Cardinality(Done(d)')
      BY <2>2, Sets, Counting
    <3> QED
      BY <1>1, <3>1, <3>2
  <2> QED
    BY <2>1, <2>2
<1> QED
  BY <1>1, <1>2, Numbers DEF Paid

\* A message is sent by the job's attempt, which is then about to be counted, or by
\* one that lost the job, which is no longer at risk.
LEMMA PaidForMessage ==
  ASSUME TypeOK, TypeOK', NEW d \in Deliveries, Paid(d), NEW w \in Workers,
         messages'[d] = messages[d] + 1,
         attempts'[d] = attempts[d], faults' = faults, overruns' = overruns,
         \/ Risk(d)' \subseteq Risk(d) /\ Done(d) \subseteq Done(d)' \ {w} /\ w \in Done(d)'
         \/ Risk(d)' \subseteq Risk(d) \ {w} /\ w \in Risk(d) /\ Done(d) \subseteq Done(d)'
  PROVE  Paid(d)'
<1>1. /\ Cardinality(Risk(d)) \in Nat /\ Cardinality(Done(d)) \in Nat
      /\ Cardinality(Risk(d)') \in Nat /\ Cardinality(Done(d)') \in Nat
  BY Sets, FS_Subset, FS_CardinalityType, ConstantsAssumption
<1>2. Cardinality(Risk(d)') + Cardinality(Done(d)) + 1
        <= Cardinality(Risk(d)) + Cardinality(Done(d)')
  <2>1. CASE Risk(d)' \subseteq Risk(d) /\ Done(d) \subseteq Done(d)' \ {w} /\ w \in Done(d)'
    <3>1. Cardinality(Risk(d)') <= Cardinality(Risk(d))
      BY <2>1, Sets, Counting
    <3>2. Cardinality(Done(d)) + 1 <= Cardinality(Done(d)')
      BY <2>1, Sets, Counting
    <3> QED
      BY <1>1, <3>1, <3>2
  <2>2. CASE Risk(d)' \subseteq Risk(d) \ {w} /\ w \in Risk(d) /\ Done(d) \subseteq Done(d)'
    <3>1. Cardinality(Risk(d)') + 1 <= Cardinality(Risk(d))
      BY <2>2, Sets, Counting
    <3>2. Cardinality(Done(d)) <= Cardinality(Done(d)')
      BY <2>2, Sets, Counting
    <3> QED
      BY <1>1, <3>1, <3>2
  <2> QED
    BY <2>1, <2>2
<1> QED
  BY <1>1, <1>2, Numbers DEF Paid

\* The job of an attempt that was about to be counted is taken over.
LEMMA PaidByTakeover ==
  ASSUME TypeOK, TypeOK', NEW d \in Deliveries, Paid(d), NEW w \in Workers,
         messages'[d] = messages[d],
         attempts'[d] = attempts[d], faults' = faults, overruns' = overruns,
         w \in Risk(d), Risk(d)' \subseteq Risk(d) \ {w}, Done(d) \subseteq Done(d)' \cup {w}
  PROVE  Paid(d)'
<1>1. /\ Cardinality(Risk(d)) \in Nat /\ Cardinality(Done(d)) \in Nat
      /\ Cardinality(Risk(d)') \in Nat /\ Cardinality(Done(d)') \in Nat
  BY Sets, FS_Subset, FS_CardinalityType, ConstantsAssumption
<1>2. Cardinality(Risk(d)') + 1 <= Cardinality(Risk(d))
  BY Sets, Counting
<1>3. Cardinality(Done(d)) <= Cardinality(Done(d)') + 1
  BY Sets, Counting
<1> QED
  BY <1>1, <1>2, <1>3, Numbers DEF Paid

-----------------------------------------------------------------------------
LEMMA TokensStep == IInv /\ TokensDiffer /\ [Next]_vars => TokensDiffer'
<1> SUFFICES ASSUME IInv, TokensDiffer, [Next]_vars PROVE TokensDiffer'
  OBVIOUS
<1>0. TypeOK
  BY DEF IInv
<1>1. ASSUME UNCHANGED attemptVars
      PROVE  TokensDiffer'
  BY <1>1 DEF TokensDiffer, attemptVars
<1>2. ASSUME NEW w \in Workers, NEW d \in Deliveries, NEW t \in Tokens, Claim(w, d, t)
      PROVE  TokensDiffer'
  <2>1. \A v \in Workers : token[v] # t
    BY <1>2 DEF Claim, TokensInUse
  <2> QED
    BY <1>0, <1>2, <2>1 DEF Claim, TokensDiffer, TypeOK
<1>3. ASSUME NEW w \in Workers, WorkerStep(w)
      PROVE  TokensDiffer'
  <2>1. pc[w] # "idle" /\ \A v \in Workers : v # w => pc'[v] = pc[v] /\ token'[v] = token[v]
    BY <1>0, <1>3 DEF WorkerStep, Load, CheckSuppression, Send, SendFails, Defer, Finish,
       Crash, Goto, Conclude, End, TypeOK
  <2>2. token'[w] = token[w] \/ pc'[w] = "idle"
    BY <1>0, <1>3 DEF WorkerStep, Load, CheckSuppression, Send, SendFails, Defer, Finish,
       Crash, Goto, Conclude, End, TypeOK
  <2> QED
    BY <2>1, <2>2 DEF TokensDiffer
<1> QED
  BY <1>1, <1>2, <1>3 DEF Next, DeliveryStep, Ask, Queue, LeaseExpires, BackoffElapses,
     Report, Callback, OptOut, DocumentStep, DeleteRows, vars

LEMMA UntouchedStep == IInv /\ UntouchedOK /\ [Next]_vars => UntouchedOK'
<1> SUFFICES ASSUME IInv, UntouchedOK, [Next]_vars,
                    NEW c \in Deliveries
             PROVE  /\ row'[c] \in {"none", "asked"} =>
                         messages'[c] = 0 /\ \A w \in Workers : target'[w] # c
                    /\ job'[c] = "pending" => leaseToken'[c] = None
  BY DEF UntouchedOK
<1> DEFINE Goal == /\ row'[c] \in {"none", "asked"} =>
                        messages'[c] = 0 /\ \A w \in Workers : target'[w] # c
                   /\ job'[c] = "pending" => leaseToken'[c] = None
<1>0. TypeOK /\ AttemptOK /\ JobOK
  BY DEF IInv
<1>a. /\ row[c] \in {"none", "asked"} =>
           messages[c] = 0 /\ \A w \in Workers : target[w] # c
      /\ job[c] = "pending" => leaseToken[c] = None
  BY DEF UntouchedOK
<1>1. ASSUME UNCHANGED <<row, job, leaseToken, messages, target>>
      PROVE  Goal
  BY <1>a, <1>1
<1>2. ASSUME NEW d \in Deliveries, Ask(d)
      PROVE  Goal
  BY <1>0, <1>a, <1>2 DEF Ask, TypeOK, jobVars, attemptVars, providerVars
<1>3. ASSUME NEW d \in Deliveries, Queue(d)
      PROVE  Goal
  BY <1>0, <1>a, <1>3 DEF Queue, TypeOK, JobOK, attemptVars, providerVars
<1>4. ASSUME NEW w \in Workers, NEW d \in Deliveries, NEW t \in Tokens, Claim(w, d, t)
      PROVE  Goal
  BY <1>0, <1>a, <1>4 DEF Claim, Claimable, TypeOK, JobOK, rowVars, providerVars
<1>5. ASSUME NEW w \in Workers, WorkerStep(w)
      PROVE  Goal
  <2>1. row' = row /\ pc[w] # "idle" /\ target[w] \in Deliveries
    BY <1>0, <1>5 DEF WorkerStep, Load, CheckSuppression, Send, SendFails, Defer, Finish,
       Crash, AttemptOK, rowVars
  <2>2. \A v \in Workers : target'[v] \in {target[v], None}
    BY <1>0, <1>5 DEF WorkerStep, Load, CheckSuppression, Send, SendFails, Defer, Finish,
       Crash, Goto, Conclude, End, TypeOK
  <2>3. messages'[c] = messages[c] \/ target[w] = c
    BY <1>0, <1>5 DEF WorkerStep, Load, CheckSuppression, Send, SendFails, Defer, Finish,
       Crash, TypeOK, providerVars
  <2>4. job'[c] = "pending" => leaseToken'[c] = None
    <3>1. CASE UNCHANGED <<job, leaseToken>>
      BY <1>a, <3>1
    <3>2. CASE Defer(w)
      BY <1>0, <1>a, <2>1, <3>2 DEF Defer, TypeOK, jobVars
    <3>3. CASE Finish(w)
      BY <1>0, <1>a, <2>1, <3>3 DEF Finish, Settle, TypeOK, jobVars
    <3> QED
      BY <1>5, <3>1, <3>2, <3>3 DEF WorkerStep, Load, CheckSuppression, Send, SendFails,
         Crash, jobVars
  <2>5. \A v \in Workers : target'[v] = c => target[v] = c
    BY <2>2, ConstantsAssumption
  <2> QED
    BY <1>a, <2>1, <2>3, <2>4, <2>5
<1>6. ASSUME NEW d \in Deliveries, NEW s \in Callbacks, Callback(d, s)
      PROVE  Goal
  <2>1. s # "pending" /\ \A e \in Deliveries : e # d => job'[e] = job[e]
    BY <1>0, <1>6 DEF Callback, Record, Callbacks, Confirmed, TypeOK
  <2>2. job'[d] = s /\ UNCHANGED <<row, leaseToken, messages, target>>
    BY <1>0, <1>6 DEF Callback, Record, TypeOK, rowVars, attemptVars, providerVars
  <2> QED
    BY <1>a, <2>1, <2>2
<1>7. ASSUME DeleteRows
      PROVE  Goal
  BY <1>7 DEF DeleteRows
<1> QED
  BY <1>1, <1>2, <1>3, <1>4, <1>5, <1>6, <1>7 DEF Next, DeliveryStep, LeaseExpires,
     BackoffElapses, Report, OptOut, DocumentStep, vars, rowVars, jobVars, attemptVars,
     providerVars

LEMMA PaidStep ==
  IInv /\ IInv' /\ AccountOK /\ UntouchedOK' /\ [Next]_vars => PaidOK'
<1> SUFFICES ASSUME IInv, IInv', AccountOK, UntouchedOK', [Next]_vars,
                    NEW c \in Deliveries, row'[c] = "queued"
             PROVE  Paid(c)'
  BY DEF PaidOK
<1>0. TypeOK /\ TypeOK' /\ AttemptOK /\ JobOK /\ TokensDiffer /\ UntouchedOK
  BY DEF IInv, AccountOK
<1>a. row[c] = "queued" => Paid(c)
  BY DEF AccountOK, PaidOK
<1>1. ASSUME row[c] = "queued", UNCHANGED <<messages, faults, overruns, attempts, leaseToken,
                                           lease, attemptVars>>
      PROVE  Paid(c)'
  <2>1. Risk(c)' = Risk(c) /\ Done(c)' = Done(c)
    BY <1>1 DEF Risk, Done, Runs, attemptVars
  <2> QED
    BY <1>0, <1>1, <1>a, <2>1, PaidStays, Numbers
<1>2. ASSUME NEW d \in Deliveries, Ask(d)
      PROVE  Paid(c)'
  <2>1. row[c] = "queued"
    BY <1>0, <1>2 DEF Ask, TypeOK
  <2> QED
    BY <1>1, <1>2, <2>1 DEF Ask, jobVars, providerVars, boundVars
<1>3. ASSUME NEW d \in Deliveries, Queue(d)
      PROVE  Paid(c)'
  <2>1. CASE c # d
    <3>1. row[c] = "queued"
      BY <1>0, <1>3, <2>1 DEF Queue, TypeOK
    <3> QED
      BY <1>1, <1>3, <3>1 DEF Queue, providerVars, boundVars
  <2>2. CASE c = d
    <3>1. messages'[c] = 0 /\ \A w \in Workers : target'[w] # c
      BY <1>3, <2>2 DEF Queue, providerVars, attemptVars, AccountOK, UntouchedOK
    <3>2. Risk(c)' = {} /\ Done(c)' = {}
      BY <3>1 DEF Risk, Done, Runs
    <3>3. Cardinality(Risk(c)') = 0 /\ Cardinality(Done(c)') = 0
      BY <3>2, FS_EmptySet
    <3> QED
      BY <1>0, <3>1, <3>3, Numbers DEF Paid
  <2> QED
    BY <2>1, <2>2
<1>4. ASSUME NEW w \in Workers, NEW d \in Deliveries, NEW t \in Tokens, Claim(w, d, t)
      PROVE  Paid(c)'
  <2>1. /\ row[c] = "queued" /\ pc[w] = "idle" /\ Claimable(d)
        /\ \A v \in Workers : token[v] # t
        /\ UNCHANGED <<messages, attempts, faults, overruns>>
    BY <1>4 DEF Claim, TokensInUse, rowVars, providerVars, boundVars
  <2>2. /\ target'[w] = d /\ token'[w] = t /\ pc'[w] = "claimed"
        /\ lease'[d] = "held" /\ leaseToken'[d] = t
        /\ \A v \in Workers : v # w =>
             pc'[v] = pc[v] /\ target'[v] = target[v] /\ token'[v] = token[v]
        /\ \A e \in Deliveries : e # d =>
             lease'[e] = lease[e] /\ leaseToken'[e] = leaseToken[e]
    BY <1>0, <1>4 DEF Claim, TypeOK
  <2>3. CASE c # d
    <3>1. Risk(c)' \subseteq Risk(c) /\ Done(c) \subseteq Done(c)'
      BY <2>1, <2>2, <2>3 DEF Risk, Done, Runs
    <3> QED
      BY <1>0, <1>a, <2>1, <3>1, PaidStays, Numbers
  <2>4. CASE c = d /\ Done(c) = {}
    <3>1. ASSUME NEW v \in Workers, v \in Risk(c)'
          PROVE  v \in Risk(c)
      <4>1. v # w /\ target[v] = c /\ pc[v] \in Sending
        BY <2>1, <2>2, <2>4, <3>1 DEF Risk
      <4>2. CASE token[v] # leaseToken[c]
        BY <4>1, <4>2 DEF Risk
      <4>3. CASE token[v] = leaseToken[c]
        <5>1. token[v] # None
          BY <1>0, <4>1, ConstantsAssumption DEF AttemptOK, Sending
        <5>2. job[c] # "pending"
          BY <1>0, <4>3, <5>1 DEF UntouchedOK
        <5>3. lease[c] = "expired"
          BY <2>1, <2>4, <5>2 DEF Claimable
        <5> QED
          BY <4>1, <4>3, <5>3 DEF Risk, Sending
      <4> QED
        BY <4>2, <4>3
    <3>2. Risk(c)' \subseteq Risk(c) /\ Done(c) \subseteq Done(c)'
      BY <2>4, <3>1 DEF Risk
    <3> QED
      BY <1>0, <1>a, <2>1, <3>2, PaidStays, Numbers
  <2>5. ASSUME c = d, NEW u \in Done(c)
        PROVE  Paid(c)'
    <3>1. /\ u \in Workers /\ u # w /\ pc[u] = "finish"
          /\ target[u] = c /\ token[u] = leaseToken[c]
      BY <2>1, <2>5 DEF Done, Runs
    <3>2. token[u] # None
      BY <1>0, <3>1, ConstantsAssumption DEF AttemptOK
    <3>3. lease[c] = "expired"
      BY <1>0, <2>1, <2>5, <3>1, <3>2 DEF UntouchedOK, Claimable
    <3>4. u \in Risk(c)
      BY <3>1, <3>3 DEF Risk
    <3>5. ASSUME NEW v \in Workers, pc[v] # "idle", token[v] = leaseToken[c]
          PROVE  v = u
      BY <1>0, <3>1, <3>5 DEF TokensDiffer
    <3>6. Risk(c)' \subseteq Risk(c) \ {u}
      <4> SUFFICES ASSUME NEW v \in Risk(c)' PROVE v \in Risk(c) \ {u}
        OBVIOUS
      <4>1. v \in Workers /\ v # w /\ target[v] = c /\ pc[v] \in Sending
        BY <2>1, <2>2, <2>5 DEF Risk
      <4>2. v # u
        BY <3>1, <4>1 DEF Sending
      <4>3. token[v] # leaseToken[c]
        BY <3>5, <4>1, <4>2 DEF Sending
      <4> QED
        BY <4>1, <4>2, <4>3 DEF Risk
    <3>7. Done(c) \subseteq Done(c)' \cup {u}
      BY <3>5 DEF Done, Runs
    <3> QED
      BY <1>0, <1>a, <2>1, <3>1, <3>4, <3>6, <3>7, PaidByTakeover
  <2>6. Done(c) = {} \/ \E u : u \in Done(c)
    OBVIOUS
  <2> QED
    BY <2>3, <2>4, <2>5, <2>6
<1>5. ASSUME NEW w \in Workers, WorkerStep(w)
      PROVE  Paid(c)'
  <2> DEFINE d == target[w]
  <2>1. /\ row[c] = "queued" /\ pc[w] # "idle" /\ d \in Deliveries /\ token[w] # None
        /\ \A v \in Workers : v # w =>
             pc'[v] = pc[v] /\ target'[v] = target[v] /\ token'[v] = token[v]
    BY <1>0, <1>5, ConstantsAssumption DEF WorkerStep, Load, CheckSuppression, Send, SendFails,
       Defer, Finish, Crash, Goto, Conclude, End, TypeOK, AttemptOK, rowVars
  <2>2. CASE Load(w) \/ CheckSuppression(w) \/ SendFails(w)
    <3>1. /\ pc[w] \in Sending /\ target'[w] = target[w] /\ token'[w] = token[w]
          /\ UNCHANGED <<lease, leaseToken, messages, attempts, faults, overruns>>
      BY <2>2 DEF Load, CheckSuppression, SendFails, Goto, Conclude, Sending, jobVars,
         providerVars, boundVars
    <3>2. pc'[w] # "idle"
      BY <1>0, <2>2 DEF Load, CheckSuppression, SendFails, Goto, Conclude, TypeOK
    <3>3. Risk(c)' \subseteq Risk(c) /\ Done(c) \subseteq Done(c)'
      BY <2>1, <3>1, <3>2 DEF Risk, Done, Runs, Sending
    <3> QED
      BY <1>0, <1>a, <2>1, <3>1, <3>3, PaidStays, Numbers
  <2>3. CASE Send(w)
    <3>1. /\ pc[w] = "cleared" /\ target'[w] = target[w] /\ token'[w] = token[w]
          /\ UNCHANGED <<lease, leaseToken, attempts, faults, overruns>>
      BY <2>3 DEF Send, Conclude, jobVars, boundVars
    <3>2. /\ pc'[w] = "finish" /\ messages'[d] = messages[d] + 1
          /\ \A e \in Deliveries : e # d => messages'[e] = messages[e]
      BY <1>0, <2>1, <2>3 DEF Send, Conclude, TypeOK
    <3>3. Risk(c)' \subseteq Risk(c) /\ Done(c) \subseteq Done(c)'
      BY <2>1, <3>1, <3>2 DEF Risk, Done, Runs, Sending
    <3>4. CASE c # d
      BY <1>0, <1>a, <2>1, <3>1, <3>2, <3>3, <3>4, PaidStays, Numbers
    <3>5. CASE c = d /\ token[w] = leaseToken[c]
      <4>1. w \in Done(c)' /\ w \notin Done(c)
        BY <3>1, <3>2, <3>5 DEF Done, Runs
      <4> QED
        BY <1>0, <1>a, <2>1, <3>1, <3>2, <3>3, <3>5, <4>1, PaidForMessage
    <3>6. CASE c = d /\ token[w] # leaseToken[c]
      <4>1. w \in Risk(c) /\ w \notin Risk(c)'
        BY <3>1, <3>2, <3>6 DEF Risk, Sending
      <4> QED
        BY <1>0, <1>a, <2>1, <3>1, <3>2, <3>3, <3>6, <4>1, PaidForMessage
    <3> QED
      BY <3>4, <3>5, <3>6
  <2>4. CASE Crash(w)
    <3>1. /\ pc'[w] = "idle" /\ faults' = faults + 1
          /\ UNCHANGED <<lease, leaseToken, messages, attempts, overruns>>
      BY <1>0, <2>4 DEF Crash, End, TypeOK, jobVars, providerVars
    <3>2. Risk(c)' \subseteq Risk(c) /\ Done(c) \subseteq Done(c)' \cup {w}
      BY <2>1, <3>1 DEF Risk, Done, Runs, Sending
    <3>3. attempts'[c] + faults' + overruns' = attempts[c] + faults + overruns + 1
      BY <1>0, <3>1, Numbers
    <3> QED
      BY <1>0, <1>a, <2>1, <3>1, <3>2, <3>3, PaidByCause
  <2>5. CASE Defer(w) \/ Finish(w)
    <3>1. /\ pc'[w] = "idle" /\ pc[w] \in {"deferred", "finish"}
          /\ UNCHANGED <<messages, faults, overruns>>
      BY <1>0, <2>5 DEF Defer, Finish, End, TypeOK, providerVars, boundVars
    <3>2. CASE UNCHANGED jobVars /\ (Defer(w) \/ token[w] # leaseToken[d])
      <4>1. Risk(c)' \subseteq Risk(c) /\ Done(c) \subseteq Done(c)'
        BY <2>1, <3>1, <3>2 DEF Risk, Done, Runs, Sending, Defer, jobVars
      <4> QED
        BY <1>0, <1>a, <2>1, <3>1, <3>2, <4>1, PaidStays, Numbers DEF jobVars
    <3>3. CASE /\ token[w] = leaseToken[d] /\ leaseToken'[d] = None /\ lease'[d] = "none"
               /\ \A e \in Deliveries : e # d =>
                    /\ leaseToken'[e] = leaseToken[e] /\ lease'[e] = lease[e]
                    /\ attempts'[e] = attempts[e]
               /\ \/ Defer(w) /\ attempts'[d] = attempts[d]
                  \/ Finish(w) /\ attempts'[d] = attempts[d] + 1
      <4>1. ASSUME NEW v \in Workers, pc[v] # "idle", v # w
            PROVE  token[v] # token[w] /\ token[v] # None
        BY <1>0, <2>1, <4>1, ConstantsAssumption DEF TokensDiffer, AttemptOK
      <4>2. Risk(c)' \subseteq Risk(c)
        BY <2>1, <3>1, <3>3, <4>1 DEF Risk, Sending
      <4>3. CASE c # d
        <5>1. Done(c) \subseteq Done(c)'
          BY <2>1, <3>3, <4>3 DEF Done, Runs
        <5> QED
          BY <1>0, <1>a, <2>1, <3>1, <3>3, <4>2, <4>3, <5>1, PaidStays, Numbers
      <4>4. CASE c = d /\ Defer(w)
        <5>1. Done(c) = {}
          BY <3>3, <4>1, <4>4 DEF Done, Runs, Defer
        <5> QED
          BY <1>0, <1>a, <2>1, <3>1, <3>3, <4>2, <4>4, <5>1, PaidStays, Numbers DEF Defer, Finish
      <4>5. CASE c = d /\ Finish(w)
        <5>1. Done(c) \subseteq Done(c)' \cup {w}
          BY <3>3, <4>1, <4>5 DEF Done, Runs
        <5>2. attempts'[c] = attempts[c] + 1
          BY <3>3, <4>5 DEF Defer, Finish
        <5>3. attempts'[c] + faults' + overruns' = attempts[c] + faults + overruns + 1
          BY <1>0, <3>1, <5>2, Numbers
        <5> QED
          BY <1>0, <1>a, <2>1, <3>1, <4>2, <5>1, <5>3, PaidByCause
      <4> QED
        BY <3>3, <4>3, <4>4, <4>5
    <3>4. CASE Defer(w)
      <4>1. CASE Owns(w)
        <5>1. /\ leaseToken' = [leaseToken EXCEPT ![d] = None]
              /\ lease' = [lease EXCEPT ![d] = "none"] /\ UNCHANGED attempts
          BY <3>4, <4>1 DEF Defer
        <5> QED
          BY <1>0, <2>1, <3>3, <3>4, <4>1, <5>1 DEF Owns, Runs, TypeOK
      <4>2. CASE ~Owns(w)
        BY <3>2, <3>4, <4>2 DEF Defer
      <4> QED
        BY <4>1, <4>2
    <3>5. CASE Finish(w)
      <4>1. CASE Owns(w)
        <5>1. /\ leaseToken' = [leaseToken EXCEPT ![d] = None]
              /\ lease' = [lease EXCEPT ![d] = "none"]
              /\ attempts' = [attempts EXCEPT ![d] = @ + 1]
          BY <3>5, <4>1 DEF Finish, Settle
        <5> QED
          BY <1>0, <2>1, <3>3, <3>5, <4>1, <5>1 DEF Owns, Runs, TypeOK
      <4>2. CASE ~Owns(w)
        BY <2>1, <3>2, <3>5, <4>2 DEF Finish, Owns, Runs
      <4> QED
        BY <4>1, <4>2
    <3> QED
      BY <2>5, <3>4, <3>5
  <2> QED
    BY <1>5, <2>2, <2>3, <2>4, <2>5 DEF WorkerStep
<1>6. ASSUME NEW d \in Deliveries, LeaseExpires(d)
      PROVE  Paid(c)'
  <2>1. /\ row[c] = "queued" /\ lease'[d] = "expired"
        /\ \A e \in Deliveries : e # d => lease'[e] = lease[e]
        /\ UNCHANGED <<pc, target, token, leaseToken, messages, attempts, faults>>
    BY <1>0, <1>6 DEF LeaseExpires, TypeOK, rowVars, attemptVars, providerVars
  <2>2. overruns' \in {overruns, overruns + 1}
    BY <1>6 DEF LeaseExpires
  <2>3. Done(c) \subseteq Done(c)'
    BY <2>1 DEF Done, Runs
  <2>4. CASE c # d \/ ~\E w \in Workers : Runs(w, d)
    <3>1. Risk(c)' \subseteq Risk(c)
      BY <2>1, <2>4 DEF Risk, Runs, Sending
    <3>2. overruns' >= overruns
      BY <1>0, <2>2, Numbers
    <3> QED
      BY <1>0, <1>a, <2>1, <2>3, <3>1, <3>2, PaidStays, Numbers
  <2>5. CASE c = d /\ \E w \in Workers : Runs(w, d)
    <3>1. overruns' = overruns + 1
      BY <1>6, <2>5 DEF LeaseExpires
    <3>2. PICK w \in Workers : Runs(w, d)
      BY <2>5
    <3>3. \A v \in Workers : Runs(v, d) => v = w
      BY <1>0, <3>2 DEF TokensDiffer, Runs
    <3>4. Risk(c)' \subseteq Risk(c) \cup {w}
      BY <2>1, <2>5, <3>3 DEF Risk, Runs, Sending
    <3>5. attempts'[c] + faults' + overruns' = attempts[c] + faults + overruns + 1
      BY <1>0, <2>1, <3>1, Numbers
    <3> QED
      BY <1>0, <1>a, <2>1, <2>3, <3>4, <3>5, PaidByCause
  <2> QED
    BY <2>4, <2>5
<1>7. ASSUME NEW d \in Deliveries,
             BackoffElapses(d) \/ \E s \in Callbacks : Report(d, s) \/ Callback(d, s)
      PROVE  Paid(c)'
  <2>1. /\ row' = row
        /\ UNCHANGED <<faults, overruns, attempts, leaseToken, lease, attemptVars>>
    BY <1>7 DEF BackoffElapses, Report, Callback, rowVars, jobVars, boundVars
  <2>2. messages' = messages
    BY <1>7 DEF BackoffElapses, Report, Callback, providerVars
  <2> QED
    BY <1>1, <2>1, <2>2
<1>8. ASSUME OptOut \/ DocumentStep \/ UNCHANGED vars
      PROVE  Paid(c)'
  BY <1>1, <1>8 DEF OptOut, DocumentStep, vars, rowVars, jobVars, providerVars, boundVars
<1>9. ~DeleteRows
  BY DEF DeleteRows
<1> QED
  BY <1>2, <1>3, <1>4, <1>5, <1>6, <1>7, <1>8, <1>9 DEF Next, DeliveryStep

LEMMA InitAccount == Init => AccountOK
<1> SUFFICES ASSUME Init PROVE AccountOK
  OBVIOUS
<1>1. /\ \A d \in Deliveries : row[d] = "none" /\ job[d] = "none" /\ messages[d] = 0
      /\ \A w \in Workers : pc[w] = "idle" /\ target[w] = None
  BY DEF Init
<1> QED
  BY <1>1, ConstantsAssumption DEF AccountOK, TokensDiffer, UntouchedOK, PaidOK

\* Each further message has a cause: the provider gets no more messages of a delivery
\* than attempts were counted, but for one per death, one per lease outlived and the
\* one about to be recorded (_finish_delivery), for any number of deliveries and
\* workers and however callbacks, opt-outs and the deletion of the shop come between.
THEOREM MessagesHaveCauses == Spec => []MessagesAccounted
<1>1. Init => AccountOK
  BY InitAccount
<1>2. IInv /\ IInv' /\ AccountOK /\ [Next]_vars => AccountOK'
  BY TokensStep, UntouchedStep, PaidStep DEF AccountOK
<1>3. IInv /\ AccountOK => MessagesAccounted
  <2> SUFFICES ASSUME IInv, AccountOK, NEW d \in Deliveries, row[d] = "queued"
               PROVE  messages[d] <= attempts[d] + faults + overruns
                        + Cardinality({w \in Workers : pc[w] = "finish" /\ Runs(w, d)})
    BY DEF MessagesAccounted
  <2>1. Paid(d)
    BY DEF AccountOK, PaidOK
  <2>2. Cardinality(Risk(d)) \in Nat /\ Cardinality(Done(d)) \in Nat
    BY Sets, FS_Subset, FS_CardinalityType, ConstantsAssumption
  <2>3. /\ messages[d] \in Nat /\ attempts[d] \in Nat /\ faults \in Nat /\ overruns \in Nat
    BY ConstantsAssumption DEF IInv, TypeOK
  <2> QED
    BY <2>1, <2>2, <2>3 DEF Paid, Done
<1> QED
  BY <1>1, <1>2, <1>3, Invariance, PTL DEF Spec
=============================================================================
