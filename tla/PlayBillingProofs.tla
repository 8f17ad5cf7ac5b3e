------------------------- MODULE PlayBillingProofs -------------------------
(* Proofs about PlayBilling: types, acknowledgements that are not forgotten, *)
(* and leases that keep a late worker from writing.                          *)
EXTENDS PlayBilling, Integers, TLAPS

\* A worker has a lease token while it works, and nobody else has the same.
TokensOK ==
  /\ \A h \in Handlers : token[h] = None
  /\ \A w \in Workers : token[w] # None <=> pc[w] # "idle"
  /\ \A v, w \in Workers : token[v] = token[w] /\ token[v] # None => v = w

\* Who has the row locked has the lease.
RowLockOK == \A w \in Workers : pc[w] = "locked" => row = "kept" /\ lease = token[w]

\* As long as Google waits for the acknowledgement, every reading says so.
AckOK(t) ==
  /\ pc[t] = "acknowledged" => acknowledged
  /\ pc[t] \in {"fetched", "applying", "locked", "acknowledge", "unacknowledged"} =>
       acknowledged \/ unacked[t]
  /\ t \in Workers /\ pc[t] = "finish" => ~unacked[t]

AcksOK == \A t \in Tasks : AckOK(t)

\* Before the first purchase nothing is pending, nor was loaded as pending.
PendingOK ==
  /\ AcknowledgementNotForgotten
  /\ row = "none" => ~pending /\ \A t \in Tasks : ~loaded[t]

\* What was read or applied is not of the future; who has the lease has not read less
\* than the last worker that wrote.
ReadingOK(t) ==
  /\ reading[t] <= google
  /\ t \in Workers /\ pc[t] \in {"fetched", "locked"} /\ token[t] = lease =>
       writer = "handler" \/ applied <= reading[t]

ReadingsOK ==
  /\ applied <= google
  /\ \A t \in Tasks : ReadingOK(t)

IInv == TypeOK /\ TokensOK /\ RowLockOK /\ AcksOK /\ PendingOK /\ ReadingsOK





-----------------------------------------------------------------------------
\* The types of what a task is at.
PcTypes ==
  /\ pc \in [Tasks -> HandlerSteps \cup WorkerSteps]
  /\ \A h \in Handlers : pc[h] \in HandlerSteps
  /\ \A w \in Workers : pc[w] \in WorkerSteps

DataTypes ==
  /\ reading \in [Tasks -> Versions]
  /\ unacked \in [Tasks -> BOOLEAN] /\ loaded \in [Tasks -> BOOLEAN]
  /\ note \in [Tasks -> Versions] /\ token \in [Tasks -> Leases \cup {None}]

\* The types of the rest.
RestTypes ==
  /\ google \in Versions /\ acknowledged \in BOOLEAN /\ undelivered \subseteq Versions
  /\ row \in {"none", "kept", "deleted"} /\ applied \in Versions
  /\ pending \in BOOLEAN /\ ackDue \in BOOLEAN
  /\ verifyDue \in BOOLEAN /\ leaseOver \in BOOLEAN
  /\ lease \in Leases \cup {None}
  /\ event \in [Versions -> {"none", "open", "processed"}]
  /\ writer \in {"handler", "worker"}
  /\ submits \in 0..MaxSubmits /\ faults \in 0..MaxFaults

LEMMA Typed == PcTypes' /\ DataTypes' /\ RestTypes' => TypeOK'
  BY DEF TypeOK, PcTypes, DataTypes, RestTypes

LEMMA ReachFacts ==
  ASSUME TypeOK, NEW t \in Tasks, NEW step, Reached(t, step),
         t \in Handlers => step \in HandlerSteps, t \in Workers => step \in WorkerSteps
  PROVE  PcTypes'
BY DEF TypeOK, Reached, PcTypes, Tasks, HandlerSteps, WorkerSteps, CommonSteps

LEMMA EndFacts ==
  ASSUME TypeOK, NEW t \in Tasks, End(t)
  PROVE  /\ PcTypes' /\ DataTypes'
         /\ pc'[t] = "idle" /\ token'[t] = None /\ reading'[t] = 0
         /\ \A q \in Tasks \ {t} : /\ pc'[q] = pc[q] /\ token'[q] = token[q]
                                   /\ reading'[q] = reading[q] /\ unacked'[q] = unacked[q]
<1>1. PcTypes'
  BY DEF TypeOK, End, PcTypes, Tasks, HandlerSteps, WorkerSteps, CommonSteps
<1>2. 0 \in Versions
  BY ConstantsAssumption DEF Versions
<1>3. DataTypes'
  BY <1>2 DEF TypeOK, End, DataTypes
<1> QED
  BY <1>1, <1>3 DEF TypeOK, End

LEMMA FaultFacts ==
  ASSUME TypeOK, Fault
  PROVE  faults' \in 0..MaxFaults
BY ConstantsAssumption DEF TypeOK, Fault

LEMMA TypeStep == IInv /\ [Next]_vars => TypeOK'
<1> SUFFICES ASSUME TypeOK, [Next]_vars PROVE TypeOK'
  BY DEF IInv
<1> USE ConstantsAssumption
    DEF TypeOK, HandlerSteps, WorkerSteps, CommonSteps, Tasks, Versions, googleVars, dueVars,
        rowVars, taskVars
<1>1. ASSUME NEW h \in Handlers, Submit(h)
      PROVE  TypeOK'
  BY <1>1 DEF Submit, Reached
<1>2. ASSUME NEW h \in Handlers, NEW v \in Versions \ {0}, Receive(h, v)
      PROVE  TypeOK'
  <2>1. RestTypes'
    <3>1. faults' \in 0..MaxFaults
      BY <1>2, FaultFacts DEF Receive
    <3>2. event' \in [Versions -> {"none", "open", "processed"}] /\ undelivered' \subseteq Versions
      BY <1>2 DEF Receive
    <3> QED
      BY <1>2, <3>1, <3>2 DEF Receive, RestTypes
  <2>2. PcTypes'
    <3>1. CASE UNCHANGED taskVars
      BY <3>1 DEF PcTypes
    <3>2. CASE Reached(h, "fetch")
      BY <3>2, ReachFacts DEF Tasks, HandlerSteps, CommonSteps, WorkerSteps
    <3> QED
      BY <1>2, <3>1, <3>2 DEF Receive
  <2>3. DataTypes'
    <3>1. note' = note \/ note' = [note EXCEPT ![h] = v]
      BY <1>2 DEF Receive
    <3>2. note' \in [Tasks -> Versions]
      BY <3>1
    <3> QED
      BY <1>2, <3>2 DEF Receive, DataTypes
  <2> QED
    BY <2>1, <2>2, <2>3, Typed
<1>3. ASSUME NEW t \in Tasks, Fetch(t)
      PROVE  TypeOK'
  <2>1. RestTypes'
    <3>1. faults' \in 0..MaxFaults
      BY <1>3, FaultFacts DEF Fetch
    <3> QED
      BY <1>3, <3>1 DEF Fetch, RestTypes
  <2>2. CASE End(t)
    BY <2>1, <2>2, EndFacts, Typed
  <2>3. CASE Reached(t, "fetched") \/ (t \in Workers /\ Reached(t, "failed"))
    <3>1. PcTypes'
      BY <2>3, ReachFacts, ConstantsAssumption
      DEF HandlerSteps, CommonSteps, WorkerSteps
    <3>2. DataTypes'
      <4>1. CASE UNCHANGED <<reading, unacked, loaded, note, token>>
        BY <4>1 DEF DataTypes
      <4>2. CASE /\ reading' = [reading EXCEPT ![t] = google]
                 /\ unacked' = [unacked EXCEPT ![t] = ~acknowledged]
                 /\ UNCHANGED <<loaded, note, token>>
        BY <4>2 DEF DataTypes
      <4>3. CASE End(t)
        BY <4>3, EndFacts
      <4> QED
        BY <1>3, <4>1, <4>2, <4>3 DEF Fetch
    <3> QED
      BY <2>1, <3>1, <3>2, Typed
  <2> QED
    BY <1>3, <2>2, <2>3 DEF Fetch
<1>4. ASSUME NEW h \in Handlers, BeginApply(h)
      PROVE  TypeOK'
  BY <1>4 DEF BeginApply, Reached
<1>5. ASSUME NEW h \in Handlers, Gone(h)
      PROVE  TypeOK'
  <2>1. PcTypes' /\ DataTypes'
    BY <1>5, EndFacts DEF Tasks, Gone
  <2>2. RestTypes'
    BY <1>5 DEF Gone, Answered, RestTypes
  <2> QED
    BY <2>1, <2>2, Typed
<1>6. ASSUME NEW h \in Handlers, CommitApply(h)
      PROVE  TypeOK'
  BY <1>6 DEF CommitApply, Reached, AfterApply, WrittenPending
<1>7. ASSUME NEW t \in Tasks, Acknowledge(t)
      PROVE  TypeOK'
  <2>1. RestTypes'
    <3>1. faults' \in 0..MaxFaults
      BY <1>7, FaultFacts DEF Acknowledge
    <3>2. acknowledged' \in BOOLEAN
      BY <1>7 DEF Acknowledge
    <3> QED
      BY <1>7, <3>1, <3>2 DEF Acknowledge, RestTypes
  <2>2. DataTypes'
    BY <1>7 DEF Acknowledge, DataTypes
  <2>3. PcTypes'
    <3>1. PICK step : /\ Reached(t, step)
                      /\ \/ step = "acknowledged"
                         \/ t \in Workers /\ step = "failed"
                         \/ t \notin Workers /\ step = "unacknowledged"
      BY <1>7 DEF Acknowledge
    <3> QED
      BY <3>1, ReachFacts, ConstantsAssumption DEF HandlerSteps, CommonSteps, WorkerSteps
  <2> QED
    BY <2>1, <2>2, <2>3, Typed
<1>8. ASSUME NEW h \in Handlers, HandlerRecords(h)
      PROVE  TypeOK'
  BY <1>8 DEF HandlerRecords, Reached, RecordAcknowledgement
<1>9. ASSUME NEW h \in Handlers, MarkProcessed(h)
      PROVE  TypeOK'
  <2>1. PcTypes' /\ DataTypes'
    BY <1>9, EndFacts DEF Tasks, MarkProcessed
  <2>2. RestTypes'
    BY <1>9 DEF MarkProcessed, Answered, RestTypes
  <2> QED
    BY <2>1, <2>2, Typed
<1>10. ASSUME NEW w \in Workers, ClaimReconciliation(w)
      PROVE  TypeOK'
  BY <1>10 DEF ClaimReconciliation, Reached, FreshLeases
<1>11. ASSUME NEW w \in Workers, LockRow(w)
      PROVE  TypeOK'
  <2>1. RestTypes'
    BY <1>11 DEF LockRow, RestTypes
  <2>2. CASE End(w)
    BY <2>1, <2>2, EndFacts, Typed DEF Tasks
  <2>3. CASE Reached(w, "locked") /\ UNCHANGED <<reading, unacked, loaded, note, token>>
    <3>1. PcTypes'
      BY <2>3, ReachFacts, ConstantsAssumption DEF Tasks, WorkerSteps
    <3>2. DataTypes'
      BY <2>3 DEF DataTypes
    <3> QED
      BY <2>1, <3>1, <3>2, Typed
  <2> QED
    BY <1>11, <2>2, <2>3 DEF LockRow
<1>12. ASSUME NEW w \in Workers, WorkerApplies(w)
      PROVE  TypeOK'
  <2>1. RestTypes'
    BY <1>12 DEF WorkerApplies, RestTypes, Tasks
  <2>2. DataTypes'
    BY <1>12, ConstantsAssumption DEF WorkerApplies, DataTypes, Versions
  <2>3. PcTypes'
    BY <1>12, ReachFacts, ConstantsAssumption
    DEF WorkerApplies, AfterApply, Tasks, WorkerSteps, CommonSteps
  <2> QED
    BY <2>1, <2>2, <2>3, Typed
<1>13. ASSUME NEW w \in Workers, Conclude(w)
      PROVE  TypeOK'
  <2>1. RestTypes'
    <3>1. pending' \in BOOLEAN /\ ackDue' \in BOOLEAN
      BY <1>13 DEF Conclude, RecordAcknowledgement
    <3>2. verifyDue' \in BOOLEAN /\ leaseOver' \in BOOLEAN
      BY <1>13 DEF Conclude, FreeLease
    <3>3. lease' \in Leases \cup {None}
      BY <1>13 DEF Conclude, FreeLease
    <3> QED
      BY <1>13, <3>1, <3>2, <3>3 DEF Conclude, RestTypes
  <2> QED
    BY <1>13, <2>1, EndFacts, Typed DEF Conclude, Tasks
<1>14. ASSUME NEW h \in Handlers, NEW w \in Workers, BreakDeadlock(h, w)
      PROVE  TypeOK'
  <2>1. RestTypes'
    BY <1>14 DEF BreakDeadlock, RestTypes
  <2>2. CASE End(h)
    BY <2>1, <2>2, EndFacts, Typed DEF Tasks
  <2>3. CASE Reached(w, "failed") /\ UNCHANGED <<reading, unacked, loaded, note, token>>
    <3>1. PcTypes'
      BY <2>3, ReachFacts, ConstantsAssumption DEF Tasks, WorkerSteps
    <3>2. DataTypes'
      BY <2>3 DEF DataTypes
    <3> QED
      BY <2>1, <3>1, <3>2, Typed
  <2> QED
    BY <1>14, <2>2, <2>3 DEF BreakDeadlock
<1>15. ASSUME NEW t \in Tasks, Die(t)
      PROVE  TypeOK'
  BY <1>15 DEF Die, End, Fault
<1>16. ASSUME GoogleChanges
      PROVE  TypeOK'
  BY <1>16 DEF GoogleChanges
<1>17. ASSUME DeleteOrganization
      PROVE  TypeOK'
  BY <1>17 DEF DeleteOrganization
<1>18. ASSUME VerificationDue
      PROVE  TypeOK'
  BY <1>18 DEF VerificationDue
<1>19. ASSUME AcknowledgementDue
      PROVE  TypeOK'
  BY <1>19 DEF AcknowledgementDue
<1>20. ASSUME LeaseExpires
      PROVE  TypeOK'
  BY <1>20 DEF LeaseExpires, Fault
<1>21. ASSUME UNCHANGED vars
      PROVE  TypeOK'
  BY <1>21 DEF vars
<1> QED
  BY <1>1, <1>2, <1>3, <1>4, <1>5, <1>6, <1>7, <1>8, <1>9, <1>10, <1>11, <1>12, <1>13, <1>14,
     <1>15, <1>16, <1>17, <1>18, <1>19, <1>20, <1>21 DEF Next, HandlerStep, WorkerStep, Tasks

LEMMA TokensStep == IInv /\ [Next]_vars => TokensOK'
<1> SUFFICES ASSUME TypeOK, TokensOK, [Next]_vars PROVE TokensOK'
  BY DEF IInv
<1> USE ConstantsAssumption
<1> USE DEF TypeOK, Tasks, googleVars, dueVars, rowVars, taskVars
<1>1. ASSUME NEW h \in Handlers, Submit(h)
      PROVE  TokensOK'
  BY <1>1 DEF Submit, Reached, TokensOK
<1>2. ASSUME NEW h \in Handlers, NEW v \in Versions \ {0}, Receive(h, v)
      PROVE  TokensOK'
  BY <1>2 DEF Receive, Reached, Fault, TokensOK
<1>3. ASSUME NEW t \in Tasks, Fetch(t)
      PROVE  TokensOK'
  BY <1>3 DEF Fetch, Reached, Fault, End, TokensOK
<1>4. ASSUME NEW h \in Handlers, BeginApply(h)
      PROVE  TokensOK'
  BY <1>4 DEF BeginApply, Reached, TokensOK
<1>5. ASSUME NEW h \in Handlers, Gone(h)
      PROVE  TokensOK'
  BY <1>5 DEF Gone, Answered, End, TokensOK
<1>6. ASSUME NEW h \in Handlers, CommitApply(h)
      PROVE  TokensOK'
  BY <1>6 DEF CommitApply, Reached, AfterApply, WrittenPending, TokensOK
<1>7. ASSUME NEW t \in Tasks, Acknowledge(t)
      PROVE  TokensOK'
  BY <1>7 DEF Acknowledge, Reached, Fault, TokensOK
<1>8. ASSUME NEW h \in Handlers, HandlerRecords(h)
      PROVE  TokensOK'
  BY <1>8 DEF HandlerRecords, Reached, RecordAcknowledgement, TokensOK
<1>9. ASSUME NEW h \in Handlers, MarkProcessed(h)
      PROVE  TokensOK'
  BY <1>9 DEF MarkProcessed, Answered, End, TokensOK
<1>10. ASSUME NEW w \in Workers, ClaimReconciliation(w)
      PROVE  TokensOK'
  BY <1>10 DEF ClaimReconciliation, Reached, FreshLeases, TokensOK
<1>11. ASSUME NEW w \in Workers, LockRow(w)
      PROVE  TokensOK'
  BY <1>11 DEF LockRow, Reached, End, Holds, TokensOK
<1>12. ASSUME NEW w \in Workers, WorkerApplies(w)
      PROVE  TokensOK'
  BY <1>12 DEF WorkerApplies, Reached, AfterApply, TokensOK
<1>13. ASSUME NEW w \in Workers, Conclude(w)
      PROVE  TokensOK'
  BY <1>13 DEF Conclude, End, Holds, RecordAcknowledgement, FreeLease, TokensOK
<1>14. ASSUME NEW h \in Handlers, NEW w \in Workers, BreakDeadlock(h, w)
      PROVE  TokensOK'
  BY <1>14 DEF BreakDeadlock, Deadlocked, Reached, End, TokensOK
<1>15. ASSUME NEW t \in Tasks, Die(t)
      PROVE  TokensOK'
  BY <1>15 DEF Die, End, Fault, TokensOK
<1>16. ASSUME GoogleChanges
      PROVE  TokensOK'
  BY <1>16 DEF GoogleChanges, TokensOK
<1>17. ASSUME DeleteOrganization
      PROVE  TokensOK'
  BY <1>17 DEF DeleteOrganization, TokensOK
<1>18. ASSUME VerificationDue
      PROVE  TokensOK'
  BY <1>18 DEF VerificationDue, TokensOK
<1>19. ASSUME AcknowledgementDue
      PROVE  TokensOK'
  BY <1>19 DEF AcknowledgementDue, TokensOK
<1>20. ASSUME LeaseExpires
      PROVE  TokensOK'
  BY <1>20 DEF LeaseExpires, Fault, TokensOK
<1>21. ASSUME UNCHANGED vars
      PROVE  TokensOK'
  BY <1>21 DEF vars, TokensOK
<1> QED
  BY <1>1, <1>2, <1>3, <1>4, <1>5, <1>6, <1>7, <1>8, <1>9, <1>10, <1>11, <1>12, <1>13, <1>14,
     <1>15, <1>16, <1>17, <1>18, <1>19, <1>20, <1>21 DEF Next, HandlerStep, WorkerStep, Tasks

LEMMA RowLockStep == IInv /\ [Next]_vars => RowLockOK'
<1> SUFFICES ASSUME TypeOK, TokensOK, RowLockOK, [Next]_vars PROVE RowLockOK'
  BY DEF IInv
<1> USE ConstantsAssumption
<1> USE DEF TypeOK, Tasks, RowLocked, googleVars, dueVars, rowVars, taskVars
<1>1. ASSUME NEW h \in Handlers, Submit(h)
      PROVE  RowLockOK'
  BY <1>1 DEF Submit, Reached, RowLockOK, TokensOK
<1>2. ASSUME NEW h \in Handlers, NEW v \in Versions \ {0}, Receive(h, v)
      PROVE  RowLockOK'
  BY <1>2 DEF Receive, Reached, Fault, RowLockOK, TokensOK
<1>3. ASSUME NEW t \in Tasks, Fetch(t)
      PROVE  RowLockOK'
  BY <1>3 DEF Fetch, Reached, Fault, End, RowLockOK, TokensOK
<1>4. ASSUME NEW h \in Handlers, BeginApply(h)
      PROVE  RowLockOK'
  BY <1>4 DEF BeginApply, Reached, RowLockOK, TokensOK
<1>5. ASSUME NEW h \in Handlers, Gone(h)
      PROVE  RowLockOK'
  BY <1>5 DEF Gone, Answered, End, RowLockOK, TokensOK
<1>6. ASSUME NEW h \in Handlers, CommitApply(h)
      PROVE  RowLockOK'
  BY <1>6 DEF CommitApply, Reached, AfterApply, WrittenPending, RowLockOK, TokensOK
<1>7. ASSUME NEW t \in Tasks, Acknowledge(t)
      PROVE  RowLockOK'
  BY <1>7 DEF Acknowledge, Reached, Fault, RowLockOK, TokensOK
<1>8. ASSUME NEW h \in Handlers, HandlerRecords(h)
      PROVE  RowLockOK'
  BY <1>8 DEF HandlerRecords, Reached, RecordAcknowledgement, RowLockOK, TokensOK
<1>9. ASSUME NEW h \in Handlers, MarkProcessed(h)
      PROVE  RowLockOK'
  BY <1>9 DEF MarkProcessed, Answered, End, RowLockOK, TokensOK
<1>10. ASSUME NEW w \in Workers, ClaimReconciliation(w)
      PROVE  RowLockOK'
  BY <1>10 DEF ClaimReconciliation, Reached, FreshLeases, RowLockOK, TokensOK
<1>11. ASSUME NEW w \in Workers, LockRow(w)
      PROVE  RowLockOK'
  BY <1>11 DEF LockRow, Reached, End, Holds, RowLockOK, TokensOK
<1>12. ASSUME NEW w \in Workers, WorkerApplies(w)
      PROVE  RowLockOK'
  BY <1>12 DEF WorkerApplies, Reached, AfterApply, RowLockOK, TokensOK
<1>13. ASSUME NEW w \in Workers, Conclude(w)
      PROVE  RowLockOK'
  BY <1>13 DEF Conclude, End, Holds, RecordAcknowledgement, FreeLease, RowLockOK, TokensOK
<1>14. ASSUME NEW h \in Handlers, NEW w \in Workers, BreakDeadlock(h, w)
      PROVE  RowLockOK'
  BY <1>14 DEF BreakDeadlock, Deadlocked, Reached, End, RowLockOK, TokensOK
<1>15. ASSUME NEW t \in Tasks, Die(t)
      PROVE  RowLockOK'
  BY <1>15 DEF Die, End, Fault, RowLockOK, TokensOK
<1>16. ASSUME GoogleChanges
      PROVE  RowLockOK'
  BY <1>16 DEF GoogleChanges, RowLockOK, TokensOK
<1>17. ASSUME DeleteOrganization
      PROVE  RowLockOK'
  BY <1>17 DEF DeleteOrganization, RowLockOK, TokensOK
<1>18. ASSUME VerificationDue
      PROVE  RowLockOK'
  BY <1>18 DEF VerificationDue, RowLockOK, TokensOK
<1>19. ASSUME AcknowledgementDue
      PROVE  RowLockOK'
  BY <1>19 DEF AcknowledgementDue, RowLockOK, TokensOK
<1>20. ASSUME LeaseExpires
      PROVE  RowLockOK'
  BY <1>20 DEF LeaseExpires, Fault, RowLockOK, TokensOK
<1>21. ASSUME UNCHANGED vars
      PROVE  RowLockOK'
  BY <1>21 DEF vars, RowLockOK, TokensOK
<1> QED
  BY <1>1, <1>2, <1>3, <1>4, <1>5, <1>6, <1>7, <1>8, <1>9, <1>10, <1>11, <1>12, <1>13, <1>14,
     <1>15, <1>16, <1>17, <1>18, <1>19, <1>20, <1>21 DEF Next, HandlerStep, WorkerStep, Tasks

LEMMA AcksStep == IInv /\ [Next]_vars => AcksOK'
<1> SUFFICES ASSUME TypeOK, AcksOK, [Next]_vars PROVE AcksOK'
  BY DEF IInv
<1> USE ConstantsAssumption
<1> USE DEF TypeOK, Tasks, HandlerSteps, WorkerSteps, CommonSteps, googleVars, dueVars,
        rowVars, taskVars
<1>1. ASSUME NEW h \in Handlers, Submit(h)
      PROVE  AcksOK'
  BY <1>1 DEF Submit, Reached, AcksOK, AckOK
<1>2. ASSUME NEW h \in Handlers, NEW v \in Versions \ {0}, Receive(h, v)
      PROVE  AcksOK'
  BY <1>2 DEF Receive, Reached, Fault, AcksOK, AckOK
<1>3. ASSUME NEW t \in Tasks, Fetch(t)
      PROVE  AcksOK'
  <2> SUFFICES ASSUME NEW q \in Tasks PROVE AckOK(q)'
    BY DEF AcksOK
  <2>1. acknowledged' = acknowledged /\ AckOK(q)
    BY <1>3 DEF Fetch, AcksOK
  <2>2. CASE pc'[q] = pc[q] /\ unacked'[q] = unacked[q]
    BY <2>1, <2>2 DEF AckOK
  <2>3. CASE pc'[q] \in {"idle", "failed"}
    BY <2>1, <2>3 DEF AckOK
  <2>4. CASE pc'[q] = "fetched" /\ unacked'[q] = ~acknowledged
    BY <2>1, <2>4 DEF AckOK
  <2> QED
    BY <1>3, <2>2, <2>3, <2>4 DEF Fetch, Reached, End
<1>4. ASSUME NEW h \in Handlers, BeginApply(h)
      PROVE  AcksOK'
  BY <1>4 DEF BeginApply, Reached, AcksOK, AckOK
<1>5. ASSUME NEW h \in Handlers, Gone(h)
      PROVE  AcksOK'
  BY <1>5 DEF Gone, Answered, End, AcksOK, AckOK
<1>6. ASSUME NEW h \in Handlers, CommitApply(h)
      PROVE  AcksOK'
  BY <1>6 DEF CommitApply, Reached, AfterApply, WrittenPending, AcksOK, AckOK
<1>7. ASSUME NEW t \in Tasks, Acknowledge(t)
      PROVE  AcksOK'
  BY <1>7 DEF Acknowledge, Reached, Fault, AcksOK, AckOK
<1>8. ASSUME NEW h \in Handlers, HandlerRecords(h)
      PROVE  AcksOK'
  BY <1>8 DEF HandlerRecords, Reached, RecordAcknowledgement, AcksOK, AckOK
<1>9. ASSUME NEW h \in Handlers, MarkProcessed(h)
      PROVE  AcksOK'
  BY <1>9 DEF MarkProcessed, Answered, End, AcksOK, AckOK
<1>10. ASSUME NEW w \in Workers, ClaimReconciliation(w)
      PROVE  AcksOK'
  BY <1>10 DEF ClaimReconciliation, Reached, FreshLeases, AcksOK, AckOK
<1>11. ASSUME NEW w \in Workers, LockRow(w)
      PROVE  AcksOK'
  BY <1>11 DEF LockRow, Reached, End, Holds, AcksOK, AckOK
<1>12. ASSUME NEW w \in Workers, WorkerApplies(w)
      PROVE  AcksOK'
  BY <1>12 DEF WorkerApplies, Reached, AfterApply, AcksOK, AckOK
<1>13. ASSUME NEW w \in Workers, Conclude(w)
      PROVE  AcksOK'
  BY <1>13 DEF Conclude, End, Holds, RecordAcknowledgement, FreeLease, AcksOK, AckOK
<1>14. ASSUME NEW h \in Handlers, NEW w \in Workers, BreakDeadlock(h, w)
      PROVE  AcksOK'
  BY <1>14 DEF BreakDeadlock, Deadlocked, Reached, End, AcksOK, AckOK
<1>15. ASSUME NEW t \in Tasks, Die(t)
      PROVE  AcksOK'
  BY <1>15 DEF Die, End, Fault, AcksOK, AckOK
<1>16. ASSUME GoogleChanges
      PROVE  AcksOK'
  BY <1>16 DEF GoogleChanges, AcksOK, AckOK
<1>17. ASSUME DeleteOrganization
      PROVE  AcksOK'
  BY <1>17 DEF DeleteOrganization, AcksOK, AckOK
<1>18. ASSUME VerificationDue
      PROVE  AcksOK'
  BY <1>18 DEF VerificationDue, AcksOK, AckOK
<1>19. ASSUME AcknowledgementDue
      PROVE  AcksOK'
  BY <1>19 DEF AcknowledgementDue, AcksOK, AckOK
<1>20. ASSUME LeaseExpires
      PROVE  AcksOK'
  BY <1>20 DEF LeaseExpires, Fault, AcksOK, AckOK
<1>21. ASSUME UNCHANGED vars
      PROVE  AcksOK'
  BY <1>21 DEF vars, AcksOK, AckOK
<1> QED
  BY <1>1, <1>2, <1>3, <1>4, <1>5, <1>6, <1>7, <1>8, <1>9, <1>10, <1>11, <1>12, <1>13, <1>14,
     <1>15, <1>16, <1>17, <1>18, <1>19, <1>20, <1>21 DEF Next, HandlerStep, WorkerStep, Tasks

LEMMA PendingStep == IInv /\ [Next]_vars => PendingOK'
<1> SUFFICES ASSUME TypeOK, RowLockOK, AcksOK, PendingOK, [Next]_vars PROVE PendingOK'
  BY DEF IInv
<1> USE ConstantsAssumption
<1> USE DEF TypeOK, Tasks, googleVars, dueVars, rowVars, taskVars
<1>1. ASSUME NEW h \in Handlers, Submit(h)
      PROVE  PendingOK'
  BY <1>1 DEF Submit, Reached, PendingOK, AcknowledgementNotForgotten, AcksOK, AckOK
<1>2. ASSUME NEW h \in Handlers, NEW v \in Versions \ {0}, Receive(h, v)
      PROVE  PendingOK'
  BY <1>2 DEF Receive, Reached, Fault, PendingOK, AcknowledgementNotForgotten, AcksOK, AckOK
<1>3. ASSUME NEW t \in Tasks, Fetch(t)
      PROVE  PendingOK'
  BY <1>3 DEF Fetch, Reached, Fault, End, PendingOK, AcknowledgementNotForgotten, AcksOK,
     AckOK
<1>4. ASSUME NEW h \in Handlers, BeginApply(h)
      PROVE  PendingOK'
  BY <1>4 DEF BeginApply, Reached, PendingOK, AcknowledgementNotForgotten, AcksOK, AckOK
<1>5. ASSUME NEW h \in Handlers, Gone(h)
      PROVE  PendingOK'
  BY <1>5 DEF Gone, Answered, End, PendingOK, AcknowledgementNotForgotten, AcksOK, AckOK
<1>6. ASSUME NEW h \in Handlers, CommitApply(h)
      PROVE  PendingOK'
  BY <1>6 DEF CommitApply, Reached, AfterApply, WrittenPending, PendingOK,
     AcknowledgementNotForgotten, AcksOK, AckOK
<1>7. ASSUME NEW t \in Tasks, Acknowledge(t)
      PROVE  PendingOK'
  BY <1>7 DEF Acknowledge, Reached, Fault, PendingOK, AcknowledgementNotForgotten, AcksOK,
     AckOK
<1>8. ASSUME NEW h \in Handlers, HandlerRecords(h)
      PROVE  PendingOK'
  BY <1>8 DEF HandlerRecords, Reached, RecordAcknowledgement, PendingOK,
     AcknowledgementNotForgotten, AcksOK, AckOK
<1>9. ASSUME NEW h \in Handlers, MarkProcessed(h)
      PROVE  PendingOK'
  BY <1>9 DEF MarkProcessed, Answered, End, PendingOK, AcknowledgementNotForgotten, AcksOK,
     AckOK
<1>10. ASSUME NEW w \in Workers, ClaimReconciliation(w)
      PROVE  PendingOK'
  BY <1>10 DEF ClaimReconciliation, Reached, FreshLeases, PendingOK,
     AcknowledgementNotForgotten, AcksOK, AckOK
<1>11. ASSUME NEW w \in Workers, LockRow(w)
      PROVE  PendingOK'
  BY <1>11 DEF LockRow, Reached, End, Holds, PendingOK, AcknowledgementNotForgotten, AcksOK,
     AckOK
<1>12. ASSUME NEW w \in Workers, WorkerApplies(w)
      PROVE  PendingOK'
  <2>1. pc[w] = "locked" /\ row' = row /\ loaded' = loaded /\ acknowledged' = acknowledged
        /\ pending' = unacked[w]
    BY <1>12 DEF WorkerApplies
  <2>2. row = "kept"
    BY <2>1 DEF RowLockOK
  <2>3. acknowledged \/ unacked[w]
    BY <2>1 DEF AcksOK, AckOK
  <2> QED
    BY <2>1, <2>2, <2>3 DEF PendingOK, AcknowledgementNotForgotten
<1>13. ASSUME NEW w \in Workers, Conclude(w)
      PROVE  PendingOK'
  BY <1>13 DEF Conclude, End, Holds, RecordAcknowledgement, FreeLease, PendingOK,
     AcknowledgementNotForgotten, AcksOK, AckOK
<1>14. ASSUME NEW h \in Handlers, NEW w \in Workers, BreakDeadlock(h, w)
      PROVE  PendingOK'
  BY <1>14 DEF BreakDeadlock, Deadlocked, Reached, End, PendingOK,
     AcknowledgementNotForgotten, AcksOK, AckOK
<1>15. ASSUME NEW t \in Tasks, Die(t)
      PROVE  PendingOK'
  BY <1>15 DEF Die, End, Fault, PendingOK, AcknowledgementNotForgotten, AcksOK, AckOK
<1>16. ASSUME GoogleChanges
      PROVE  PendingOK'
  BY <1>16 DEF GoogleChanges, PendingOK, AcknowledgementNotForgotten, AcksOK, AckOK
<1>17. ASSUME DeleteOrganization
      PROVE  PendingOK'
  BY <1>17 DEF DeleteOrganization, PendingOK, AcknowledgementNotForgotten, AcksOK, AckOK
<1>18. ASSUME VerificationDue
      PROVE  PendingOK'
  BY <1>18 DEF VerificationDue, PendingOK, AcknowledgementNotForgotten, AcksOK, AckOK
<1>19. ASSUME AcknowledgementDue
      PROVE  PendingOK'
  BY <1>19 DEF AcknowledgementDue, PendingOK, AcknowledgementNotForgotten, AcksOK, AckOK
<1>20. ASSUME LeaseExpires
      PROVE  PendingOK'
  BY <1>20 DEF LeaseExpires, Fault, PendingOK, AcknowledgementNotForgotten, AcksOK, AckOK
<1>21. ASSUME UNCHANGED vars
      PROVE  PendingOK'
  BY <1>21 DEF vars, PendingOK, AcknowledgementNotForgotten, AcksOK, AckOK
<1> QED
  BY <1>1, <1>2, <1>3, <1>4, <1>5, <1>6, <1>7, <1>8, <1>9, <1>10, <1>11, <1>12, <1>13, <1>14,
     <1>15, <1>16, <1>17, <1>18, <1>19, <1>20, <1>21 DEF Next, HandlerStep, WorkerStep, Tasks

LEMMA ReadingsStep == IInv /\ [Next]_vars => ReadingsOK'
<1> SUFFICES ASSUME TypeOK, TokensOK, RowLockOK, ReadingsOK, [Next]_vars PROVE ReadingsOK'
  BY DEF IInv
<1> USE ConstantsAssumption
<1> USE DEF TypeOK, Tasks, Versions, googleVars, dueVars, rowVars, taskVars
<1>1. ASSUME NEW h \in Handlers, Submit(h)
      PROVE  ReadingsOK'
  BY <1>1 DEF Submit, Reached, ReadingsOK, ReadingOK, TokensOK, RowLockOK
<1>2. ASSUME NEW h \in Handlers, NEW v \in Versions \ {0}, Receive(h, v)
      PROVE  ReadingsOK'
  BY <1>2 DEF Receive, Reached, Fault, ReadingsOK, ReadingOK, TokensOK, RowLockOK
<1>3. ASSUME NEW t \in Tasks, Fetch(t)
      PROVE  ReadingsOK'
  <2>1. /\ UNCHANGED <<google, applied, lease, writer>>
        /\ applied <= google /\ applied \in Nat /\ google \in Nat
    BY <1>3 DEF Fetch, ReadingsOK
  <2> SUFFICES ASSUME NEW q \in Tasks PROVE ReadingOK(q)'
    BY <2>1 DEF ReadingsOK
  <2>2. ReadingOK(q)
    BY DEF ReadingsOK
  <2>3. CASE pc'[q] = pc[q] /\ reading'[q] = reading[q] /\ token'[q] = token[q]
    BY <2>1, <2>2, <2>3 DEF ReadingOK
  <2>4. CASE pc'[q] \in {"idle", "failed"} /\ reading'[q] \in {0, reading[q]}
    BY <2>1, <2>2, <2>4 DEF ReadingOK
  <2>5. CASE reading'[q] = google
    BY <2>1, <2>5 DEF ReadingOK
  <2> QED
    BY <1>3, <2>3, <2>4, <2>5 DEF Fetch, Reached, End
<1>4. ASSUME NEW h \in Handlers, BeginApply(h)
      PROVE  ReadingsOK'
  BY <1>4 DEF BeginApply, Reached, ReadingsOK, ReadingOK, TokensOK, RowLockOK
<1>5. ASSUME NEW h \in Handlers, Gone(h)
      PROVE  ReadingsOK'
  BY <1>5 DEF Gone, Answered, End, ReadingsOK, ReadingOK, TokensOK, RowLockOK
<1>6. ASSUME NEW h \in Handlers, CommitApply(h)
      PROVE  ReadingsOK'
  BY <1>6 DEF CommitApply, Reached, AfterApply, WrittenPending, ReadingsOK, ReadingOK,
     TokensOK, RowLockOK
<1>7. ASSUME NEW t \in Tasks, Acknowledge(t)
      PROVE  ReadingsOK'
  BY <1>7 DEF Acknowledge, Reached, Fault, ReadingsOK, ReadingOK, TokensOK, RowLockOK
<1>8. ASSUME NEW h \in Handlers, HandlerRecords(h)
      PROVE  ReadingsOK'
  BY <1>8 DEF HandlerRecords, Reached, RecordAcknowledgement, ReadingsOK, ReadingOK, TokensOK,
     RowLockOK
<1>9. ASSUME NEW h \in Handlers, MarkProcessed(h)
      PROVE  ReadingsOK'
  BY <1>9 DEF MarkProcessed, Answered, End, ReadingsOK, ReadingOK, TokensOK, RowLockOK
<1>10. ASSUME NEW w \in Workers, ClaimReconciliation(w)
      PROVE  ReadingsOK'
  BY <1>10 DEF ClaimReconciliation, Reached, FreshLeases, ReadingsOK, ReadingOK, TokensOK,
     RowLockOK
<1>11. ASSUME NEW w \in Workers, LockRow(w)
      PROVE  ReadingsOK'
  BY <1>11 DEF LockRow, Reached, End, Holds, ReadingsOK, ReadingOK, TokensOK, RowLockOK
<1>12. ASSUME NEW w \in Workers, WorkerApplies(w)
      PROVE  ReadingsOK'
  BY <1>12 DEF WorkerApplies, Reached, AfterApply, ReadingsOK, ReadingOK, TokensOK, RowLockOK
<1>13. ASSUME NEW w \in Workers, Conclude(w)
      PROVE  ReadingsOK'
  BY <1>13 DEF Conclude, End, Holds, RecordAcknowledgement, FreeLease, ReadingsOK, ReadingOK,
     TokensOK, RowLockOK
<1>14. ASSUME NEW h \in Handlers, NEW w \in Workers, BreakDeadlock(h, w)
      PROVE  ReadingsOK'
  <2>1. /\ UNCHANGED <<google, applied, lease, writer>>
        /\ applied <= google /\ applied \in Nat /\ google \in Nat
    BY <1>14 DEF BreakDeadlock, ReadingsOK
  <2> SUFFICES ASSUME NEW q \in Tasks PROVE ReadingOK(q)'
    BY <2>1 DEF ReadingsOK
  <2>2. ReadingOK(q)
    BY DEF ReadingsOK
  <2>3. CASE pc'[q] = pc[q] /\ reading'[q] = reading[q] /\ token'[q] = token[q]
    BY <2>1, <2>2, <2>3 DEF ReadingOK
  <2>4. CASE pc'[q] \in {"idle", "failed"} /\ reading'[q] \in {0, reading[q]}
    BY <2>1, <2>2, <2>4 DEF ReadingOK
  <2>5. CASE End(h)
    BY <2>3, <2>4, <2>5 DEF End
  <2>6. CASE Reached(w, "failed") /\ UNCHANGED <<reading, unacked, loaded, note, token>>
    BY <2>3, <2>4, <2>6 DEF Reached
  <2> QED
    BY <1>14, <2>5, <2>6 DEF BreakDeadlock
<1>15. ASSUME NEW t \in Tasks, Die(t)
      PROVE  ReadingsOK'
  BY <1>15 DEF Die, End, Fault, ReadingsOK, ReadingOK, TokensOK, RowLockOK
<1>16. ASSUME GoogleChanges
      PROVE  ReadingsOK'
  BY <1>16 DEF GoogleChanges, ReadingsOK, ReadingOK, TokensOK, RowLockOK
<1>17. ASSUME DeleteOrganization
      PROVE  ReadingsOK'
  BY <1>17 DEF DeleteOrganization, ReadingsOK, ReadingOK, TokensOK, RowLockOK
<1>18. ASSUME VerificationDue
      PROVE  ReadingsOK'
  BY <1>18 DEF VerificationDue, ReadingsOK, ReadingOK, TokensOK, RowLockOK
<1>19. ASSUME AcknowledgementDue
      PROVE  ReadingsOK'
  BY <1>19 DEF AcknowledgementDue, ReadingsOK, ReadingOK, TokensOK, RowLockOK
<1>20. ASSUME LeaseExpires
      PROVE  ReadingsOK'
  BY <1>20 DEF LeaseExpires, Fault, ReadingsOK, ReadingOK, TokensOK, RowLockOK
<1>21. ASSUME UNCHANGED vars
      PROVE  ReadingsOK'
  BY <1>21 DEF vars, ReadingsOK, ReadingOK, TokensOK, RowLockOK
<1> QED
  BY <1>1, <1>2, <1>3, <1>4, <1>5, <1>6, <1>7, <1>8, <1>9, <1>10, <1>11, <1>12, <1>13, <1>14,
     <1>15, <1>16, <1>17, <1>18, <1>19, <1>20, <1>21 DEF Next, HandlerStep, WorkerStep, Tasks

LEMMA InitIInv == Init => IInv
<1> SUFFICES ASSUME Init PROVE IInv
  OBVIOUS
<1>a. MaxChanges \in Nat /\ MaxSubmits \in Nat /\ MaxFaults \in Nat /\ None \notin Leases
  BY ConstantsAssumption
<1>1. TypeOK
  <2>1. /\ 0 \in Versions /\ submits \in 0..MaxSubmits /\ faults \in 0..MaxFaults
        /\ google = 0 /\ applied = 0
    BY <1>a DEF Init, Versions
  <2>2. /\ acknowledged \in BOOLEAN /\ undelivered \subseteq Versions
        /\ row \in {"none", "kept", "deleted"}
        /\ pending \in BOOLEAN /\ ackDue \in BOOLEAN
        /\ verifyDue \in BOOLEAN /\ leaseOver \in BOOLEAN
        /\ lease \in Leases \cup {None} /\ writer \in {"handler", "worker"}
        /\ event \in [Versions -> {"none", "open", "processed"}]
    BY DEF Init
  <2>3. PcTypes
    BY DEF Init, PcTypes, Tasks, HandlerSteps, WorkerSteps, CommonSteps
  <2>4. DataTypes
    BY <2>1 DEF Init, DataTypes
  <2> QED
    BY <2>1, <2>2, <2>3, <2>4 DEF TypeOK, PcTypes, DataTypes
<1>2. TokensOK /\ RowLockOK /\ AcksOK
  BY DEF Init, Tasks, TokensOK, RowLockOK, AcksOK, AckOK
<1>3. PendingOK
  BY DEF Init, PendingOK, AcknowledgementNotForgotten
<1>4. ReadingsOK
  BY <1>a DEF Init, ReadingsOK, ReadingOK
<1> QED
  BY <1>1, <1>2, <1>3, <1>4 DEF IInv

LEMMA IInvHolds == Spec => []IInv
<1>1. IInv /\ [Next]_vars => IInv'
  BY TypeStep, TokensStep, RowLockStep, AcksStep, PendingStep, ReadingsStep DEF IInv
<1> QED
  BY <1>1, InitIInv, PTL DEF Spec

-----------------------------------------------------------------------------
\* For any numbers of handlers, workers and changes: a purchase that Google still waits
\* to see acknowledged is marked as pending, whatever fails, dies or is applied late.
THEOREM AcknowledgementsPlanned == Spec => []AcknowledgementPlanned
<1>1. IInv => AcknowledgementPlanned
  BY DEF IInv, PendingOK, AcknowledgementPlanned
<1> QED
  BY <1>1, IInvHolds, PTL

\* A worker puts back an older reading only over what a request wrote: one whose lease
\* was taken over writes nothing.
THEOREM LateWorkersWriteNothing == Spec => LateWorkerWritesNothing
<1> DEFINE Kept == applied' < applied /\ writer' = "worker" => writer = "handler"
<1>1. IInv /\ [Next]_vars => Kept
  <2> SUFFICES ASSUME IInv, [Next]_vars, applied' < applied, writer' = "worker"
               PROVE  writer = "handler"
    OBVIOUS
  <2>0. applied \in Nat /\ \A t \in Tasks : reading[t] \in Nat
    BY ConstantsAssumption DEF IInv, TypeOK, Versions
  <2>1. applied' # applied
    BY <2>0
  <2>2. PICK w \in Workers : WorkerApplies(w)
    BY <2>1 DEF Next, HandlerStep, WorkerStep, Submit, Receive, Fetch, BeginApply, Gone,
       CommitApply, Acknowledge, HandlerRecords, MarkProcessed, ClaimReconciliation, LockRow,
       Conclude, BreakDeadlock, Die, GoogleChanges, DeleteOrganization, VerificationDue,
       AcknowledgementDue, LeaseExpires, rowVars, vars
  <2>3. w \in Tasks /\ pc[w] = "locked" /\ applied' = reading[w]
    BY <2>2 DEF WorkerApplies, Tasks
  <2>4. lease = token[w]
    BY <2>3 DEF IInv, RowLockOK
  <2> QED
    BY <2>0, <2>3, <2>4 DEF IInv, ReadingsOK, ReadingOK
<1> QED
  BY <1>1, IInvHolds, PTL DEF Spec, LateWorkerWritesNothing
=============================================================================
