----------------------- MODULE InvoicePipelineProofs -----------------------
(***************************************************************************)
(* Proofs about InvoicePipeline - types and the retry bound, fencing, that *)
(* what is recorded is stored and does not change while the shop is        *)
(* active, that every sale's document is a SaleDocument - and about        *)
(* InvoiceDelivery: beside the pipeline, the delivery of an invoice is     *)
(* still a WhatsAppDelivery, and sends only what is stored.                *)
(***************************************************************************)
EXTENDS InvoiceDelivery, TLAPS

\* What a running attempt carries.
AttemptOK ==
  \A w \in Workers :
    /\ pc[w] # "idle" => target[w] \in Sales /\ token[w] \in Tokens
    /\ pc[w] \in {"rendered", "uploaded"} => render[w] \in Renders

\* A job that may still be settled has an attempt left.
BudgetOK ==
  \A s \in Sales :
    \/ leaseToken[s] # None
    \/ status[s] \in {"pending", "processing"}
    \/ row[s] = "new"
    => attempts[s] < MaxAttempts

\* Running attempts hold pairwise different tokens.
TokensOK ==
  \A v, w \in Workers :
    pc[v] # "idle" /\ pc[w] # "idle" /\ token[v] = token[w] => v = w

\* Only the deletion of the shop removes rows, and it starts the clean-up.
ShopOK ==
  /\ (shop = "active") <=> (cleanup = "idle")
  /\ \A s \in Sales :
       /\ row[s] = "deleted" => shop = "deleted"
       /\ row[s] = "new" => status[s] = "none"
  /\ \A w \in Workers :
       /\ pc[w] # "idle" => row[target[w]] # "new"
       /\ pc[w] = "orphan" => shop = "deleted"

\* While the shop is active, keys and finished uploads describe the object.
StoreOK ==
  shop = "active" =>
    /\ \A s \in Sales : index[s] # None => object[s] = index[s]
    /\ \A s \in Sales : status[s] = "ready" => index[s] # None
    /\ \A w \in Workers :
         /\ pc[w] = "uploaded" => object[target[w]] = render[w]
         /\ pc[w] = "done" => index[target[w]] # None

Typed == TypeOK /\ AttemptOK /\ BudgetOK
IInv == Typed /\ TokensOK /\ ShopOK /\ StoreOK

-----------------------------------------------------------------------------
LEMMA InitIInv == Init => IInv
BY ConstantsAssumption
   DEF Init, IInv, Typed, TypeOK, AttemptOK, BudgetOK, TokensOK, ShopOK, StoreOK

LEMMA TypedStep == Typed /\ ShopOK /\ [Next]_vars => Typed'
<1> SUFFICES ASSUME Typed, ShopOK, [Next]_vars PROVE Typed'
  OBVIOUS
<1> USE ConstantsAssumption
    DEF Typed, TypeOK, AttemptOK, BudgetOK,
        jobVars, saleVars, attemptVars, cleanupVars, boundVars
<1>1. ASSUME NEW w \in Workers, NEW s \in Sales, NEW t \in Tokens, Claim(w, s, t)
      PROVE  Typed'
  BY <1>1 DEF Claim, Claimable, ClaimWith, TokensInUse
<1>2. ASSUME NEW w \in Workers, Render(w) PROVE Typed'
  BY <1>2 DEF Render, Goto
<1>3. ASSUME NEW w \in Workers, Upload(w) PROVE Typed'
  BY <1>3 DEF Upload, Goto
<1>4. ASSUME NEW w \in Workers, UploadFails(w) PROVE Typed'
  BY <1>4 DEF UploadFails, Goto, Fault
<1>5. ASSUME NEW w \in Workers, Commit(w) PROVE Typed'
  BY <1>5 DEF Commit, Goto
<1>6. ASSUME NEW w \in Workers, DeleteOrphan(w) PROVE Typed'
  BY <1>6 DEF DeleteOrphan, Goto
<1>7. ASSUME NEW w \in Workers, DeleteOrphanFails(w) PROVE Typed'
  BY <1>7 DEF DeleteOrphanFails, Goto, Fault
<1>8. ASSUME NEW w \in Workers, FinishReady(w) PROVE Typed'
  BY <1>8 DEF FinishReady, End, Owns, Runs
<1>9. ASSUME NEW w \in Workers, FinishError(w) PROVE Typed'
  <2>1. CASE ~Owns(w)
    BY <1>9, <2>1 DEF FinishError, End
  <2>2. CASE Owns(w)
    <3> DEFINE s == target[w]
               verdict == IF attempts[s] + 1 >= MaxAttempts THEN "failed" ELSE "pending"
    <3>1. /\ s \in Sales /\ leaseToken[s] # None /\ row[s] # "new"
          /\ attempts[s] \in 0..MaxAttempts /\ attempts[s] < MaxAttempts
      BY <2>2, <1>9 DEF FinishError, Owns, Runs, ShopOK
    <3>2. /\ attempts[s] + 1 \in 0..MaxAttempts
          /\ verdict \in {"failed", "pending"}
          /\ verdict = "pending" => attempts[s] + 1 < MaxAttempts
      BY <3>1
    <3>3. /\ Retry(s, verdict) /\ End(w)
          /\ UNCHANGED <<row, index, object, resets, shop, cleanup, listed,
                         undeleted, faults, overruns>>
      BY <1>9, <2>2 DEF FinishError
    <3> HIDE DEF s, verdict
    <3>4. TypeOK' /\ AttemptOK'
      BY <3>1, <3>2, <3>3 DEF Retry, End
    <3>5. BudgetOK'
      <4> SUFFICES ASSUME NEW x \in Sales,
                          \/ leaseToken'[x] # None
                          \/ status'[x] \in {"pending", "processing"}
                          \/ row'[x] = "new"
                   PROVE  attempts'[x] < MaxAttempts
        OBVIOUS
      <4>1. CASE x = s
        <5>1. status'[s] = verdict /\ leaseToken'[s] = None
              /\ attempts'[s] = attempts[s] + 1
          BY <3>1, <3>3 DEF Retry
        <5> QED
          BY <4>1, <5>1, <3>1, <3>2, <3>3
      <4>2. CASE x # s
        BY <4>2, <3>1, <3>3 DEF Retry
      <4> QED
        BY <4>1, <4>2
    <3> QED
      BY <3>4, <3>5
  <2> QED
    BY <2>1, <2>2
<1>10. ASSUME NEW w \in Workers, Crash(w) PROVE Typed'
  BY <1>10 DEF Crash, End, Fault
<1>11. ASSUME NEW s \in Sales, CreateSale(s) PROVE Typed'
  BY <1>11 DEF CreateSale
<1>12. ASSUME NEW s \in Sales, LeaseExpires(s) PROVE Typed'
  BY <1>12 DEF LeaseExpires
<1>13. ASSUME NEW s \in Sales, BackoffElapses(s) PROVE Typed'
  BY <1>13 DEF BackoffElapses
<1>14. ASSUME NEW s \in Sales, RequestInvoice(s) PROVE Typed'
  BY <1>14 DEF RequestInvoice
<1>15. ASSUME NEW s \in Sales, ResetFailedJob(s) PROVE Typed'
  BY <1>15 DEF ResetFailedJob
<1>16. ASSUME NEW s \in Sales, DeleteListed(s) PROVE Typed'
  BY <1>16 DEF DeleteListed
<1>17. CASE BeginDeletion
  BY <1>17 DEF BeginDeletion
<1>18. CASE ListKeys
  BY <1>18 DEF ListKeys, IndexedSales
<1>19. CASE ForgetKeys
  BY <1>19 DEF ForgetKeys
<1>20. CASE DeleteOrganization
  BY <1>20 DEF DeleteOrganization
<1>21. CASE CleanupFails
  BY <1>21 DEF CleanupFails, Fault
<1>22. CASE UNCHANGED vars
  BY <1>22 DEF vars
<1> QED
  BY <1>1, <1>2, <1>3, <1>4, <1>5, <1>6, <1>7, <1>8, <1>9, <1>10, <1>11,
     <1>12, <1>13, <1>14, <1>15, <1>16, <1>17, <1>18, <1>19, <1>20, <1>21,
     <1>22
  DEF Next, WorkerStep, SaleStep

LEMMA TokensStep == Typed /\ TokensOK /\ [Next]_vars => TokensOK'
<1> SUFFICES ASSUME Typed, TokensOK, [Next]_vars PROVE TokensOK'
  OBVIOUS
<1> USE ConstantsAssumption
    DEF Typed, TypeOK, AttemptOK, TokensOK,
        jobVars, saleVars, attemptVars, cleanupVars, boundVars
<1>1. ASSUME NEW w \in Workers, NEW s \in Sales, NEW t \in Tokens, Claim(w, s, t)
      PROVE  TokensOK'
  BY <1>1 DEF Claim, Claimable, ClaimWith, TokensInUse
<1>2. ASSUME NEW w \in Workers, Render(w) PROVE TokensOK'
  BY <1>2 DEF Render, Goto
<1>3. ASSUME NEW w \in Workers, Upload(w) PROVE TokensOK'
  BY <1>3 DEF Upload, Goto
<1>4. ASSUME NEW w \in Workers, UploadFails(w) PROVE TokensOK'
  BY <1>4 DEF UploadFails, Goto, Fault
<1>5. ASSUME NEW w \in Workers, Commit(w) PROVE TokensOK'
  BY <1>5 DEF Commit, Goto
<1>6. ASSUME NEW w \in Workers, DeleteOrphan(w) PROVE TokensOK'
  BY <1>6 DEF DeleteOrphan, Goto
<1>7. ASSUME NEW w \in Workers, DeleteOrphanFails(w) PROVE TokensOK'
  BY <1>7 DEF DeleteOrphanFails, Goto, Fault
<1>8. ASSUME NEW w \in Workers, FinishReady(w) PROVE TokensOK'
  BY <1>8 DEF FinishReady, End, Owns, Runs
<1>9. ASSUME NEW w \in Workers, FinishError(w) PROVE TokensOK'
  BY <1>9 DEF FinishError, End, Owns, Runs, Retry
<1>10. ASSUME NEW w \in Workers, Crash(w) PROVE TokensOK'
  BY <1>10 DEF Crash, End, Fault
<1>11. ASSUME NEW s \in Sales, CreateSale(s) PROVE TokensOK'
  BY <1>11 DEF CreateSale
<1>12. ASSUME NEW s \in Sales, LeaseExpires(s) PROVE TokensOK'
  BY <1>12 DEF LeaseExpires
<1>13. ASSUME NEW s \in Sales, BackoffElapses(s) PROVE TokensOK'
  BY <1>13 DEF BackoffElapses
<1>14. ASSUME NEW s \in Sales, RequestInvoice(s) PROVE TokensOK'
  BY <1>14 DEF RequestInvoice
<1>15. ASSUME NEW s \in Sales, ResetFailedJob(s) PROVE TokensOK'
  BY <1>15 DEF ResetFailedJob
<1>16. ASSUME NEW s \in Sales, DeleteListed(s) PROVE TokensOK'
  BY <1>16 DEF DeleteListed
<1>17. CASE BeginDeletion
  BY <1>17 DEF BeginDeletion
<1>18. CASE ListKeys
  BY <1>18 DEF ListKeys, IndexedSales
<1>19. CASE ForgetKeys
  BY <1>19 DEF ForgetKeys
<1>20. CASE DeleteOrganization
  BY <1>20 DEF DeleteOrganization
<1>21. CASE CleanupFails
  BY <1>21 DEF CleanupFails, Fault
<1>22. CASE UNCHANGED vars
  BY <1>22 DEF vars
<1> QED
  BY <1>1, <1>2, <1>3, <1>4, <1>5, <1>6, <1>7, <1>8, <1>9, <1>10, <1>11,
     <1>12, <1>13, <1>14, <1>15, <1>16, <1>17, <1>18, <1>19, <1>20, <1>21,
     <1>22
  DEF Next, WorkerStep, SaleStep

LEMMA ShopStep == Typed /\ ShopOK /\ [Next]_vars => ShopOK'
<1> SUFFICES ASSUME Typed, ShopOK, [Next]_vars PROVE ShopOK'
  OBVIOUS
<1> USE ConstantsAssumption
    DEF Typed, TypeOK, AttemptOK, ShopOK,
        jobVars, saleVars, attemptVars, cleanupVars, boundVars
<1>1. ASSUME NEW w \in Workers, NEW s \in Sales, NEW t \in Tokens, Claim(w, s, t)
      PROVE  ShopOK'
  BY <1>1 DEF Claim, Claimable, ClaimWith, TokensInUse
<1>2. ASSUME NEW w \in Workers, Render(w) PROVE ShopOK'
  BY <1>2 DEF Render, Goto
<1>3. ASSUME NEW w \in Workers, Upload(w) PROVE ShopOK'
  BY <1>3 DEF Upload, Goto
<1>4. ASSUME NEW w \in Workers, UploadFails(w) PROVE ShopOK'
  BY <1>4 DEF UploadFails, Goto, Fault
<1>5. ASSUME NEW w \in Workers, Commit(w) PROVE ShopOK'
  BY <1>5 DEF Commit, Goto
<1>6. ASSUME NEW w \in Workers, DeleteOrphan(w) PROVE ShopOK'
  BY <1>6 DEF DeleteOrphan, Goto
<1>7. ASSUME NEW w \in Workers, DeleteOrphanFails(w) PROVE ShopOK'
  BY <1>7 DEF DeleteOrphanFails, Goto, Fault
<1>8. ASSUME NEW w \in Workers, FinishReady(w) PROVE ShopOK'
  BY <1>8 DEF FinishReady, End, Owns, Runs
<1>9. ASSUME NEW w \in Workers, FinishError(w) PROVE ShopOK'
  BY <1>9 DEF FinishError, End, Owns, Runs, Retry
<1>10. ASSUME NEW w \in Workers, Crash(w) PROVE ShopOK'
  BY <1>10 DEF Crash, End, Fault
<1>11. ASSUME NEW s \in Sales, CreateSale(s) PROVE ShopOK'
  BY <1>11 DEF CreateSale
<1>12. ASSUME NEW s \in Sales, LeaseExpires(s) PROVE ShopOK'
  BY <1>12 DEF LeaseExpires
<1>13. ASSUME NEW s \in Sales, BackoffElapses(s) PROVE ShopOK'
  BY <1>13 DEF BackoffElapses
<1>14. ASSUME NEW s \in Sales, RequestInvoice(s) PROVE ShopOK'
  BY <1>14 DEF RequestInvoice
<1>15. ASSUME NEW s \in Sales, ResetFailedJob(s) PROVE ShopOK'
  BY <1>15 DEF ResetFailedJob
<1>16. ASSUME NEW s \in Sales, DeleteListed(s) PROVE ShopOK'
  BY <1>16 DEF DeleteListed
<1>17. CASE BeginDeletion
  BY <1>17 DEF BeginDeletion
<1>18. CASE ListKeys
  BY <1>18 DEF ListKeys, IndexedSales
<1>19. CASE ForgetKeys
  BY <1>19 DEF ForgetKeys
<1>20. CASE DeleteOrganization
  BY <1>20 DEF DeleteOrganization
<1>21. CASE CleanupFails
  BY <1>21 DEF CleanupFails, Fault
<1>22. CASE UNCHANGED vars
  BY <1>22 DEF vars
<1> QED
  BY <1>1, <1>2, <1>3, <1>4, <1>5, <1>6, <1>7, <1>8, <1>9, <1>10, <1>11,
     <1>12, <1>13, <1>14, <1>15, <1>16, <1>17, <1>18, <1>19, <1>20, <1>21,
     <1>22
  DEF Next, WorkerStep, SaleStep

LEMMA StoreStep == Typed /\ ShopOK /\ StoreOK /\ [Next]_vars => StoreOK'
<1> SUFFICES ASSUME Typed, ShopOK, StoreOK, [Next]_vars PROVE StoreOK'
  OBVIOUS
<1> USE ConstantsAssumption
    DEF Typed, TypeOK, AttemptOK, ShopOK, StoreOK,
        jobVars, saleVars, attemptVars, cleanupVars, boundVars
<1>1. ASSUME NEW w \in Workers, NEW s \in Sales, NEW t \in Tokens, Claim(w, s, t)
      PROVE  StoreOK'
  BY <1>1 DEF Claim, Claimable, ClaimWith, TokensInUse
<1>2. ASSUME NEW w \in Workers, Render(w) PROVE StoreOK'
  BY <1>2 DEF Render, Goto
<1>3. ASSUME NEW w \in Workers, Upload(w) PROVE StoreOK'
  BY <1>3 DEF Upload, Goto
<1>4. ASSUME NEW w \in Workers, UploadFails(w) PROVE StoreOK'
  BY <1>4 DEF UploadFails, Goto, Fault
<1>5. ASSUME NEW w \in Workers, Commit(w) PROVE StoreOK'
  BY <1>5 DEF Commit, Goto
<1>6. ASSUME NEW w \in Workers, DeleteOrphan(w) PROVE StoreOK'
  BY <1>6 DEF DeleteOrphan, Goto
<1>7. ASSUME NEW w \in Workers, DeleteOrphanFails(w) PROVE StoreOK'
  BY <1>7 DEF DeleteOrphanFails, Goto, Fault
<1>8. ASSUME NEW w \in Workers, FinishReady(w) PROVE StoreOK'
  BY <1>8 DEF FinishReady, End, Owns, Runs
<1>9. ASSUME NEW w \in Workers, FinishError(w) PROVE StoreOK'
  BY <1>9 DEF FinishError, End, Owns, Runs, Retry
<1>10. ASSUME NEW w \in Workers, Crash(w) PROVE StoreOK'
  BY <1>10 DEF Crash, End, Fault
<1>11. ASSUME NEW s \in Sales, CreateSale(s) PROVE StoreOK'
  BY <1>11 DEF CreateSale
<1>12. ASSUME NEW s \in Sales, LeaseExpires(s) PROVE StoreOK'
  BY <1>12 DEF LeaseExpires
<1>13. ASSUME NEW s \in Sales, BackoffElapses(s) PROVE StoreOK'
  BY <1>13 DEF BackoffElapses
<1>14. ASSUME NEW s \in Sales, RequestInvoice(s) PROVE StoreOK'
  BY <1>14 DEF RequestInvoice
<1>15. ASSUME NEW s \in Sales, ResetFailedJob(s) PROVE StoreOK'
  BY <1>15 DEF ResetFailedJob
<1>16. ASSUME NEW s \in Sales, DeleteListed(s) PROVE StoreOK'
  BY <1>16 DEF DeleteListed
<1>17. CASE BeginDeletion
  BY <1>17 DEF BeginDeletion
<1>18. CASE ListKeys
  BY <1>18 DEF ListKeys, IndexedSales
<1>19. CASE ForgetKeys
  BY <1>19 DEF ForgetKeys
<1>20. CASE DeleteOrganization
  BY <1>20 DEF DeleteOrganization
<1>21. CASE CleanupFails
  BY <1>21 DEF CleanupFails, Fault
<1>22. CASE UNCHANGED vars
  BY <1>22 DEF vars
<1> QED
  BY <1>1, <1>2, <1>3, <1>4, <1>5, <1>6, <1>7, <1>8, <1>9, <1>10, <1>11,
     <1>12, <1>13, <1>14, <1>15, <1>16, <1>17, <1>18, <1>19, <1>20, <1>21,
     <1>22
  DEF Next, WorkerStep, SaleStep

-----------------------------------------------------------------------------
LEMMA IInvStep == IInv /\ [Next]_vars => IInv'
BY TypedStep, TokensStep, ShopStep, StoreStep DEF IInv

LEMMA Invariance == Spec => []IInv
BY InitIInv, IInvStep, PTL DEF Spec

\* Every column, slot and bound keeps its type, for any number of sales,
\* attempts in flight and permitted retries; in particular no interleaving of
\* finishes and resets counts more than MaxAttempts attempts.
THEOREM TypeCorrectness == Spec => []TypeOK
BY Invariance, PTL DEF IInv, Typed

\* Fencing: two attempts never both own a job, however many leases expire.
\* Claim's token is fresh, so running attempts hold different tokens.
THEOREM Fencing == Spec => []OneOwner
<1>1. IInv => OneOwner
  BY DEF IInv, TokensOK, OneOwner, Owns, Runs
<1> QED
  BY <1>1, Invariance, PTL

\* While the shop is active, the object under an indexed key has the checksum
\* the row records: the create-only upload makes racing attempts agree.
THEOREM IndexedIsStored == Spec => []IndexedInvoiceIsStored
<1>1. IInv => IndexedInvoiceIsStored
  BY DEF IInv, StoreOK, IndexedInvoiceIsStored
<1> QED
  BY <1>1, Invariance, PTL

\* While the shop is active, a ready job has an indexed PDF.
THEOREM ReadyIsIndexed == Spec => []ReadyJobIsIndexed
<1>1. IInv => ReadyJobIsIndexed
  BY DEF IInv, StoreOK, ReadyJobIsIndexed
<1> QED
  BY <1>1, Invariance, PTL

\* No step that leaves the shop active changes the key, the checksum or the bytes
\* of an invoice on record.
LEMMA IssuedStays ==
  IInv /\ [Next]_vars =>
    \A s \in Sales : shop' = "active" /\ index[s] # None =>
                       object'[s] = object[s] /\ index'[s] = index[s]
<1> SUFFICES ASSUME IInv, [Next]_vars, NEW s \in Sales,
                    shop' = "active", index[s] # None
             PROVE  object'[s] = object[s] /\ index'[s] = index[s]
  OBVIOUS
<1> USE ConstantsAssumption
    DEF IInv, Typed, TypeOK, AttemptOK, ShopOK, StoreOK,
        jobVars, saleVars, attemptVars, cleanupVars, boundVars
<1>1. ASSUME NEW w \in Workers, WorkerStep(w)
      PROVE  object'[s] = object[s] /\ index'[s] = index[s]
  <2>1. shop = "active" /\ object[s] = index[s]
    BY <1>1 DEF WorkerStep, Render, Upload, UploadFails, Commit, DeleteOrphan,
                DeleteOrphanFails, FinishReady, FinishError, Crash
  <2>2. CASE Upload(w) \/ UploadFails(w)
    BY <2>1, <2>2 DEF Upload, UploadFails
  <2>3. CASE Commit(w)
    BY <2>1, <2>3 DEF Commit
  <2>4. CASE DeleteOrphan(w)
    BY <2>1, <2>4 DEF DeleteOrphan
  <2>5. CASE \/ Render(w) \/ DeleteOrphanFails(w) \/ FinishReady(w)
             \/ FinishError(w) \/ Crash(w)
    BY <2>5 DEF Render, DeleteOrphanFails, FinishReady, FinishError, Crash
  <2> QED
    BY <1>1, <2>2, <2>3, <2>4, <2>5 DEF WorkerStep
<1>2. ASSUME NEW x \in Sales, SaleStep(x)
      PROVE  object'[s] = object[s] /\ index'[s] = index[s]
  BY <1>2 DEF SaleStep, CreateSale, LeaseExpires, BackoffElapses,
              RequestInvoice, ResetFailedJob, DeleteListed
<1>3. ASSUME NEW w \in Workers, NEW x \in Sales, NEW t \in Tokens, Claim(w, x, t)
      PROVE  object'[s] = object[s] /\ index'[s] = index[s]
  BY <1>3 DEF Claim, ClaimWith
<1>4. CASE \/ BeginDeletion \/ ListKeys \/ ForgetKeys
           \/ DeleteOrganization \/ CleanupFails
  BY <1>4 DEF BeginDeletion, ListKeys, ForgetKeys, DeleteOrganization, CleanupFails
<1>5. CASE UNCHANGED vars
  BY <1>5 DEF vars
<1> QED
  BY <1>1, <1>2, <1>3, <1>4, <1>5 DEF Next

\* While the shop stays active, no step of any attempt, request or worker
\* changes the key, the checksum or the bytes of an invoice already issued.
THEOREM InvoiceImmutable == Spec => IssuedInvoiceIsImmutable
BY IssuedStays, Invariance, PTL DEF Spec, IssuedInvoiceIsImmutable

\* What one step of the pipeline does to the document of each sale.
LEMMA DocumentRefined ==
  IInv /\ [Next]_vars => \A s \in Sales : [Document(s)!Next]_(Document(s)!vars)
<1> SUFFICES ASSUME IInv, [Next]_vars, NEW s \in Sales
             PROVE  [Document(s)!Next]_(Document(s)!vars)
  OBVIOUS
<1> USE ConstantsAssumption
    DEF IInv, Typed, TypeOK, AttemptOK,
        jobVars, saleVars, attemptVars, cleanupVars, boundVars,
        Document!Next, Document!vars, Document!Record, Document!Mark, Document!Forget
<1>1. ASSUME NEW w \in Workers, Commit(w)
      PROVE  [Document(s)!Next]_(Document(s)!vars)
  BY <1>1 DEF Commit
<1>2. ASSUME NEW w \in Workers, FinishError(w)
      PROVE  [Document(s)!Next]_(Document(s)!vars)
  BY <1>2 DEF FinishError, Retry
<1>3. ASSUME NEW w \in Workers,
             \/ Render(w) \/ Upload(w) \/ UploadFails(w) \/ DeleteOrphan(w)
             \/ DeleteOrphanFails(w) \/ FinishReady(w) \/ Crash(w)
      PROVE  [Document(s)!Next]_(Document(s)!vars)
  BY <1>3 DEF Render, Upload, UploadFails, DeleteOrphan, DeleteOrphanFails,
              FinishReady, Crash
<1>4. ASSUME NEW x \in Sales, SaleStep(x)
      PROVE  [Document(s)!Next]_(Document(s)!vars)
  BY <1>4 DEF SaleStep, CreateSale, LeaseExpires, BackoffElapses,
              RequestInvoice, ResetFailedJob, DeleteListed
<1>5. ASSUME NEW w \in Workers, NEW x \in Sales, NEW t \in Tokens, Claim(w, x, t)
      PROVE  [Document(s)!Next]_(Document(s)!vars)
  BY <1>5 DEF Claim, ClaimWith
<1>6. CASE \/ BeginDeletion \/ ListKeys \/ ForgetKeys
           \/ DeleteOrganization \/ CleanupFails
  BY <1>6 DEF BeginDeletion, ListKeys, ForgetKeys, DeleteOrganization, CleanupFails
<1>7. CASE UNCHANGED vars
  BY <1>7 DEF vars
<1> QED
  BY <1>1, <1>2, <1>3, <1>4, <1>5, <1>6, <1>7 DEF Next, WorkerStep

\* The pipeline implements SaleDocument for every sale: what other components
\* see of a document is the abstract machine they rely on.
THEOREM Refinement == Spec => ImplementsSaleDocument
<1>1. Init => \A s \in Sales : Document(s)!Init
  BY DEF Init, Document!Init
<1> QED
  BY <1>1, DocumentRefined, Invariance, PTL DEF Spec, ImplementsSaleDocument

-----------------------------------------------------------------------------
(* The delivery beside the pipeline.                                        *)

\* A step of the system is a step of the pipeline, or leaves it alone.
LEMMA PipelineStep ==
  [SystemNext]_<<vars, deliveryVars>> => [Next]_vars
BY DEF SystemNext

LEMMA SystemInvariance == SystemSpec => []IInv
BY InitIInv, IInvStep, PipelineStep, PTL DEF SystemSpec, SystemInit

\* What every step of the system is to the delivery: its own, or one of the document,
\* which the pipeline writes as SaleDocument says.
LEMMA DeliveryStep ==
  ASSUME TheSale \in Sales, IInv, [SystemNext]_<<vars, deliveryVars>>
  PROVE  [Delivery!Next]_(Delivery!vars)
<1>1. CASE UNCHANGED deliveryVars /\ [Next]_vars
  <2>1. [Document(TheSale)!Next]_(Document(TheSale)!vars)
    BY <1>1, DocumentRefined
  <2>2. CASE Document(TheSale)!Next
    <3>1. Delivery!Document!Next
      BY <2>2 DEF Document!Next, Document!Record, Document!Mark, Document!Forget,
                  Delivery!Document!Next, Delivery!Document!Record,
                  Delivery!Document!Mark, Delivery!Document!Forget
    <3>2. Delivery!DocumentStep
      BY <1>1, <3>1
      DEF deliveryVars, Delivery!DocumentStep, Delivery!rowVars, Delivery!jobVars,
          Delivery!attemptVars, Delivery!providerVars, Delivery!boundVars
    <3> QED
      BY <3>2 DEF Delivery!Next
  <2>3. CASE UNCHANGED Document(TheSale)!vars
    BY <1>1, <2>3
    DEF deliveryVars, Document!vars, Delivery!vars, Delivery!rowVars, Delivery!jobVars,
        Delivery!attemptVars, Delivery!providerVars, Delivery!documentVars, Delivery!boundVars
  <2> QED
    BY <2>1, <2>2, <2>3
<1>2. CASE Delivery!Next
  BY <1>2
<1> QED
  BY <1>1, <1>2 DEF SystemNext

\* The delivery beside the pipeline implements WhatsAppDelivery: each attempt, re-opened
\* job and deletion of the pipeline is a step the delivery allows its document, so what is
\* proved of the delivery alone holds of the two together.
THEOREM DeliveryRefined ==
  ASSUME TheSale \in Sales
  PROVE  SystemSpec => DeliverySpec
BY DeliveryStep, SystemInvariance, PTL
DEF SystemSpec, SystemInit, DeliverySpec, Delivery!Spec

\* A shop is never active again.
LEMMA ShopStays == [Next]_vars /\ shop' = "active" => shop = "active"
<1> SUFFICES ASSUME [Next]_vars, shop' = "active" PROVE shop = "active"
  OBVIOUS
<1> USE DEF cleanupVars
<1>1. ASSUME NEW w \in Workers, WorkerStep(w) PROVE shop = "active"
  BY <1>1 DEF WorkerStep, Render, Upload, UploadFails, Commit, DeleteOrphan,
              DeleteOrphanFails, FinishReady, FinishError, Crash
<1>2. ASSUME NEW s \in Sales, SaleStep(s) PROVE shop = "active"
  BY <1>2 DEF SaleStep, CreateSale, LeaseExpires, BackoffElapses, RequestInvoice,
              ResetFailedJob, DeleteListed
<1>3. ASSUME NEW w \in Workers, NEW s \in Sales, NEW t \in Tokens, Claim(w, s, t)
      PROVE  shop = "active"
  BY <1>3 DEF Claim, ClaimWith
<1>4. CASE \/ BeginDeletion \/ ListKeys \/ ForgetKeys
           \/ DeleteOrganization \/ CleanupFails
  BY <1>4 DEF BeginDeletion, ListKeys, ForgetKeys, DeleteOrganization, CleanupFails
<1>5. CASE UNCHANGED vars
  BY <1>5 DEF vars
<1> QED
  BY <1>1, <1>2, <1>3, <1>4, <1>5 DEF Next

\* While the shop is active, an attempt that has read the row may go on: the key it
\* found is still there.
SenderOK ==
  /\ sender \in [Senders -> {"idle", "claimed", "loaded", "cleared", "deferred", "finish"}]
  /\ shop = "active" =>
       \A v \in Senders : sender[v] \in {"loaded", "cleared"} => index[TheSale] # None

LEMMA SenderStep ==
  ASSUME TheSale \in Sales, IInv, SenderOK, [SystemNext]_<<vars, deliveryVars>>
  PROVE  SenderOK'
<1>1. CASE UNCHANGED deliveryVars /\ [Next]_vars
  <2>1. shop' = "active" => shop = "active" /\ (index[TheSale] # None => index'[TheSale] # None)
    BY <1>1, ShopStays, IssuedStays
  <2> QED
    BY <1>1, <2>1 DEF SenderOK, deliveryVars
<1>2. CASE UNCHANGED vars /\ Delivery!Next
  <2>1. UNCHANGED <<shop, index>>
    BY <1>2 DEF vars, saleVars, cleanupVars
  <2> USE DEF SenderOK, Delivery!Goto, Delivery!Conclude, Delivery!End, Delivery!attemptVars
  <2>2. ASSUME NEW v \in Senders, NEW d \in Deliveries, NEW t \in SenderTokens,
               Delivery!Claim(v, d, t)
        PROVE  SenderOK'
    BY <2>1, <2>2 DEF Delivery!Claim
  <2>3. ASSUME NEW v \in Senders, Delivery!Load(v) PROVE SenderOK'
    BY <2>1, <2>3 DEF Delivery!Load, Delivery!Deliverable
  <2>4. ASSUME NEW v \in Senders, Delivery!CheckSuppression(v) PROVE SenderOK'
    BY <2>1, <2>4 DEF Delivery!CheckSuppression
  <2>5. ASSUME NEW v \in Senders, Delivery!Send(v) \/ Delivery!SendFails(v)
        PROVE  SenderOK'
    BY <2>1, <2>5 DEF Delivery!Send, Delivery!SendFails
  <2>6. ASSUME NEW v \in Senders,
               Delivery!Defer(v) \/ Delivery!Finish(v) \/ Delivery!Crash(v)
        PROVE  SenderOK'
    BY <2>1, <2>6 DEF Delivery!Defer, Delivery!Finish, Delivery!Crash
  <2>7. ASSUME NEW d \in Deliveries, Delivery!DeliveryStep(d) PROVE SenderOK'
    BY <2>1, <2>7
    DEF Delivery!DeliveryStep, Delivery!Ask, Delivery!Queue, Delivery!LeaseExpires,
        Delivery!BackoffElapses, Delivery!Report, Delivery!Callback
  <2>8. CASE Delivery!OptOut \/ Delivery!DocumentStep \/ Delivery!DeleteRows
    BY <2>1, <2>8 DEF Delivery!OptOut, Delivery!DocumentStep, Delivery!DeleteRows
  <2> QED
    BY <1>2, <2>2, <2>3, <2>4, <2>5, <2>6, <2>7, <2>8
    DEF Delivery!Next, Delivery!WorkerStep
<1> QED
  BY <1>1, <1>2 DEF SystemNext

\* Only an attempt that has read the row and found no suppression sends.
LEMMA SendsWhatIsStored ==
  ASSUME TheSale \in Sales, IInv, SenderOK, [SystemNext]_<<vars, deliveryVars>>,
         shop = "active", messages' # messages
  PROVE  index[TheSale] # None /\ object[TheSale] = index[TheSale]
<1>1. Delivery!Next
  BY DEF SystemNext, deliveryVars
<1>2. PICK v \in Senders : Delivery!Send(v)
  <2> USE DEF Delivery!providerVars
  <2>1. ASSUME NEW w \in Senders, NEW d \in Deliveries, NEW t \in SenderTokens,
               Delivery!Claim(w, d, t)
        PROVE  FALSE
    BY <2>1 DEF Delivery!Claim
  <2>2. ASSUME NEW w \in Senders, Delivery!WorkerStep(w) PROVE Delivery!Send(w)
    BY <2>2
    DEF Delivery!WorkerStep, Delivery!Load, Delivery!CheckSuppression, Delivery!SendFails,
        Delivery!Defer, Delivery!Finish, Delivery!Crash
  <2>3. ASSUME NEW d \in Deliveries, Delivery!DeliveryStep(d) PROVE FALSE
    BY <2>3
    DEF Delivery!DeliveryStep, Delivery!Ask, Delivery!Queue, Delivery!LeaseExpires,
        Delivery!BackoffElapses, Delivery!Report, Delivery!Callback
  <2>4. CASE Delivery!OptOut \/ Delivery!DocumentStep \/ Delivery!DeleteRows
    BY <2>4 DEF Delivery!OptOut, Delivery!DocumentStep, Delivery!DeleteRows
  <2> QED
    BY <1>1, <2>1, <2>2, <2>3, <2>4 DEF Delivery!Next
<1>3. sender[v] = "cleared"
  BY <1>2 DEF Delivery!Send
<1> QED
  BY <1>3 DEF IInv, StoreOK, SenderOK

\* While the shop is active, a message the provider takes was sent when the sale's key
\* was recorded and the bytes stored were those on record, whatever the pipeline has done
\* since the sender read the row.
THEOREM MessagesCarryTheInvoice ==
  ASSUME TheSale \in Sales
  PROVE  SystemSpec => SentIsStored
<1>1. SystemInit => SenderOK
  BY DEF SystemInit, Delivery!Init, SenderOK
<1>2. SystemSpec => []SenderOK
  BY <1>1, SenderStep, SystemInvariance, PTL DEF SystemSpec
<1>3. IInv /\ SenderOK /\ [SystemNext]_<<vars, deliveryVars>> =>
        [shop = "active" /\ messages' # messages =>
           index[TheSale] # None /\ object[TheSale] = index[TheSale]]_<<vars, deliveryVars>>
  BY SendsWhatIsStored
<1> QED
  BY <1>2, <1>3, SystemInvariance, PTL DEF SystemSpec, SentIsStored
=============================================================================
