------------------------ MODULE AccountDeletionProofs ------------------------
(* Proofs about AccountDeletion: that a cancelled request has touched       *)
(* nothing, and that a deletion leaves nothing behind.                      *)
EXTENDS AccountDeletion, TLAPS

\* The steps at which a worker has organizations on its list.
Cleaning == {"next", "cancelling", "reading", "erasing", "erased"}

\* What a worker has on its list, at each step.
WorkerAt(w) ==
  /\ pc[w] \notin Cleaning =>
       targets[w] = {} /\ listed[w] = {} /\ todo[w] = {} /\ at[w] = None
  /\ pc[w] \in Cleaning \ {"next"} => at[w] \in listed[w]
  /\ pc[w] \in Cleaning \cup {"begun"} => started[job[w]]
  /\ todo[w] \subseteq listed[w]
  /\ \A s \in listed[w] : s[1] \in targets[w]

WorkerOK == \A w \in Workers : WorkerAt(w)

\* A request that was begun can no longer be cancelled.
StartedOK ==
  \A q \in Requests :
    /\ started[q] => request[q] \in {"confirmed", "completed"}
    /\ q \in touched => started[q]

\* An owned organization has a shop; one that is gone has none left.
OrgsOK ==
  \A o \in Orgs :
    /\ owner[o] = "user" => \E s \in ShopsOf(o) : shop[s] # "none"
    /\ owner[o] = "gone" => \A s \in ShopsOf(o) : shop[s] \in {"none", "gone"}

\* A worker's list has every shop of its organizations, but for those added since.
Listed(w) ==
  \A o \in targets[w] :
    /\ owner[o] # "none"
    /\ listed[w] \cap ShopsOf(o) # {}
    /\ \A s \in ShopsOf(o) : shop[s] = "none" \/ s \in listed[w] \cup late

ListedOK == \A w \in Workers : Listed(w)

\* Once one of its shops is at hand an organization's subscription is cancelled, or
\* about to be.
Billed(w) ==
  \A o \in targets[w] :
    \/ todo[w] \cap ShopsOf(o) = listed[w] \cap ShopsOf(o)
    \/ ~renewing[o]
    \/ pc[w] = "cancelling" /\ at[w][1] = o

BilledOK == \A w \in Workers : Billed(w)

\* An invoice in storage has its key in the row, but for those no row tells of.
KeysOK ==
  \A s \in Shops : object[s] = "stored" => key[s] \/ s \in stray \/ Unrecorded(s)

IInv ==
  /\ TypeOK /\ WorkerOK /\ StartedOK /\ OrgsOK /\ ListedOK /\ BilledOK /\ KeysOK
  /\ NothingLeftInStorage /\ BillingStops /\ NoneOrphaned

-----------------------------------------------------------------------------
\* A shop is a pair of its organization and a number.
LEMMA Pairs ==
  ASSUME NEW s \in Shops
  PROVE  s[1] \in Orgs /\ s \in ShopsOf(s[1]) /\ s # None
<1>1. s \in Orgs \X Nat
  BY ConstantsAssumption DEF ConstantsAssumption
<1>2. s[1] \in Orgs
  BY <1>1
<1>3. s # None
  BY ConstantsAssumption DEF ConstantsAssumption
<1> QED
  BY <1>2, <1>3 DEF ShopsOf

\* The steps that branch, one case at a time.  Begins, Lists, Completes: the worker
\* goes on.
Begins(w) ==
  /\ pc[w] = "claimed" /\ Open(w)
  /\ started' = [started EXCEPT ![job[w]] = TRUE]
  /\ Goto(w, "begun")
  /\ UNCHANGED <<userVars, orgVars, shopVars, renderVars, request, consent, due, retry, lease,
                 touched, late, faults>>

Lists(w) ==
  /\ pc[w] = "begun"
  /\ targets' = [targets EXCEPT ![w] = Owned]
  /\ listed' = [listed EXCEPT ![w] = ShopsListed]
  /\ todo' = [todo EXCEPT ![w] = ShopsListed]
  /\ shop' = [s \in Shops |-> IF s \in ShopsListed THEN "inactive" ELSE shop[s]]
  /\ touched' = touched \/ touched' = touched \cup {job[w]}
  /\ pc' = [pc EXCEPT ![w] = "next"]
  /\ UNCHANGED <<userVars, orgVars, object, key, adding, renderVars, requestVars, late,
                 faults, job, token, at>>

Completes(w) ==
  /\ pc[w] = "next" /\ todo[w] = {} /\ Open(w)
  /\ StillOwned(w) /\ StillClean(w) /\ Deletable(w)
  /\ user' = FALSE
  /\ owner' = [o \in Orgs |-> IF o \in targets[w] THEN "gone" ELSE owner[o]]
  /\ transfer' = [o \in Orgs |-> transfer[o] /\ o \notin targets[w]]
  /\ shop' = [s \in Shops |-> IF s[1] \in targets[w] /\ shop[s] # "none"
                              THEN "gone" ELSE shop[s]]
  /\ request' = [request EXCEPT ![job[w]] = "completed"]
  /\ lease' = [lease EXCEPT ![job[w]] = "free"]
  /\ End(w)
  /\ UNCHANGED <<pinned, renewing, object, key, adding, renderVars, consent, due, started,
                 retry, touched, late, faults>>

\* The worker stops, and has changed nothing but its claim.
Quits(w) ==
  /\ pc[w] # "idle"
  /\ End(w) \/ Fail(w)
  /\ UNCHANGED <<userVars, orgVars, shopVars, renderVars, request, consent, due, started,
                 touched, late>>

\* The steps that branch, in the forms above.
LEMMA Cases ==
  ASSUME NEW w \in Workers
  PROVE  /\ Begin(w) => Begins(w) \/ (Quits(w) /\ UNCHANGED <<lease, retry, faults>>)
         /\ ListOwned(w) => Lists(w) \/ (Quits(w) /\ UNCHANGED <<lease, retry, faults>>)
         /\ Final(w) => Completes(w) \/ (Quits(w) /\ UNCHANGED <<lease, retry, faults>>)
         /\ LeaseLost(w) \/ CallFails(w) \/ MarkFailure(w) \/ Die(w) => Quits(w)
<1>1. ASSUME Begin(w)
      PROVE  Begins(w) \/ (Quits(w) /\ UNCHANGED <<lease, retry, faults>>)
  <2>1. CASE Open(w)
    BY <1>1, <2>1 DEF Begin, Begins
  <2>2. CASE ~Open(w)
    BY <1>1, <2>2 DEF Begin, Quits
  <2> QED
    BY <2>1, <2>2
<1>2. ASSUME ListOwned(w)
      PROVE  Lists(w) \/ (Quits(w) /\ UNCHANGED <<lease, retry, faults>>)
  <2>1. CASE consent[job[w]] \/ Owned = {}
    BY <1>2, <2>1 DEF ListOwned, Lists, Reached
  <2>2. CASE ~(consent[job[w]] \/ Owned = {})
    BY <1>2, <2>2 DEF ListOwned, Quits, shopVars, requestVars
  <2> QED
    BY <2>1, <2>2
<1>3. ASSUME Final(w)
      PROVE  Completes(w) \/ (Quits(w) /\ UNCHANGED <<lease, retry, faults>>)
  <2>1. CASE Open(w) /\ StillOwned(w) /\ StillClean(w) /\ Deletable(w)
    BY <1>3, <2>1 DEF Final, Completes
  <2>2. CASE ~Open(w)
    BY <1>3, <2>2 DEF Final, Quits, userVars, orgVars, shopVars
  <2>3. CASE Open(w) /\ ~(StillOwned(w) /\ StillClean(w) /\ Deletable(w))
    BY <1>3, <2>3 DEF Final, Quits, userVars, orgVars, shopVars
  <2> QED
    BY <2>1, <2>2, <2>3
<1>4. ASSUME LeaseLost(w) \/ CallFails(w) \/ MarkFailure(w) \/ Die(w)
      PROVE  Quits(w)
  BY <1>4 DEF LeaseLost, CallFails, MarkFailure, Die, Quits, requestVars
<1> QED
  BY <1>1, <1>2, <1>3, <1>4

\* A worker that quits forgets its list; the others keep theirs.
LEMMA QuitFacts ==
  ASSUME TypeOK, NEW w \in Workers, Quits(w)
  PROVE  /\ \A x \in Workers \ {w} :
               /\ pc'[x] = pc[x] /\ job'[x] = job[x] /\ token'[x] = token[x]
               /\ targets'[x] = targets[x] /\ listed'[x] = listed[x]
               /\ todo'[x] = todo[x] /\ at'[x] = at[x]
         /\ pc'[w] \in {"idle", "failed"}
         /\ targets'[w] = {} /\ listed'[w] = {} /\ todo'[w] = {} /\ at'[w] = None
         /\ UNCHANGED <<userVars, orgVars, shopVars, renderVars, request, consent, due,
                        started, touched, late>>
<1>1. CASE End(w)
  BY <1>1 DEF Quits, End, Reached, TypeOK
<1>2. CASE Fail(w)
  BY <1>2 DEF Quits, Fail, Reached, TypeOK
<1> QED
  BY <1>1, <1>2 DEF Quits

LEMMA QuitTypes ==
  ASSUME TypeOK, NEW w \in Workers, Quits(w),
         lease' \in [Requests -> {"free", "held", "over"}],
         retry' \in [Requests -> BOOLEAN],
         faults' \in 0..MaxFaults
  PROVE  TypeOK'
<1> USE DEF TypeOK, userVars, orgVars, shopVars, renderVars
<1>1. UNCHANGED <<userVars, orgVars, shopVars, renderVars, request, consent, due, started,
                  touched, late>>
  BY DEF Quits
<1>2. CASE End(w)
  BY <1>1, <1>2 DEF End, Reached
<1>3. CASE Fail(w)
  <2>1. pc[w] # "idle"
    BY DEF Quits
  <2> QED
    BY <1>1, <1>3, <2>1 DEF Fail, Reached
<1> QED
  BY <1>2, <1>3 DEF Quits

\* Rendering an invoice touches nothing but the invoice.
LEMMA RenderFrame ==
  ASSUME NEW r \in Renderers, RenderInvoice(r)
  PROVE  UNCHANGED <<userVars, orgVars, shop, adding, requestVars, workerVars, touched, late>>
BY DEF RenderInvoice, ClaimInvoice, ReadSale, Upload, Record, DropInvoice, RenderEnds, Rendering

\* Every step keeps the types.
LEMMA TypeStep == IInv /\ [Next]_vars => TypeOK'
<1> SUFFICES ASSUME IInv, [Next]_vars PROVE TypeOK'
  OBVIOUS
<1> USE ConstantsAssumption
    DEF IInv, ConstantsAssumption, TypeOK, userVars, orgVars, shopVars, renderVars, requestVars,
        workerVars
<1>1. ASSUME NEW q \in Requests, Confirm(q)
      PROVE  TypeOK'
  BY <1>1 DEF Confirm
<1>2. ASSUME NEW q \in Requests, Cancel(q)
      PROVE  TypeOK'
  BY <1>2 DEF Cancel
<1>3. ASSUME NEW q \in Requests, GracePeriodEnds(q)
      PROVE  TypeOK'
  BY <1>3 DEF GracePeriodEnds
<1>4. ASSUME NEW q \in Requests, RetryDue(q)
      PROVE  TypeOK'
  BY <1>4 DEF RetryDue
<1>5. ASSUME NEW q \in Requests, LeaseExpires(q)
      PROVE  TypeOK'
  BY <1>5 DEF LeaseExpires, Fault
<1>6. ASSUME NEW s \in Shops, BeginAddShop(s)
      PROVE  TypeOK'
  BY <1>6 DEF BeginAddShop
<1>7. ASSUME NEW s \in Shops, CommitAddShop(s)
      PROVE  TypeOK'
  <2>1. CASE Existing(s[1])
    <3>1. shop' = [shop EXCEPT ![s] = "active"] /\ late' \subseteq late \cup {s}
      BY <1>7, <2>1 DEF CommitAddShop
    <3> QED
      BY <1>7, <3>1 DEF CommitAddShop
  <2>2. CASE ~Existing(s[1])
    <3>1. UNCHANGED <<shop, late>>
      BY <1>7, <2>2 DEF CommitAddShop
    <3> QED
      BY <1>7, <3>1 DEF CommitAddShop
  <2> QED
    BY <2>1, <2>2
<1>8. ASSUME NEW r \in Renderers, RenderInvoice(r)
      PROVE  TypeOK'
  <2>1. ASSUME NEW s \in Shops, ClaimInvoice(r, s)
        PROVE  TypeOK'
    BY <2>1, Pairs DEF ClaimInvoice, Rendering
  <2>2. ASSUME ReadSale(r)
        PROVE  TypeOK'
    <3>1. render[r] = "claimed" /\ UNCHANGED <<object, key, stray, faults>>
      BY <2>2 DEF ReadSale
    <3>2. CASE RenderEnds(r)
      BY <3>1, <3>2 DEF RenderEnds, Rendering
    <3>3. CASE Rendering(r, "rendered") /\ UNCHANGED sale
      BY <3>1, <3>3 DEF Rendering
    <3> QED
      BY <2>2, <3>2, <3>3 DEF ReadSale
  <2>3. ASSUME Upload(r)
        PROVE  TypeOK'
    BY <2>3 DEF Upload, Rendering
  <2>4. ASSUME Record(r)
        PROVE  TypeOK'
    <3>1. render[r] = "uploaded" /\ RenderEnds(r) /\ UNCHANGED faults
      BY <2>4 DEF Record
    <3>2. CASE shop[sale[r]] = "gone"
      <4>1. object' = [object EXCEPT ![sale[r]] = "erased"] /\ UNCHANGED <<key, stray>>
        BY <2>4, <3>2 DEF Record
      <4> QED
        BY <3>1, <4>1 DEF RenderEnds, Rendering
    <3>3. CASE shop[sale[r]] # "gone"
      <4>1. /\ key' = [key EXCEPT ![sale[r]] = TRUE] /\ UNCHANGED object
            /\ stray' = stray \ {sale[r]}
        BY <2>4, <3>3 DEF Record
      <4> QED
        BY <3>1, <3>3, <4>1 DEF RenderEnds, Rendering
    <3> QED
      BY <3>2, <3>3
  <2>5. ASSUME DropInvoice(r)
        PROVE  TypeOK'
    BY <2>5 DEF DropInvoice, RenderEnds, Rendering, Fault
  <2> QED
    BY <1>8, <2>1, <2>2, <2>3, <2>4, <2>5 DEF RenderInvoice
<1>9. ASSUME NEW o \in Orgs, FoundOrganization(o)
      PROVE  TypeOK'
  BY <1>9 DEF FoundOrganization
<1>10. ASSUME NEW o \in Orgs, HandOver(o)
      PROVE  TypeOK'
  BY <1>10 DEF HandOver
<1>11. ASSUME NEW w \in Workers, Begin(w)
      PROVE  TypeOK'
  <2>1. CASE Begins(w)
    BY <2>1 DEF Begins, Open, Goto, Reached
  <2>2. CASE Quits(w) /\ UNCHANGED <<lease, retry, faults>>
    BY <2>2, QuitTypes
  <2> QED
    BY <1>11, <2>1, <2>2, Cases
<1>12. ASSUME NEW w \in Workers, ListOwned(w)
      PROVE  TypeOK'
  <2>1. CASE Lists(w)
    BY <2>1 DEF Lists, Owned, ShopsListed
  <2>2. CASE Quits(w) /\ UNCHANGED <<lease, retry, faults>>
    BY <2>2, QuitTypes
  <2> QED
    BY <1>12, <2>1, <2>2, Cases
<1>13. ASSUME NEW w \in Workers, LeaseLost(w)
      PROVE  TypeOK'
  <2>1. UNCHANGED <<lease, retry, faults>>
    BY <1>13 DEF LeaseLost
  <2> QED
    BY <1>13, <2>1, Cases, QuitTypes
<1>14. ASSUME NEW w \in Workers, CancelBilling(w)
      PROVE  TypeOK'
  <2>1. /\ pc' = [pc EXCEPT ![w] = "reading"]
        /\ UNCHANGED <<job, token, targets, listed, todo, at>>
    BY <1>14 DEF CancelBilling, Goto, Reached
  <2>2. renewing' \in [Orgs -> BOOLEAN]
    BY <1>14 DEF CancelBilling
  <2>3. UNCHANGED <<userVars, owner, transfer, shopVars, renderVars, requestVars, touched,
                    late, faults>>
    BY <1>14 DEF CancelBilling
  <2>4. pc[w] # "idle"
    BY <1>14 DEF CancelBilling
  <2> QED
    BY <2>1, <2>2, <2>3, <2>4
<1>15. ASSUME NEW w \in Workers, ReadKeys(w)
      PROVE  TypeOK'
  <2>1. CASE key[at[w]]
    <3>1. pc' = [pc EXCEPT ![w] = "erasing"] /\ UNCHANGED <<job, token, targets, listed, todo,
                                                            at>>
      BY <1>15, <2>1 DEF ReadKeys, Goto, Reached
    <3>2. /\ pc[w] = "reading"
          /\ UNCHANGED <<userVars, orgVars, shopVars, renderVars, requestVars, touched, late,
                         faults>>
      BY <1>15 DEF ReadKeys
    <3> QED
      BY <3>1, <3>2
  <2>2. CASE ~key[at[w]]
    <3>1. /\ pc' = [pc EXCEPT ![w] = "next"] /\ at' = [at EXCEPT ![w] = None]
          /\ UNCHANGED <<job, token, targets, listed, todo>>
      BY <1>15, <2>2 DEF ReadKeys, Reached
    <3>2. /\ pc[w] = "reading"
          /\ UNCHANGED <<userVars, orgVars, shopVars, renderVars, requestVars, touched, late,
                         faults>>
      BY <1>15 DEF ReadKeys
    <3> QED
      BY <3>1, <3>2
  <2> QED
    BY <2>1, <2>2
<1>16. ASSUME NEW w \in Workers, Erase(w)
      PROVE  TypeOK'
  <2>1. /\ pc' = [pc EXCEPT ![w] = "erased"]
        /\ UNCHANGED <<job, token, targets, listed, todo, at>>
    BY <1>16 DEF Erase, Goto, Reached
  <2>2. /\ object' \in [Shops -> {"none", "stored", "erased"}]
        /\ lease' \in [Requests -> {"free", "held", "over"}]
    BY <1>16 DEF Erase, Renew
  <2>3. UNCHANGED <<userVars, orgVars, shop, key, adding, renderVars, request, consent, due,
                    started, retry, touched, late, faults>>
    BY <1>16 DEF Erase
  <2>4. pc[w] # "idle"
    BY <1>16 DEF Erase
  <2> QED
    BY <2>1, <2>2, <2>3, <2>4
<1>17. ASSUME NEW w \in Workers, ForgetKeys(w)
      PROVE  TypeOK'
  <2>1. /\ pc' = [pc EXCEPT ![w] = "reading"]
        /\ UNCHANGED <<job, token, targets, listed, todo, at>>
    BY <1>17 DEF ForgetKeys, Goto, Reached
  <2>2. key' \in [Shops -> BOOLEAN] /\ stray' \subseteq stray \cup {at[w]} /\ at[w] \in Shops
    BY <1>17 DEF ForgetKeys, WorkerOK, WorkerAt, Cleaning
  <2>3. UNCHANGED <<userVars, orgVars, shop, object, adding, render, sale, requestVars,
                    touched, late, faults>>
    BY <1>17 DEF ForgetKeys
  <2>4. pc[w] # "idle"
    BY <1>17 DEF ForgetKeys
  <2> QED
    BY <2>1, <2>2, <2>3, <2>4
<1>18. ASSUME NEW w \in Workers, Final(w)
      PROVE  TypeOK'
  <2>1. CASE Completes(w)
    <3>1. job[w] \in Requests
      BY <2>1 DEF Completes
    <3>2. /\ owner' \in [Orgs -> {"none", "user", "other", "gone"}]
          /\ transfer' \in [Orgs -> BOOLEAN]
          /\ shop' \in [Shops -> {"none", "active", "inactive", "gone"}]
          /\ user' \in BOOLEAN
      <4>1. owner' \in [Orgs -> {"none", "user", "other", "gone"}]
        BY <2>1 DEF Completes
      <4>2. transfer' \in [Orgs -> BOOLEAN] /\ user' \in BOOLEAN
        BY <2>1 DEF Completes
      <4>3. shop' \in [Shops -> {"none", "active", "inactive", "gone"}]
        BY <2>1 DEF Completes
      <4> QED
        BY <4>1, <4>2, <4>3
    <3>3. /\ request' \in [Requests -> {"asked", "confirmed", "cancelled", "completed"}]
          /\ lease' \in [Requests -> {"free", "held", "over"}]
      BY <2>1, <3>1 DEF Completes
    <3>4. /\ End(w)
          /\ UNCHANGED <<pinned, renewing, object, key, adding, renderVars, consent, due,
                         started, retry, touched, late, faults>>
      BY <2>1 DEF Completes
    <3> QED
      BY <3>2, <3>3, <3>4 DEF End, Reached
  <2>2. CASE Quits(w) /\ UNCHANGED <<lease, retry, faults>>
    BY <2>2, QuitTypes
  <2> QED
    BY <1>18, <2>1, <2>2, Cases
<1>19. ASSUME NEW w \in Workers, MarkFailure(w)
      PROVE  TypeOK'
  <2>1. Quits(w) /\ UNCHANGED faults
    BY <1>19, Cases DEF MarkFailure
  <2>2. CASE token[w]
    <3>1. /\ lease' = [lease EXCEPT ![job[w]] = "free"]
          /\ retry' = [retry EXCEPT ![job[w]] = FALSE]
      BY <1>19, <2>2 DEF MarkFailure
    <3> QED
      BY <2>1, <3>1, QuitTypes
  <2>3. CASE ~token[w]
    <3>1. UNCHANGED <<lease, retry>>
      BY <1>19, <2>3 DEF MarkFailure
    <3> QED
      BY <2>1, <3>1, QuitTypes
  <2> QED
    BY <2>2, <2>3
<1>20. ASSUME NEW w \in Workers, CallFails(w)
      PROVE  TypeOK'
  <2>1. UNCHANGED <<lease, retry>> /\ faults' \in 0..MaxFaults
    BY <1>20 DEF CallFails, Fault
  <2> QED
    BY <1>20, <2>1, Cases, QuitTypes
<1>21. ASSUME NEW w \in Workers, Die(w)
      PROVE  TypeOK'
  <2>1. UNCHANGED <<lease, retry>> /\ faults' \in 0..MaxFaults
    BY <1>21 DEF Die, Fault
  <2> QED
    BY <1>21, <2>1, Cases, QuitTypes
<1>22. ASSUME NEW w \in Workers, NEW s \in Shops, NextShop(w, s)
      PROVE  TypeOK'
  BY <1>22 DEF NextShop, Renew, Reached, First
<1>23. ASSUME NEW w \in Workers, NEW q \in Requests, Claim(w, q)
      PROVE  TypeOK'
  BY <1>23 DEF Claim, Claimable, Reached
<1>24. ASSUME UNCHANGED vars
      PROVE  TypeOK'
  BY <1>24 DEF vars
<1> QED
  BY <1>1, <1>2, <1>3, <1>4, <1>5, <1>6, <1>7, <1>8, <1>9, <1>10, <1>11, <1>12, <1>13, <1>14,
     <1>15, <1>16, <1>17, <1>18, <1>19, <1>20, <1>21, <1>22, <1>23, <1>24
     DEF Next, Process

\* Every step keeps what a worker has on its list.
LEMMA WorkerStep == IInv /\ [Next]_vars => WorkerOK'
<1> SUFFICES ASSUME IInv, [Next]_vars PROVE WorkerOK'
  OBVIOUS
<1>a. TypeOK'
  BY TypeStep
<1> USE ConstantsAssumption, <1>a
    DEF IInv, TypeOK, WorkerOK, WorkerAt, Cleaning, userVars, orgVars, shopVars, requestVars,
        workerVars
<1>b. ASSUME NEW w \in Workers, Quits(w)
      PROVE  WorkerOK'
  <2>1. WorkerAt(w)'
    BY <1>b, QuitFacts
  <2>2. ASSUME NEW x \in Workers \ {w}
        PROVE  WorkerAt(x)'
    <3>1. WorkerAt(x) /\ UNCHANGED started
      BY <1>b DEF Quits
    <3> QED
      BY <1>b, <3>1, QuitFacts
  <2> QED
    BY <2>1, <2>2
<1>1. ASSUME NEW q \in Requests, Confirm(q)
      PROVE  WorkerOK'
  BY <1>1 DEF Confirm
<1>2. ASSUME NEW q \in Requests, Cancel(q)
      PROVE  WorkerOK'
  BY <1>2 DEF Cancel
<1>3. ASSUME NEW q \in Requests, GracePeriodEnds(q)
      PROVE  WorkerOK'
  BY <1>3 DEF GracePeriodEnds
<1>4. ASSUME NEW q \in Requests, RetryDue(q)
      PROVE  WorkerOK'
  BY <1>4 DEF RetryDue
<1>5. ASSUME NEW q \in Requests, LeaseExpires(q)
      PROVE  WorkerOK'
  BY <1>5 DEF LeaseExpires, Fault
<1>6. ASSUME NEW s \in Shops, BeginAddShop(s)
      PROVE  WorkerOK'
  BY <1>6 DEF BeginAddShop
<1>7. ASSUME NEW s \in Shops, CommitAddShop(s)
      PROVE  WorkerOK'
  BY <1>7 DEF CommitAddShop, Existing
<1>8. ASSUME NEW r \in Renderers, RenderInvoice(r)
      PROVE  WorkerOK'
  BY <1>8, RenderFrame
<1>9. ASSUME NEW o \in Orgs, FoundOrganization(o)
      PROVE  WorkerOK'
  BY <1>9 DEF FoundOrganization
<1>10. ASSUME NEW o \in Orgs, HandOver(o)
      PROVE  WorkerOK'
  BY <1>10 DEF HandOver
<1>11. ASSUME NEW w \in Workers, Begin(w)
      PROVE  WorkerOK'
  <2>1. CASE Begins(w)
    BY <2>1 DEF Begins, Open, Goto, Reached
  <2>2. CASE Quits(w)
    BY <2>2, <1>b
  <2> QED
    BY <1>11, <2>1, <2>2, Cases
<1>12. ASSUME NEW w \in Workers, ListOwned(w)
      PROVE  WorkerOK'
  <2>1. CASE Lists(w)
    BY <2>1 DEF Lists, Owned, ShopsListed
  <2>2. CASE Quits(w)
    BY <2>2, <1>b
  <2> QED
    BY <1>12, <2>1, <2>2, Cases
<1>13. ASSUME NEW w \in Workers, LeaseLost(w)
      PROVE  WorkerOK'
  BY <1>13, <1>b, Cases
<1>14. ASSUME NEW w \in Workers, CancelBilling(w)
      PROVE  WorkerOK'
  BY <1>14 DEF CancelBilling, Goto, Reached
<1>15. ASSUME NEW w \in Workers, ReadKeys(w)
      PROVE  WorkerOK'
  <2>1. CASE key[at[w]]
    <3>1. pc' = [pc EXCEPT ![w] = "erasing"] /\ UNCHANGED <<job, token, targets, listed, todo,
                                                            at>>
      BY <1>15, <2>1 DEF ReadKeys, Goto, Reached
    <3>2. /\ pc[w] = "reading"
          /\ UNCHANGED <<userVars, orgVars, shopVars, requestVars, touched, late, faults>>
      BY <1>15 DEF ReadKeys
    <3> QED
      BY <3>1, <3>2
  <2>2. CASE ~key[at[w]]
    <3>1. /\ pc' = [pc EXCEPT ![w] = "next"] /\ at' = [at EXCEPT ![w] = None]
          /\ UNCHANGED <<job, token, targets, listed, todo>>
      BY <1>15, <2>2 DEF ReadKeys, Reached
    <3>2. /\ pc[w] = "reading"
          /\ UNCHANGED <<userVars, orgVars, shopVars, requestVars, touched, late, faults>>
      BY <1>15 DEF ReadKeys
    <3> QED
      BY <3>1, <3>2
  <2> QED
    BY <2>1, <2>2
<1>16. ASSUME NEW w \in Workers, Erase(w)
      PROVE  WorkerOK'
  BY <1>16 DEF Erase, Renew, Goto, Reached
<1>17. ASSUME NEW w \in Workers, ForgetKeys(w)
      PROVE  WorkerOK'
  BY <1>17 DEF ForgetKeys, Goto, Reached
<1>18. ASSUME NEW w \in Workers, Final(w)
      PROVE  WorkerOK'
  <2>1. CASE Completes(w)
    BY <2>1 DEF Completes, Open, StillOwned, StillClean, Deletable, Owned, End, Reached
  <2>2. CASE Quits(w)
    BY <2>2, <1>b
  <2> QED
    BY <1>18, <2>1, <2>2, Cases
<1>19. ASSUME NEW w \in Workers, MarkFailure(w)
      PROVE  WorkerOK'
  BY <1>19, <1>b, Cases
<1>20. ASSUME NEW w \in Workers, CallFails(w)
      PROVE  WorkerOK'
  BY <1>20, <1>b, Cases
<1>21. ASSUME NEW w \in Workers, Die(w)
      PROVE  WorkerOK'
  BY <1>21, <1>b, Cases
<1>22. ASSUME NEW w \in Workers, NEW s \in Shops, NextShop(w, s)
      PROVE  WorkerOK'
  BY <1>22 DEF NextShop, Renew, Reached, First
<1>23. ASSUME NEW w \in Workers, NEW q \in Requests, Claim(w, q)
      PROVE  WorkerOK'
  BY <1>23 DEF Claim, Claimable, Reached
<1>24. ASSUME UNCHANGED vars
      PROVE  WorkerOK'
  BY <1>24 DEF vars
<1> QED
  BY <1>1, <1>2, <1>3, <1>4, <1>5, <1>6, <1>7, <1>8, <1>9, <1>10, <1>11, <1>12, <1>13, <1>14,
     <1>15, <1>16, <1>17, <1>18, <1>19, <1>20, <1>21, <1>22, <1>23, <1>24
     DEF Next, Process

\* Every step keeps a begun request from being cancelled.
LEMMA StartedStep == IInv /\ [Next]_vars => StartedOK'
<1> SUFFICES ASSUME IInv, [Next]_vars PROVE StartedOK'
  OBVIOUS
<1>a. TypeOK'
  BY TypeStep
<1> USE ConstantsAssumption, <1>a
    DEF IInv, TypeOK, WorkerOK, WorkerAt, StartedOK, Cleaning, userVars, orgVars, shopVars,
        requestVars, workerVars
<1>b. ASSUME NEW w \in Workers, Quits(w)
      PROVE  StartedOK'
  BY <1>b, QuitFacts
<1>1. ASSUME NEW q \in Requests, Confirm(q)
      PROVE  StartedOK'
  BY <1>1 DEF Confirm
<1>2. ASSUME NEW q \in Requests, Cancel(q)
      PROVE  StartedOK'
  BY <1>2 DEF Cancel
<1>3. ASSUME NEW q \in Requests, GracePeriodEnds(q)
      PROVE  StartedOK'
  BY <1>3 DEF GracePeriodEnds
<1>4. ASSUME NEW q \in Requests, RetryDue(q)
      PROVE  StartedOK'
  BY <1>4 DEF RetryDue
<1>5. ASSUME NEW q \in Requests, LeaseExpires(q)
      PROVE  StartedOK'
  BY <1>5 DEF LeaseExpires, Fault
<1>6. ASSUME NEW s \in Shops, BeginAddShop(s)
      PROVE  StartedOK'
  BY <1>6 DEF BeginAddShop
<1>7. ASSUME NEW s \in Shops, CommitAddShop(s)
      PROVE  StartedOK'
  BY <1>7 DEF CommitAddShop, Existing
<1>8. ASSUME NEW r \in Renderers, RenderInvoice(r)
      PROVE  StartedOK'
  BY <1>8, RenderFrame
<1>9. ASSUME NEW o \in Orgs, FoundOrganization(o)
      PROVE  StartedOK'
  BY <1>9 DEF FoundOrganization
<1>10. ASSUME NEW o \in Orgs, HandOver(o)
      PROVE  StartedOK'
  BY <1>10 DEF HandOver
<1>11. ASSUME NEW w \in Workers, Begin(w)
      PROVE  StartedOK'
  <2>1. CASE Begins(w)
    BY <2>1 DEF Begins, Open, Goto, Reached
  <2>2. CASE Quits(w)
    BY <2>2, <1>b
  <2> QED
    BY <1>11, <2>1, <2>2, Cases
<1>12. ASSUME NEW w \in Workers, ListOwned(w)
      PROVE  StartedOK'
  <2>1. CASE Lists(w)
    BY <2>1 DEF Lists, Owned, ShopsListed
  <2>2. CASE Quits(w)
    BY <2>2, <1>b
  <2> QED
    BY <1>12, <2>1, <2>2, Cases
<1>13. ASSUME NEW w \in Workers, LeaseLost(w)
      PROVE  StartedOK'
  BY <1>13, <1>b, Cases
<1>14. ASSUME NEW w \in Workers, CancelBilling(w)
      PROVE  StartedOK'
  BY <1>14 DEF CancelBilling, Goto, Reached
<1>15. ASSUME NEW w \in Workers, ReadKeys(w)
      PROVE  StartedOK'
  BY <1>15 DEF ReadKeys, Goto, Reached
<1>16. ASSUME NEW w \in Workers, Erase(w)
      PROVE  StartedOK'
  BY <1>16 DEF Erase, Renew, Goto, Reached
<1>17. ASSUME NEW w \in Workers, ForgetKeys(w)
      PROVE  StartedOK'
  BY <1>17 DEF ForgetKeys, Goto, Reached
<1>18. ASSUME NEW w \in Workers, Final(w)
      PROVE  StartedOK'
  <2>1. CASE Completes(w)
    BY <2>1 DEF Completes, Open, StillOwned, StillClean, Deletable, Owned, End, Reached
  <2>2. CASE Quits(w)
    BY <2>2, <1>b
  <2> QED
    BY <1>18, <2>1, <2>2, Cases
<1>19. ASSUME NEW w \in Workers, MarkFailure(w)
      PROVE  StartedOK'
  BY <1>19, <1>b, Cases
<1>20. ASSUME NEW w \in Workers, CallFails(w)
      PROVE  StartedOK'
  BY <1>20, <1>b, Cases
<1>21. ASSUME NEW w \in Workers, Die(w)
      PROVE  StartedOK'
  BY <1>21, <1>b, Cases
<1>22. ASSUME NEW w \in Workers, NEW s \in Shops, NextShop(w, s)
      PROVE  StartedOK'
  BY <1>22 DEF NextShop, Renew, Reached, First
<1>23. ASSUME NEW w \in Workers, NEW q \in Requests, Claim(w, q)
      PROVE  StartedOK'
  BY <1>23 DEF Claim, Claimable, Reached
<1>24. ASSUME UNCHANGED vars
      PROVE  StartedOK'
  BY <1>24 DEF vars
<1> QED
  BY <1>1, <1>2, <1>3, <1>4, <1>5, <1>6, <1>7, <1>8, <1>9, <1>10, <1>11, <1>12, <1>13, <1>14,
     <1>15, <1>16, <1>17, <1>18, <1>19, <1>20, <1>21, <1>22, <1>23, <1>24
     DEF Next, Process

\* Every step keeps the key of an invoice that is in storage.
LEMMA KeysStep == IInv /\ [Next]_vars => KeysOK'
<1> SUFFICES ASSUME IInv, [Next]_vars PROVE KeysOK'
  OBVIOUS
<1>a. TypeOK'
  BY TypeStep
<1> USE ConstantsAssumption, <1>a
    DEF IInv, TypeOK, WorkerOK, WorkerAt, KeysOK, Unrecorded, Cleaning, userVars, orgVars,
        shopVars, renderVars,
        requestVars, workerVars
<1>b. ASSUME NEW w \in Workers, Quits(w)
      PROVE  KeysOK'
  BY <1>b, QuitFacts
<1>1. ASSUME NEW q \in Requests, Confirm(q)
      PROVE  KeysOK'
  BY <1>1 DEF Confirm
<1>2. ASSUME NEW q \in Requests, Cancel(q)
      PROVE  KeysOK'
  BY <1>2 DEF Cancel
<1>3. ASSUME NEW q \in Requests, GracePeriodEnds(q)
      PROVE  KeysOK'
  BY <1>3 DEF GracePeriodEnds
<1>4. ASSUME NEW q \in Requests, RetryDue(q)
      PROVE  KeysOK'
  BY <1>4 DEF RetryDue
<1>5. ASSUME NEW q \in Requests, LeaseExpires(q)
      PROVE  KeysOK'
  BY <1>5 DEF LeaseExpires, Fault
<1>6. ASSUME NEW s \in Shops, BeginAddShop(s)
      PROVE  KeysOK'
  BY <1>6 DEF BeginAddShop
<1>7. ASSUME NEW s \in Shops, CommitAddShop(s)
      PROVE  KeysOK'
  BY <1>7 DEF CommitAddShop, Existing
<1>8. ASSUME NEW r \in Renderers, RenderInvoice(r)
      PROVE  KeysOK'
  <2>1. ASSUME NEW s \in Shops, ClaimInvoice(r, s)
        PROVE  KeysOK'
    BY <2>1 DEF ClaimInvoice, Rendering
  <2>2. ASSUME ReadSale(r)
        PROVE  KeysOK'
    BY <2>2 DEF ReadSale, RenderEnds, Rendering
  <2>3. ASSUME Upload(r)
        PROVE  KeysOK'
    BY <2>3 DEF Upload, Rendering
  <2>4. ASSUME Record(r)
        PROVE  KeysOK'
    BY <2>4 DEF Record, RenderEnds, Rendering
  <2>5. ASSUME DropInvoice(r)
        PROVE  KeysOK'
    BY <2>5 DEF DropInvoice, RenderEnds, Rendering, Fault
  <2> QED
    BY <1>8, <2>1, <2>2, <2>3, <2>4, <2>5 DEF RenderInvoice
<1>9. ASSUME NEW o \in Orgs, FoundOrganization(o)
      PROVE  KeysOK'
  BY <1>9 DEF FoundOrganization
<1>10. ASSUME NEW o \in Orgs, HandOver(o)
      PROVE  KeysOK'
  BY <1>10 DEF HandOver
<1>11. ASSUME NEW w \in Workers, Begin(w)
      PROVE  KeysOK'
  <2>1. CASE Begins(w)
    BY <2>1 DEF Begins, Open, Goto, Reached
  <2>2. CASE Quits(w)
    BY <2>2, <1>b
  <2> QED
    BY <1>11, <2>1, <2>2, Cases
<1>12. ASSUME NEW w \in Workers, ListOwned(w)
      PROVE  KeysOK'
  <2>1. CASE Lists(w)
    BY <2>1 DEF Lists, Owned, ShopsListed
  <2>2. CASE Quits(w)
    BY <2>2, <1>b
  <2> QED
    BY <1>12, <2>1, <2>2, Cases
<1>13. ASSUME NEW w \in Workers, LeaseLost(w)
      PROVE  KeysOK'
  BY <1>13, <1>b, Cases
<1>14. ASSUME NEW w \in Workers, CancelBilling(w)
      PROVE  KeysOK'
  BY <1>14 DEF CancelBilling, Goto, Reached
<1>15. ASSUME NEW w \in Workers, ReadKeys(w)
      PROVE  KeysOK'
  BY <1>15 DEF ReadKeys, Goto, Reached
<1>16. ASSUME NEW w \in Workers, Erase(w)
      PROVE  KeysOK'
  BY <1>16 DEF Erase, Renew, Goto, Reached
<1>17. ASSUME NEW w \in Workers, ForgetKeys(w)
      PROVE  KeysOK'
  BY <1>17 DEF ForgetKeys, Goto, Reached
<1>18. ASSUME NEW w \in Workers, Final(w)
      PROVE  KeysOK'
  <2>1. CASE Completes(w)
    BY <2>1 DEF Completes, Open, StillOwned, StillClean, Deletable, Owned, End, Reached
  <2>2. CASE Quits(w)
    BY <2>2, <1>b
  <2> QED
    BY <1>18, <2>1, <2>2, Cases
<1>19. ASSUME NEW w \in Workers, MarkFailure(w)
      PROVE  KeysOK'
  BY <1>19, <1>b, Cases
<1>20. ASSUME NEW w \in Workers, CallFails(w)
      PROVE  KeysOK'
  BY <1>20, <1>b, Cases
<1>21. ASSUME NEW w \in Workers, Die(w)
      PROVE  KeysOK'
  BY <1>21, <1>b, Cases
<1>22. ASSUME NEW w \in Workers, NEW s \in Shops, NextShop(w, s)
      PROVE  KeysOK'
  BY <1>22 DEF NextShop, Renew, Reached, First
<1>23. ASSUME NEW w \in Workers, NEW q \in Requests, Claim(w, q)
      PROVE  KeysOK'
  BY <1>23 DEF Claim, Claimable, Reached
<1>24. ASSUME UNCHANGED vars
      PROVE  KeysOK'
  BY <1>24 DEF vars
<1> QED
  BY <1>1, <1>2, <1>3, <1>4, <1>5, <1>6, <1>7, <1>8, <1>9, <1>10, <1>11, <1>12, <1>13, <1>14,
     <1>15, <1>16, <1>17, <1>18, <1>19, <1>20, <1>21, <1>22, <1>23, <1>24
     DEF Next, Process

\* Every step keeps owned organizations with a shop and leaves none orphaned.
LEMMA OrgsStep == IInv /\ [Next]_vars => (OrgsOK /\ NoneOrphaned)'
<1> SUFFICES ASSUME IInv, [Next]_vars PROVE (OrgsOK /\ NoneOrphaned)'
  OBVIOUS
<1>a. TypeOK'
  BY TypeStep
<1> USE ConstantsAssumption, <1>a
    DEF IInv, TypeOK, OrgsOK, NoneOrphaned, Owned, ShopsOf, userVars, orgVars, shopVars,
        requestVars, workerVars
<1>b. ASSUME NEW w \in Workers, Quits(w)
      PROVE  (OrgsOK /\ NoneOrphaned)'
  BY <1>b, QuitFacts
<1>1. ASSUME NEW q \in Requests, Confirm(q)
      PROVE  (OrgsOK /\ NoneOrphaned)'
  BY <1>1 DEF Confirm
<1>2. ASSUME NEW q \in Requests, Cancel(q)
      PROVE  (OrgsOK /\ NoneOrphaned)'
  BY <1>2 DEF Cancel
<1>3. ASSUME NEW q \in Requests, GracePeriodEnds(q)
      PROVE  (OrgsOK /\ NoneOrphaned)'
  BY <1>3 DEF GracePeriodEnds
<1>4. ASSUME NEW q \in Requests, RetryDue(q)
      PROVE  (OrgsOK /\ NoneOrphaned)'
  BY <1>4 DEF RetryDue
<1>5. ASSUME NEW q \in Requests, LeaseExpires(q)
      PROVE  (OrgsOK /\ NoneOrphaned)'
  BY <1>5 DEF LeaseExpires, Fault
<1>6. ASSUME NEW s \in Shops, BeginAddShop(s)
      PROVE  (OrgsOK /\ NoneOrphaned)'
  BY <1>6 DEF BeginAddShop
<1>7. ASSUME NEW s \in Shops, CommitAddShop(s)
      PROVE  (OrgsOK /\ NoneOrphaned)'
  <2>1. CASE Existing(s[1])
    <3>1. /\ shop' = [shop EXCEPT ![s] = "active"]
          /\ UNCHANGED <<user, owner>>
      BY <1>7, <2>1 DEF CommitAddShop
    <3> QED
      BY <2>1, <3>1 DEF Existing
  <2>2. CASE ~Existing(s[1])
    <3>1. UNCHANGED <<shop, user, owner>>
      BY <1>7, <2>2 DEF CommitAddShop
    <3> QED
      BY <3>1
  <2> QED
    BY <2>1, <2>2
<1>8. ASSUME NEW r \in Renderers, RenderInvoice(r)
      PROVE  (OrgsOK /\ NoneOrphaned)'
  BY <1>8, RenderFrame
<1>9. ASSUME NEW o \in Orgs, FoundOrganization(o)
      PROVE  (OrgsOK /\ NoneOrphaned)'
  BY <1>9 DEF FoundOrganization
<1>10. ASSUME NEW o \in Orgs, HandOver(o)
      PROVE  (OrgsOK /\ NoneOrphaned)'
  BY <1>10 DEF HandOver
<1>11. ASSUME NEW w \in Workers, Begin(w)
      PROVE  (OrgsOK /\ NoneOrphaned)'
  <2>1. CASE Begins(w)
    BY <2>1 DEF Begins, Open, Goto, Reached
  <2>2. CASE Quits(w)
    BY <2>2, <1>b
  <2> QED
    BY <1>11, <2>1, <2>2, Cases
<1>12. ASSUME NEW w \in Workers, ListOwned(w)
      PROVE  (OrgsOK /\ NoneOrphaned)'
  <2>1. CASE Lists(w)
    BY <2>1 DEF Lists, Owned, ShopsListed
  <2>2. CASE Quits(w)
    BY <2>2, <1>b
  <2> QED
    BY <1>12, <2>1, <2>2, Cases
<1>13. ASSUME NEW w \in Workers, LeaseLost(w)
      PROVE  (OrgsOK /\ NoneOrphaned)'
  BY <1>13, <1>b, Cases
<1>14. ASSUME NEW w \in Workers, CancelBilling(w)
      PROVE  (OrgsOK /\ NoneOrphaned)'
  BY <1>14 DEF CancelBilling, Goto, Reached
<1>15. ASSUME NEW w \in Workers, ReadKeys(w)
      PROVE  (OrgsOK /\ NoneOrphaned)'
  BY <1>15 DEF ReadKeys, Goto, Reached
<1>16. ASSUME NEW w \in Workers, Erase(w)
      PROVE  (OrgsOK /\ NoneOrphaned)'
  BY <1>16 DEF Erase, Renew, Goto, Reached
<1>17. ASSUME NEW w \in Workers, ForgetKeys(w)
      PROVE  (OrgsOK /\ NoneOrphaned)'
  BY <1>17 DEF ForgetKeys, Goto, Reached
<1>18. ASSUME NEW w \in Workers, Final(w)
      PROVE  (OrgsOK /\ NoneOrphaned)'
  <2>1. CASE Completes(w)
    BY <2>1 DEF Completes, Open, StillOwned, StillClean, Deletable, Owned, End, Reached
  <2>2. CASE Quits(w)
    BY <2>2, <1>b
  <2> QED
    BY <1>18, <2>1, <2>2, Cases
<1>19. ASSUME NEW w \in Workers, MarkFailure(w)
      PROVE  (OrgsOK /\ NoneOrphaned)'
  BY <1>19, <1>b, Cases
<1>20. ASSUME NEW w \in Workers, CallFails(w)
      PROVE  (OrgsOK /\ NoneOrphaned)'
  BY <1>20, <1>b, Cases
<1>21. ASSUME NEW w \in Workers, Die(w)
      PROVE  (OrgsOK /\ NoneOrphaned)'
  BY <1>21, <1>b, Cases
<1>22. ASSUME NEW w \in Workers, NEW s \in Shops, NextShop(w, s)
      PROVE  (OrgsOK /\ NoneOrphaned)'
  BY <1>22 DEF NextShop, Renew, Reached, First
<1>23. ASSUME NEW w \in Workers, NEW q \in Requests, Claim(w, q)
      PROVE  (OrgsOK /\ NoneOrphaned)'
  BY <1>23 DEF Claim, Claimable, Reached
<1>24. ASSUME UNCHANGED vars
      PROVE  (OrgsOK /\ NoneOrphaned)'
  BY <1>24 DEF vars
<1> QED
  BY <1>1, <1>2, <1>3, <1>4, <1>5, <1>6, <1>7, <1>8, <1>9, <1>10, <1>11, <1>12, <1>13, <1>14,
     <1>15, <1>16, <1>17, <1>18, <1>19, <1>20, <1>21, <1>22, <1>23, <1>24
     DEF Next, Process

\* Every step keeps the lists complete, but for shops added since.
LEMMA ListedStep == IInv /\ [Next]_vars => ListedOK'
<1> SUFFICES ASSUME IInv, [Next]_vars PROVE ListedOK'
  OBVIOUS
<1>a. TypeOK'
  BY TypeStep
<1> USE ConstantsAssumption, <1>a
    DEF IInv, TypeOK, WorkerOK, WorkerAt, OrgsOK, ListedOK, Listed, Cleaning, userVars,
        orgVars, shopVars, requestVars, workerVars
<1>b. ASSUME NEW w \in Workers, Quits(w)
      PROVE  ListedOK'
  <2>1. Listed(w)'
    BY <1>b, QuitFacts
  <2>2. ASSUME NEW x \in Workers \ {w}
        PROVE  Listed(x)'
    <3>1. Listed(x) /\ UNCHANGED <<owner, shop, late>>
      BY <1>b DEF Quits
    <3> QED
      BY <1>b, <3>1, QuitFacts DEF ShopsOf
  <2> HIDE DEF Listed
  <2> QED
    BY <2>1, <2>2
<1>1. ASSUME NEW q \in Requests, Confirm(q)
      PROVE  ListedOK'
  BY <1>1 DEF Confirm
<1>2. ASSUME NEW q \in Requests, Cancel(q)
      PROVE  ListedOK'
  BY <1>2 DEF Cancel
<1>3. ASSUME NEW q \in Requests, GracePeriodEnds(q)
      PROVE  ListedOK'
  BY <1>3 DEF GracePeriodEnds
<1>4. ASSUME NEW q \in Requests, RetryDue(q)
      PROVE  ListedOK'
  BY <1>4 DEF RetryDue
<1>5. ASSUME NEW q \in Requests, LeaseExpires(q)
      PROVE  ListedOK'
  BY <1>5 DEF LeaseExpires, Fault
<1>6. ASSUME NEW s \in Shops, BeginAddShop(s)
      PROVE  ListedOK'
  BY <1>6 DEF BeginAddShop
<1>7. ASSUME NEW s \in Shops, CommitAddShop(s)
      PROVE  ListedOK'
  <2>0. UNCHANGED <<owner, targets, listed>>
    BY <1>7 DEF CommitAddShop
  <2>1. CASE Existing(s[1])
    <3>1. /\ shop' = [shop EXCEPT ![s] = "active"]
          /\ late' = IF \E w \in Workers : s[1] \in targets[w] THEN late \cup {s} ELSE late
      BY <1>7, <2>1 DEF CommitAddShop
    <3> SUFFICES ASSUME NEW w \in Workers, NEW o \in targets[w], NEW x \in ShopsOf(o)
                 PROVE  shop'[x] = "none" \/ x \in listed[w] \cup late'
      BY <2>0
    <3>2. x \in Shops /\ x[1] = o
      BY DEF ShopsOf
    <3>3. CASE x = s
      BY <3>1, <3>2, <3>3
    <3>4. CASE x # s
      <4>1. shop'[x] = shop[x] /\ late \subseteq late'
        BY <3>1, <3>2, <3>4
      <4> QED
        BY <4>1
    <3> QED
      BY <3>3, <3>4
  <2>2. CASE ~Existing(s[1])
    <3>1. UNCHANGED <<shop, late>>
      BY <1>7, <2>2 DEF CommitAddShop
    <3> QED
      BY <2>0, <3>1
  <2> QED
    BY <2>1, <2>2
<1>8. ASSUME NEW r \in Renderers, RenderInvoice(r)
      PROVE  ListedOK'
  BY <1>8, RenderFrame
<1>9. ASSUME NEW o \in Orgs, FoundOrganization(o)
      PROVE  ListedOK'
  <2>1. /\ owner[o] = "none"
        /\ owner' = [owner EXCEPT ![o] = "user"]
        /\ UNCHANGED <<targets, listed, late>>
    BY <1>9 DEF FoundOrganization
  <2>2. \A x \in Shops \ ShopsOf(o) : shop'[x] = shop[x]
    <3>1. (CHOOSE x \in ShopsOf(o) : TRUE) \in ShopsOf(o)
      BY DEF ConstantsAssumption, ShopsOf
    <3>2. PICK y \in ShopsOf(o) : shop' = [shop EXCEPT ![y] = "active"]
      BY <1>9, <3>1 DEF FoundOrganization
    <3> QED
      BY <3>2
  <2> SUFFICES ASSUME NEW w \in Workers, NEW p \in targets[w]
               PROVE  /\ owner'[p] # "none"
                      /\ \A x \in ShopsOf(p) : shop'[x] = "none" \/ x \in listed[w] \cup late
    BY <2>1
  <2>3. p \in Orgs /\ p # o
    BY <2>1
  <2>4. ShopsOf(p) \subseteq Shops \ ShopsOf(o)
    BY <2>3 DEF ShopsOf
  <2> QED
    BY <2>1, <2>2, <2>3, <2>4
<1>10. ASSUME NEW o \in Orgs, HandOver(o)
      PROVE  ListedOK'
  BY <1>10 DEF HandOver
<1>11. ASSUME NEW w \in Workers, Begin(w)
      PROVE  ListedOK'
  <2>1. CASE Begins(w)
    BY <2>1 DEF Begins, Open, Goto, Reached
  <2>2. CASE Quits(w)
    BY <2>2, <1>b
  <2> QED
    BY <1>11, <2>1, <2>2, Cases
<1>12. ASSUME NEW w \in Workers, ListOwned(w)
      PROVE  ListedOK'
  <2>1. CASE Lists(w)
    <3>1. /\ \A x \in Workers \ {w} : targets'[x] = targets[x] /\ listed'[x] = listed[x]
          /\ targets'[w] = Owned /\ listed'[w] = ShopsListed
          /\ UNCHANGED <<owner, late>>
          /\ \A s \in Shops : shop'[s] = "none" <=> shop[s] = "none"
      BY <2>1 DEF Lists, ShopsListed
    <3>2. ASSUME NEW x \in Workers \ {w}
          PROVE  Listed(x)'
      <4>1. Listed(x)
        OBVIOUS
      <4> QED
        BY <3>1, <4>1 DEF ShopsOf
    <3>3. Listed(w)'
      <4> SUFFICES ASSUME NEW o \in targets'[w]
                   PROVE  /\ owner'[o] # "none"
                          /\ listed'[w] \cap ShopsOf(o) # {}
                          /\ \A s \in ShopsOf(o) :
                               shop'[s] = "none" \/ s \in listed'[w] \cup late'
        OBVIOUS
      <4>1. o \in Orgs /\ owner[o] = "user"
        BY <3>1 DEF Owned
      <4>2. \A s \in ShopsOf(o) : shop[s] = "none" \/ s \in listed'[w]
        BY <3>1, <4>1 DEF ShopsOf, ShopsListed, Owned
      <4>3. \E s \in ShopsOf(o) : shop[s] # "none"
        BY <4>1
      <4> QED
        BY <3>1, <4>1, <4>2, <4>3 DEF ShopsOf
    <3> HIDE DEF Listed
    <3> QED
      BY <3>2, <3>3
  <2>2. CASE Quits(w)
    BY <2>2, <1>b
  <2> QED
    BY <1>12, <2>1, <2>2, Cases
<1>13. ASSUME NEW w \in Workers, LeaseLost(w)
      PROVE  ListedOK'
  BY <1>13, <1>b, Cases
<1>14. ASSUME NEW w \in Workers, CancelBilling(w)
      PROVE  ListedOK'
  BY <1>14 DEF CancelBilling, Goto, Reached
<1>15. ASSUME NEW w \in Workers, ReadKeys(w)
      PROVE  ListedOK'
  BY <1>15 DEF ReadKeys, Goto, Reached
<1>16. ASSUME NEW w \in Workers, Erase(w)
      PROVE  ListedOK'
  BY <1>16 DEF Erase, Renew, Goto, Reached
<1>17. ASSUME NEW w \in Workers, ForgetKeys(w)
      PROVE  ListedOK'
  BY <1>17 DEF ForgetKeys, Goto, Reached
<1>18. ASSUME NEW w \in Workers, Final(w)
      PROVE  ListedOK'
  <2>1. CASE Completes(w)
    <3>1. /\ \A x \in Workers \ {w} : targets'[x] = targets[x] /\ listed'[x] = listed[x]
          /\ targets'[w] = {} /\ late' = late
      BY <2>1 DEF Completes, End
    <3>2. \A s \in Shops : shop'[s] = "none" <=> shop[s] = "none"
      BY <2>1 DEF Completes
    <3>3. \A o \in Orgs : owner[o] # "none" => owner'[o] # "none"
      BY <2>1 DEF Completes
    <3>4. ASSUME NEW x \in Workers \ {w}
          PROVE  Listed(x)'
      <4>1. Listed(x) /\ targets[x] \subseteq Orgs
        OBVIOUS
      <4> QED
        BY <3>1, <3>2, <3>3, <4>1 DEF ShopsOf
    <3>5. Listed(w)'
      BY <3>1
    <3> HIDE DEF Listed
    <3> QED
      BY <3>4, <3>5
  <2>2. CASE Quits(w)
    BY <2>2, <1>b
  <2> QED
    BY <1>18, <2>1, <2>2, Cases
<1>19. ASSUME NEW w \in Workers, MarkFailure(w)
      PROVE  ListedOK'
  BY <1>19, <1>b, Cases
<1>20. ASSUME NEW w \in Workers, CallFails(w)
      PROVE  ListedOK'
  BY <1>20, <1>b, Cases
<1>21. ASSUME NEW w \in Workers, Die(w)
      PROVE  ListedOK'
  BY <1>21, <1>b, Cases
<1>22. ASSUME NEW w \in Workers, NEW s \in Shops, NextShop(w, s)
      PROVE  ListedOK'
  BY <1>22 DEF NextShop, Renew, Reached, First
<1>23. ASSUME NEW w \in Workers, NEW q \in Requests, Claim(w, q)
      PROVE  ListedOK'
  BY <1>23 DEF Claim, Claimable, Reached
<1>24. ASSUME UNCHANGED vars
      PROVE  ListedOK'
  BY <1>24 DEF vars
<1> QED
  BY <1>1, <1>2, <1>3, <1>4, <1>5, <1>6, <1>7, <1>8, <1>9, <1>10, <1>11, <1>12, <1>13, <1>14,
     <1>15, <1>16, <1>17, <1>18, <1>19, <1>20, <1>21, <1>22, <1>23, <1>24
     DEF Next, Process

\* Every step keeps the subscriptions of organizations at hand, or gone, cancelled.
LEMMA BilledStep == IInv /\ [Next]_vars => (BilledOK /\ BillingStops)'
<1> SUFFICES ASSUME IInv, [Next]_vars PROVE (BilledOK /\ BillingStops)'
  OBVIOUS
<1>a. TypeOK'
  BY TypeStep
<1> USE ConstantsAssumption, <1>a
    DEF IInv, TypeOK, WorkerOK, WorkerAt, ListedOK, Listed, BilledOK, Billed, BillingStops,
        Cleaning, userVars, orgVars, shopVars, requestVars, workerVars
<1>b. ASSUME NEW w \in Workers, Quits(w)
      PROVE  (BilledOK /\ BillingStops)'
  <2>1. Billed(w)'
    BY <1>b, QuitFacts
  <2>2. ASSUME NEW x \in Workers \ {w}
        PROVE  Billed(x)'
    <3>1. Billed(x) /\ UNCHANGED <<owner, renewing>>
      BY <1>b DEF Quits
    <3> QED
      BY <1>b, <3>1, QuitFacts DEF ShopsOf
  <2>3. BillingStops'
    BY <1>b DEF Quits
  <2> HIDE DEF Billed
  <2> QED
    BY <2>1, <2>2, <2>3
<1>1. ASSUME NEW q \in Requests, Confirm(q)
      PROVE  (BilledOK /\ BillingStops)'
  BY <1>1 DEF Confirm
<1>2. ASSUME NEW q \in Requests, Cancel(q)
      PROVE  (BilledOK /\ BillingStops)'
  BY <1>2 DEF Cancel
<1>3. ASSUME NEW q \in Requests, GracePeriodEnds(q)
      PROVE  (BilledOK /\ BillingStops)'
  BY <1>3 DEF GracePeriodEnds
<1>4. ASSUME NEW q \in Requests, RetryDue(q)
      PROVE  (BilledOK /\ BillingStops)'
  BY <1>4 DEF RetryDue
<1>5. ASSUME NEW q \in Requests, LeaseExpires(q)
      PROVE  (BilledOK /\ BillingStops)'
  BY <1>5 DEF LeaseExpires, Fault
<1>6. ASSUME NEW s \in Shops, BeginAddShop(s)
      PROVE  (BilledOK /\ BillingStops)'
  BY <1>6 DEF BeginAddShop
<1>7. ASSUME NEW s \in Shops, CommitAddShop(s)
      PROVE  (BilledOK /\ BillingStops)'
  BY <1>7 DEF CommitAddShop, Existing
<1>8. ASSUME NEW r \in Renderers, RenderInvoice(r)
      PROVE  (BilledOK /\ BillingStops)'
  BY <1>8, RenderFrame
<1>9. ASSUME NEW o \in Orgs, FoundOrganization(o)
      PROVE  (BilledOK /\ BillingStops)'
  BY <1>9 DEF FoundOrganization
<1>10. ASSUME NEW o \in Orgs, HandOver(o)
      PROVE  (BilledOK /\ BillingStops)'
  BY <1>10 DEF HandOver
<1>11. ASSUME NEW w \in Workers, Begin(w)
      PROVE  (BilledOK /\ BillingStops)'
  <2>1. CASE Begins(w)
    BY <2>1 DEF Begins, Open, Goto, Reached
  <2>2. CASE Quits(w)
    BY <2>2, <1>b
  <2> QED
    BY <1>11, <2>1, <2>2, Cases
<1>12. ASSUME NEW w \in Workers, ListOwned(w)
      PROVE  (BilledOK /\ BillingStops)'
  <2>1. CASE Lists(w)
    BY <2>1 DEF Lists, Owned, ShopsListed
  <2>2. CASE Quits(w)
    BY <2>2, <1>b
  <2> QED
    BY <1>12, <2>1, <2>2, Cases
<1>13. ASSUME NEW w \in Workers, LeaseLost(w)
      PROVE  (BilledOK /\ BillingStops)'
  BY <1>13, <1>b, Cases
<1>14. ASSUME NEW w \in Workers, CancelBilling(w)
      PROVE  (BilledOK /\ BillingStops)'
  BY <1>14 DEF CancelBilling, Goto, Reached
<1>15. ASSUME NEW w \in Workers, ReadKeys(w)
      PROVE  (BilledOK /\ BillingStops)'
  <2>1. /\ pc[w] = "reading" /\ pc'[w] # "cancelling"
        /\ \A x \in Workers \ {w} : pc'[x] = pc[x] /\ at'[x] = at[x]
    BY <1>15 DEF ReadKeys, Goto, Reached
  <2>2. UNCHANGED <<targets, listed, todo, orgVars>>
    BY <1>15 DEF ReadKeys, Goto
  <2>3. ASSUME NEW x \in Workers
        PROVE  Billed(x)'
    <3>1. Billed(x)
      OBVIOUS
    <3> QED
      <4>1. CASE x = w
        BY <2>1, <2>2, <3>1, <4>1 DEF ShopsOf
      <4>2. CASE x # w
        BY <2>1, <2>2, <3>1, <4>2 DEF ShopsOf
      <4> QED
        BY <4>1, <4>2
  <2> QED
    BY <2>2, <2>3
<1>16. ASSUME NEW w \in Workers, Erase(w)
      PROVE  (BilledOK /\ BillingStops)'
  BY <1>16 DEF Erase, Renew, Goto, Reached
<1>17. ASSUME NEW w \in Workers, ForgetKeys(w)
      PROVE  (BilledOK /\ BillingStops)'
  BY <1>17 DEF ForgetKeys, Goto, Reached
<1>18. ASSUME NEW w \in Workers, Final(w)
      PROVE  (BilledOK /\ BillingStops)'
  <2>1. CASE Completes(w)
    <3>1. /\ \A x \in Workers \ {w} : targets'[x] = targets[x] /\ listed'[x] = listed[x]
                                      /\ todo'[x] = todo[x] /\ pc'[x] = pc[x] /\ at'[x] = at[x]
          /\ targets'[w] = {} /\ renewing' = renewing
      BY <2>1 DEF Completes, End, Reached
    <3>2. \A o \in targets[w] : ~renewing[o]
      <4>1. pc[w] = "next" /\ todo[w] = {} /\ Billed(w) /\ Listed(w)
        BY <2>1 DEF Completes
      <4> QED
        BY <4>1
    <3>3. \A o \in Orgs : owner'[o] = "gone" => owner[o] = "gone" \/ o \in targets[w]
      BY <2>1 DEF Completes
    <3>4. ASSUME NEW x \in Workers
          PROVE  Billed(x)'
      <4>1. CASE x = w
        BY <3>1, <4>1
      <4>2. CASE x # w
        <5>1. Billed(x)
          OBVIOUS
        <5> QED
          BY <3>1, <4>2, <5>1 DEF ShopsOf
      <4> QED
        BY <4>1, <4>2
    <3>5. BillingStops'
      BY <3>1, <3>2, <3>3
    <3> QED
      BY <3>4, <3>5
  <2>2. CASE Quits(w)
    BY <2>2, <1>b
  <2> QED
    BY <1>18, <2>1, <2>2, Cases
<1>19. ASSUME NEW w \in Workers, MarkFailure(w)
      PROVE  (BilledOK /\ BillingStops)'
  BY <1>19, <1>b, Cases
<1>20. ASSUME NEW w \in Workers, CallFails(w)
      PROVE  (BilledOK /\ BillingStops)'
  BY <1>20, <1>b, Cases
<1>21. ASSUME NEW w \in Workers, Die(w)
      PROVE  (BilledOK /\ BillingStops)'
  BY <1>21, <1>b, Cases
<1>22. ASSUME NEW w \in Workers, NEW s \in Shops, NextShop(w, s)
      PROVE  (BilledOK /\ BillingStops)'
  <2>1. /\ pc[w] = "next" /\ s \in todo[w]
        /\ todo' = [todo EXCEPT ![w] = todo[w] \ {s}]
        /\ at' = [at EXCEPT ![w] = s]
        /\ pc' = [pc EXCEPT ![w] = IF First(w, s) THEN "cancelling" ELSE "reading"]
        /\ UNCHANGED <<targets, listed, owner, renewing>>
    BY <1>22 DEF NextShop, Reached
  <2>2. ASSUME NEW o \in targets[w]
        PROVE  \/ todo'[w] \cap ShopsOf(o) = listed'[w] \cap ShopsOf(o)
               \/ ~renewing'[o]
               \/ pc'[w] = "cancelling" /\ at'[w][1] = o
    <3>1. CASE s[1] # o
      <4>1. s \notin ShopsOf(o)
        BY <3>1 DEF ShopsOf
      <4>2. todo'[w] \cap ShopsOf(o) = todo[w] \cap ShopsOf(o)
        BY <2>1, <4>1
      <4> QED
        BY <2>1, <2>2, <4>2
    <3>2. CASE s[1] = o /\ First(w, s)
      BY <2>1, <3>2
    <3>3. CASE s[1] = o /\ ~First(w, s)
      BY <2>1, <2>2, <3>3 DEF First
    <3> QED
      BY <3>1, <3>2, <3>3
  <2>3. ASSUME NEW x \in Workers \ {w}
        PROVE  /\ todo'[x] = todo[x] /\ pc'[x] = pc[x] /\ at'[x] = at[x]
    BY <2>1
  <2>4. BilledOK'
    BY <2>1, <2>2, <2>3
  <2> QED
    BY <2>1, <2>4
<1>23. ASSUME NEW w \in Workers, NEW q \in Requests, Claim(w, q)
      PROVE  (BilledOK /\ BillingStops)'
  BY <1>23 DEF Claim, Claimable, Reached
<1>24. ASSUME UNCHANGED vars
      PROVE  (BilledOK /\ BillingStops)'
  BY <1>24 DEF vars
<1> QED
  BY <1>1, <1>2, <1>3, <1>4, <1>5, <1>6, <1>7, <1>8, <1>9, <1>10, <1>11, <1>12, <1>13, <1>14,
     <1>15, <1>16, <1>17, <1>18, <1>19, <1>20, <1>21, <1>22, <1>23, <1>24
     DEF Next, Process

\* Every step keeps storage empty of what has gone.
LEMMA StorageStep == IInv /\ [Next]_vars => NothingLeftInStorage'
<1> SUFFICES ASSUME IInv, [Next]_vars PROVE NothingLeftInStorage'
  OBVIOUS
<1>a. TypeOK'
  BY TypeStep
<1> USE ConstantsAssumption, <1>a
    DEF IInv, TypeOK, WorkerOK, WorkerAt, OrgsOK, ListedOK, Listed, KeysOK,
        NothingLeftInStorage, Unrecorded, userVars, orgVars, shopVars, renderVars,
        requestVars, workerVars
<1>b. ASSUME NEW w \in Workers, Quits(w)
      PROVE  NothingLeftInStorage'
  BY <1>b, QuitFacts
<1>1. ASSUME NEW q \in Requests, Confirm(q)
      PROVE  NothingLeftInStorage'
  BY <1>1 DEF Confirm
<1>2. ASSUME NEW q \in Requests, Cancel(q)
      PROVE  NothingLeftInStorage'
  BY <1>2 DEF Cancel
<1>3. ASSUME NEW q \in Requests, GracePeriodEnds(q)
      PROVE  NothingLeftInStorage'
  BY <1>3 DEF GracePeriodEnds
<1>4. ASSUME NEW q \in Requests, RetryDue(q)
      PROVE  NothingLeftInStorage'
  BY <1>4 DEF RetryDue
<1>5. ASSUME NEW q \in Requests, LeaseExpires(q)
      PROVE  NothingLeftInStorage'
  BY <1>5 DEF LeaseExpires, Fault
<1>6. ASSUME NEW s \in Shops, BeginAddShop(s)
      PROVE  NothingLeftInStorage'
  BY <1>6 DEF BeginAddShop
<1>7. ASSUME NEW s \in Shops, CommitAddShop(s)
      PROVE  NothingLeftInStorage'
  BY <1>7 DEF CommitAddShop, Existing
<1>8. ASSUME NEW r \in Renderers, RenderInvoice(r)
      PROVE  NothingLeftInStorage'
  <2>1. ASSUME NEW s \in Shops, ClaimInvoice(r, s)
        PROVE  NothingLeftInStorage'
    BY <2>1 DEF ClaimInvoice, Rendering
  <2>2. ASSUME ReadSale(r)
        PROVE  NothingLeftInStorage'
    <3>1. render[r] = "claimed" /\ UNCHANGED <<object, key, stray, faults>>
      BY <2>2 DEF ReadSale
    <3>2. CASE RenderEnds(r)
      BY <3>1, <3>2 DEF RenderEnds, Rendering
    <3>3. CASE Rendering(r, "rendered") /\ UNCHANGED sale
      BY <3>1, <3>3 DEF Rendering
    <3> QED
      BY <2>2, <3>2, <3>3 DEF ReadSale
  <2>3. ASSUME Upload(r)
        PROVE  NothingLeftInStorage'
    BY <2>3 DEF Upload, Rendering
  <2>4. ASSUME Record(r)
        PROVE  NothingLeftInStorage'
    <3>1. render[r] = "uploaded" /\ RenderEnds(r) /\ UNCHANGED faults
      BY <2>4 DEF Record
    <3>2. CASE shop[sale[r]] = "gone"
      <4>1. object' = [object EXCEPT ![sale[r]] = "erased"] /\ UNCHANGED <<key, stray>>
        BY <2>4, <3>2 DEF Record
      <4> QED
        BY <3>1, <4>1 DEF RenderEnds, Rendering
    <3>3. CASE shop[sale[r]] # "gone"
      <4>1. /\ key' = [key EXCEPT ![sale[r]] = TRUE] /\ UNCHANGED object
            /\ stray' = stray \ {sale[r]}
        BY <2>4, <3>3 DEF Record
      <4> QED
        BY <3>1, <3>3, <4>1 DEF RenderEnds, Rendering
    <3> QED
      BY <3>2, <3>3
  <2>5. ASSUME DropInvoice(r)
        PROVE  NothingLeftInStorage'
    BY <2>5 DEF DropInvoice, RenderEnds, Rendering, Fault
  <2> QED
    BY <1>8, <2>1, <2>2, <2>3, <2>4, <2>5 DEF RenderInvoice
<1>9. ASSUME NEW o \in Orgs, FoundOrganization(o)
      PROVE  NothingLeftInStorage'
  BY <1>9 DEF FoundOrganization
<1>10. ASSUME NEW o \in Orgs, HandOver(o)
      PROVE  NothingLeftInStorage'
  BY <1>10 DEF HandOver
<1>11. ASSUME NEW w \in Workers, Begin(w)
      PROVE  NothingLeftInStorage'
  <2>1. CASE Begins(w)
    BY <2>1 DEF Begins, Open, Goto, Reached
  <2>2. CASE Quits(w)
    BY <2>2, <1>b
  <2> QED
    BY <1>11, <2>1, <2>2, Cases
<1>12. ASSUME NEW w \in Workers, ListOwned(w)
      PROVE  NothingLeftInStorage'
  <2>1. CASE Lists(w)
    BY <2>1 DEF Lists, Owned, ShopsListed
  <2>2. CASE Quits(w)
    BY <2>2, <1>b
  <2> QED
    BY <1>12, <2>1, <2>2, Cases
<1>13. ASSUME NEW w \in Workers, LeaseLost(w)
      PROVE  NothingLeftInStorage'
  BY <1>13, <1>b, Cases
<1>14. ASSUME NEW w \in Workers, CancelBilling(w)
      PROVE  NothingLeftInStorage'
  BY <1>14 DEF CancelBilling, Goto, Reached
<1>15. ASSUME NEW w \in Workers, ReadKeys(w)
      PROVE  NothingLeftInStorage'
  BY <1>15 DEF ReadKeys, Goto, Reached
<1>16. ASSUME NEW w \in Workers, Erase(w)
      PROVE  NothingLeftInStorage'
  BY <1>16 DEF Erase, Renew, Goto, Reached
<1>17. ASSUME NEW w \in Workers, ForgetKeys(w)
      PROVE  NothingLeftInStorage'
  BY <1>17 DEF ForgetKeys, Goto, Reached
<1>18. ASSUME NEW w \in Workers, Final(w)
      PROVE  NothingLeftInStorage'
  <2>1. CASE Completes(w)
    BY <2>1, Pairs DEF Completes, Open, StillOwned, StillClean, Deletable, Owned, End, Reached
  <2>2. CASE Quits(w)
    BY <2>2, <1>b
  <2> QED
    BY <1>18, <2>1, <2>2, Cases
<1>19. ASSUME NEW w \in Workers, MarkFailure(w)
      PROVE  NothingLeftInStorage'
  BY <1>19, <1>b, Cases
<1>20. ASSUME NEW w \in Workers, CallFails(w)
      PROVE  NothingLeftInStorage'
  BY <1>20, <1>b, Cases
<1>21. ASSUME NEW w \in Workers, Die(w)
      PROVE  NothingLeftInStorage'
  BY <1>21, <1>b, Cases
<1>22. ASSUME NEW w \in Workers, NEW s \in Shops, NextShop(w, s)
      PROVE  NothingLeftInStorage'
  BY <1>22 DEF NextShop, Renew, Reached, First
<1>23. ASSUME NEW w \in Workers, NEW q \in Requests, Claim(w, q)
      PROVE  NothingLeftInStorage'
  BY <1>23 DEF Claim, Claimable, Reached
<1>24. ASSUME UNCHANGED vars
      PROVE  NothingLeftInStorage'
  BY <1>24 DEF vars
<1> QED
  BY <1>1, <1>2, <1>3, <1>4, <1>5, <1>6, <1>7, <1>8, <1>9, <1>10, <1>11, <1>12, <1>13, <1>14,
     <1>15, <1>16, <1>17, <1>18, <1>19, <1>20, <1>21, <1>22, <1>23, <1>24
     DEF Next, Process

-----------------------------------------------------------------------------
LEMMA InitIInv == Init => IInv
<1> SUFFICES ASSUME Init PROVE IInv
  OBVIOUS
<1> USE ConstantsAssumption DEF Init
<1>1. Home \in Shops
  BY DEF Home, ConstantsAssumption
<1>2. \A s \in Shops : s[1] \in Orgs
  BY Pairs
<1>3. TypeOK
  <2>1. /\ owner \in [Orgs -> {"none", "user", "other", "gone"}]
        /\ transfer \in [Orgs -> BOOLEAN] /\ renewing \in [Orgs -> BOOLEAN]
        /\ shop \in [Shops -> {"none", "active", "inactive", "gone"}]
        /\ object \in [Shops -> {"none", "stored", "erased"}] /\ key \in [Shops -> BOOLEAN]
    OBVIOUS
  <2>2. /\ request \in [Requests -> {"asked", "confirmed", "cancelled", "completed"}]
        /\ consent \in [Requests -> BOOLEAN] /\ due \in [Requests -> BOOLEAN]
        /\ started \in [Requests -> BOOLEAN] /\ retry \in [Requests -> BOOLEAN]
        /\ lease \in [Requests -> {"free", "held", "over"}]
    OBVIOUS
  <2>3. /\ job \in [Workers -> Requests \cup {None}] /\ token \in [Workers -> BOOLEAN]
        /\ \A w \in Workers : pc[w] = "idle" /\ job[w] = None
        /\ targets \in [Workers -> SUBSET Orgs]
        /\ listed \in [Workers -> SUBSET Shops] /\ todo \in [Workers -> SUBSET Shops]
        /\ at \in [Workers -> Shops \cup {None}]
    OBVIOUS
  <2>4. pc \in [Workers -> {"idle", "claimed", "begun", "next", "cancelling", "reading",
                            "erasing", "erased", "failed"}]
    OBVIOUS
  <2>5. /\ user \in BOOLEAN /\ pinned \in BOOLEAN /\ adding \subseteq Shops
        /\ touched \subseteq Requests /\ late \subseteq Shops /\ stray \subseteq Shops
        /\ render \in [Renderers -> {"idle", "claimed", "rendered", "uploaded"}]
        /\ sale \in [Renderers -> Shops \cup {None}]
        /\ \A r \in Renderers : render[r] = "idle" /\ sale[r] = None
    OBVIOUS
  <2>6. faults \in 0..MaxFaults
    BY DEF ConstantsAssumption
  <2> QED
    BY <2>1, <2>2, <2>3, <2>4, <2>5, <2>6 DEF TypeOK
<1>4. WorkerOK /\ StartedOK
  BY DEF WorkerOK, WorkerAt, StartedOK, Cleaning
<1>5. OrgsOK
  BY <1>1 DEF OrgsOK, ShopsOf
<1>6. ListedOK /\ BilledOK /\ KeysOK
  BY DEF ListedOK, Listed, BilledOK, Billed, KeysOK
<1>7. NothingLeftInStorage /\ BillingStops /\ NoneOrphaned
  BY DEF NothingLeftInStorage, BillingStops, NoneOrphaned
<1> QED
  BY <1>3, <1>4, <1>5, <1>6, <1>7 DEF IInv

LEMMA IInvHolds == Spec => []IInv
<1>1. Init => IInv
  BY InitIInv
<1>2. IInv /\ [Next]_vars => IInv'
  BY TypeStep, WorkerStep, StartedStep, KeysStep, OrgsStep, ListedStep, BilledStep, StorageStep
     DEF IInv
<1> QED
  BY <1>1, <1>2, PTL DEF Spec

\* A cancellation that is accepted comes before any effect: whatever workers, lost leases
\* and retries there are, a cancelled request has deactivated no shop and let nothing be
\* cancelled or erased.
THEOREM CancelledIsHarmless == Spec => []CancelledTouchesNothing
<1>1. IInv => CancelledTouchesNothing
  BY DEF IInv, StartedOK, CancelledTouchesNothing
<1> QED
  BY <1>1, IInvHolds, PTL

\* When a deletion is through, no invoice of the organizations whose key was recorded is
\* left in storage, but those of shops added meanwhile and those stored again while a
\* worker erased them; an attempt that is still to record one deletes it, unless it is
\* cut short.  Their subscriptions do not renew, and no organization is left to the
\* account.
THEOREM DeletionIsComplete == Spec => []NothingIsLeft
<1>1. IInv => NothingIsLeft
  BY DEF IInv, NothingIsLeft
<1> QED
  BY <1>1, IInvHolds, PTL

=============================================================================
