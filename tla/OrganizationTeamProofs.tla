---------------------- MODULE OrganizationTeamProofs ----------------------
(* Proofs about OrganizationTeam: types, one owner over all shops through   *)
(* handovers and requests that they overtake, and that shops and seats stay *)
(* within the plan.                                                         *)
EXTENDS OrganizationTeam, Integers, FiniteSetTheorems, TLAPS

Row(c) == <<c.shop, c.user>>
Asked == {"add_shop", "update", "invite", "transfer"}
Calls == [op : Asked \cup {"none"}, actor : Users \cup {None}, shop : Shops \cup {None},
          role : Roles, owner : Users \cup {None}, user : Users \cup {None},
          grant : Granted \cup {"none"}, active : {"same", "on", "off"}]

\* What a running request asks for, and which steps it takes.
CallOK(r) ==
  LET c == call[r] IN
  pc[r] # "idle" =>
    /\ c.op \in Asked
    /\ c.actor \in Users /\ c.shop \in open
    /\ c.op # "add_shop" => c.user \in Users
    /\ c.op = "add_shop" => c.owner = c.actor
    /\ c.op = "transfer" => c.user # c.actor
    /\ c.op = "invite" => c.grant \in Granted
    /\ pc[r] = "member" => c.op = "update" /\ c.active = "on"
    /\ pc[r] = "owner" => c.op = "transfer"

CallsOK ==
  /\ call \in [Requests -> Calls]
  /\ \A r \in Requests : CallOK(r)

\* A request that was granted a shop or a seat, or asks for a transfer, has the
\* organization; only who was granted a shop or a seat has room.
Seated(r) == pc[r] = "granted" /\ room[r] > 0
OrgLockOK ==
  \A r \in Requests :
    /\ orgLock = r <=> (Seated(r) \/ pc[r] = "owner"
                         \/ (pc[r] = "granted" /\ call[r].op = "transfer"))
    /\ pc[r] # "granted" => room[r] = 0
    /\ pc[r] = "granted" /\ call[r].op \in {"add_shop", "invite"} => room[r] > 0
    /\ call[r].op = "transfer" => room[r] = 0

\* An update has its membership from the check on: an ordinary one, and active already
\* if it is to be active and no seat was asked for.
UpdateOK(r) ==
  LET c == call[r] IN
  pc[r] \in {"member", "granted"} /\ c.op = "update" =>
    /\ memberLock[Row(c)] = r
    /\ role[Row(c)] \in Granted
    /\ pc[r] = "granted" /\ c.active = "on" => live[Row(c)] \/ room[r] > 0

UpdatesOK == \A r \in Requests : UpdateOK(r)

\* Roles are never taken back; a shop that is not there has none.
RolesOK ==
  /\ Home \in open \ late
  /\ \A m \in Shops \X Users :
       /\ live[m] => role[m] # "none"
       /\ m[1] \notin open => role[m] = "none"

\* Nobody is invited to a shop that is not there.
InvitedOK == \A i \in Invitations : invitation[i] # None => invitation[i].shop \in open

\* A transfer in progress is between two users, with an attempt left while it waits.
TransferOK ==
  /\ transfer \in InProgress => from \in Users /\ to \in Users /\ from # to
  /\ transfer = "pending" => attempts < MaxAttempts
  /\ wpc # "idle" => transfer = "processing"
  /\ \A r \in Requests :
       pc[r] = "granted" /\ call[r].op = "transfer" => transfer \notin InProgress

\* While the worker has the organization, no request has it, the owner stays who hands
\* over, and whoever founds another organization has left the shop that was loaded.
HasOrg == wpc \in {"checked", "locked"}
HandingOver ==
  /\ orgLock = None
  /\ owner = from
  /\ loaded \in open
  /\ role[<<loaded, to>>] # "none"
  /\ to \in elsewhere => ~live[<<loaded, to>>]

HandoverOK ==
  /\ HasOrg => HandingOver
  /\ wpc = "locked" => \A s \in open, u \in Users : memberLock[<<s, u>>] = None

\* An owner of two organizations has a membership here that nobody can reactivate.
ElsewhereOK ==
  owner \in elsewhere =>
    \E s \in open : role[<<s, owner>>] = "OWNER" /\ ~live[<<s, owner>>]

\* The seats there are: those of the plan, and those given to who had left.
Seats == SeatLimit + Cardinality(late)
WithinOK ==
  lapsed \/ (Cardinality(open) <= ShopLimit /\ Cardinality(Team) <= Seats)

\* A grant fits under the room that was seen, and that is within the plan.
ShopGrantOK(r) ==
  pc[r] = "granted" /\ call[r].op = "add_shop" =>
    /\ Cardinality(open) < room[r]
    /\ lapsed \/ room[r] <= ShopLimit

SeatGrantOK(r) ==
  Seated(r) /\ call[r].op # "add_shop" =>
    /\ Cardinality(Team) <= room[r]
    /\ call[r].user \in Team \/ Cardinality(Team) < room[r]
    /\ lapsed \/ room[r] <= Seats

GrantsOK == \A r \in Requests : ShopGrantOK(r) /\ SeatGrantOK(r)

\* The target of a handover has its seat, also when it was deactivated since.
TargetOK == HasOrg => lapsed \/ Cardinality(Team \cup {to}) <= Seats

IInv ==
  /\ TypeOK /\ CallsOK /\ OrgLockOK /\ UpdatesOK /\ RolesOK /\ InvitedOK
  /\ TransferOK /\ HandoverOK
  /\ OwnerRunsEveryShop /\ ElsewhereOK
  /\ WithinOK /\ GrantsOK /\ TargetOK

-----------------------------------------------------------------------------
\* The limits are numbers, and pro is not below free.
LEMMA LimitFacts ==
  ASSUME TypeOK
  PROVE  /\ ShopLimit \in Nat \ {0} /\ SeatLimit \in Nat \ {0} /\ MaxAttempts \in Nat \ {0}
         /\ MaxArrivals \in Nat /\ MaxFaults \in Nat
         /\ FreeShops <= ProShops /\ FreeSeats <= ProSeats
         /\ FreeShops \in Nat /\ ProShops \in Nat /\ FreeSeats \in Nat /\ ProSeats \in Nat
<1>1. /\ FreeShops \in Nat \ {0} /\ ProShops \in Nat \ {0} /\ FreeSeats \in Nat \ {0}
      /\ ProSeats \in Nat \ {0} /\ MaxAttempts \in Nat \ {0}
  BY ConstantsAssumption
<1>2. MaxArrivals \in Nat /\ MaxFaults \in Nat /\ FreeShops <= ProShops /\ FreeSeats <= ProSeats
  BY ConstantsAssumption
<1> QED
  BY <1>1, <1>2 DEF ShopLimit, SeatLimit

\* Counting in a finite set: a part has no more elements, one element adds at most one.
LEMMA Counting ==
  ASSUME NEW U, IsFiniteSet(U), NEW A \in SUBSET U, NEW B \in SUBSET U, NEW x \in U
  PROVE  /\ IsFiniteSet(A) /\ Cardinality(A) \in Nat
         /\ A \subseteq B => Cardinality(A) <= Cardinality(B)
         /\ A \subseteq B \cup {x} => Cardinality(A) <= Cardinality(B) + 1
         /\ A \subseteq B /\ x \in B \ A => Cardinality(A) < Cardinality(B)
         /\ x \notin A => Cardinality(A \cup {x}) = Cardinality(A) + 1
<1>1. /\ IsFiniteSet(A) /\ IsFiniteSet(B)
      /\ Cardinality(A) \in Nat /\ Cardinality(B) \in Nat
  BY FS_Subset, FS_CardinalityType
<1>2. A \subseteq B => Cardinality(A) <= Cardinality(B)
  BY <1>1, FS_Subset
<1>3. /\ IsFiniteSet(B \cup {x})
      /\ Cardinality(B \cup {x}) \in {Cardinality(B), Cardinality(B) + 1}
  BY <1>1, FS_AddElement
<1>4. A \subseteq B \cup {x} => Cardinality(A) <= Cardinality(B) + 1
  <2>1. A \subseteq B \cup {x} => Cardinality(A) <= Cardinality(B \cup {x})
    BY <1>3, FS_Subset
  <2> QED
    BY <1>1, <1>3, <2>1
<1>5. A \subseteq B /\ x \in B \ A => Cardinality(A) < Cardinality(B)
  <2> SUFFICES ASSUME A \subseteq B, x \in B \ A PROVE Cardinality(A) < Cardinality(B)
    OBVIOUS
  <2>1. A # B
    OBVIOUS
  <2> QED
    BY <1>1, <2>1, FS_Subset
<1>6. x \notin A => Cardinality(A \cup {x}) = Cardinality(A) + 1
  BY <1>1, FS_AddElement
<1> QED
  BY <1>1, <1>2, <1>4, <1>5, <1>6

\* People and shops can be counted.
LEMMA TeamFacts ==
  ASSUME TypeOK
  PROVE  /\ Team \subseteq Users /\ Cardinality(Team) \in Nat
         /\ Cardinality(open) \in Nat /\ Cardinality(late) \in Nat
<1> USE ConstantsAssumption DEF TypeOK
<1>1. Members \subseteq Users
  BY DEF Members
<1>2. Invited \subseteq Users
  <2>1. \A i \in Invitations : invitation[i] # None => invitation[i].user \in Users
    OBVIOUS
  <2> QED
    BY <2>1 DEF Invited
<1>3. Team \subseteq Users
  BY <1>1, <1>2 DEF Team
<1>4. Cardinality(Team) \in Nat
  BY <1>3, Founder \in Users, Counting
<1>5. Cardinality(open) \in Nat /\ Cardinality(late) \in Nat
  <2>1. open \in SUBSET Shops /\ late \in SUBSET Shops /\ Home \in Shops /\ IsFiniteSet(Shops)
    OBVIOUS
  <2> QED
    BY <2>1, Counting
<1> QED
  BY <1>3, <1>4, <1>5

\* What a request that begins is about.
Asking(c) ==
  /\ c \in Calls
  /\ c.op \in Asked
  /\ c.actor \in Users /\ c.shop \in open
  /\ c.op # "add_shop" => c.user \in Users
  /\ c.op = "add_shop" => c.owner = c.actor
  /\ c.op = "transfer" => c.user # c.actor
  /\ c.op = "invite" => c.grant \in Granted

Begun(r, c) ==
  /\ pc[r] = "idle" /\ pc' = [pc EXCEPT ![r] = "begun"]
  /\ call' = [call EXCEPT ![r] = c]
  /\ arrivals < MaxArrivals /\ arrivals' = arrivals + 1
  /\ UNCHANGED <<room, faults, orgVars, memberVars, invitation, planVars, transferVars,
                 workerVars, lockVars>>

LEMMA BeginFacts ==
  ASSUME TypeOK, NEW r \in Requests, BeginAny(r)
  PROVE  \E c : Asking(c) /\ Begun(r, c)
<1> USE DEF Calls, Asking, Idle, Asks, Asked, TypeOK
<1> PICK u \in Users, s \in open :
      \/ BeginAddShop(r, u, s)
      \/ \E user \in Users :
           \/ BeginTransfer(r, u, s, user)
           \/ \E grant \in Granted : BeginInvite(r, u, s, user, grant)
           \/ \E grant \in Granted \cup {"none"}, active \in {"same", "on", "off"} :
                BeginUpdate(r, u, s, user, grant, active)
  BY DEF BeginAny
<1>b. ASSUME NEW c, NEW allowed, Begin(r, c, allowed) PROVE Begun(r, c)
  BY <1>b DEF Begin, Begun
<1>0. s \in Shops /\ role[<<s, u>>] \in Roles /\ owner \in Users /\ "none" \in Roles
  BY DEF Roles
<1>1. ASSUME BeginAddShop(r, u, s)
      PROVE  \E c : Asking(c) /\ Begun(r, c)
  <2>1. owner = u
    BY <1>1 DEF BeginAddShop
  <2>2. Asking(Asks("add_shop", u, s))
    BY <1>0, <2>1
  <2>3. Begun(r, Asks("add_shop", u, s))
    BY <1>1, <1>b DEF BeginAddShop
  <2> HIDE DEF Asking, Asks
  <2> QED
    BY <2>2, <2>3
<1>2. ASSUME NEW user \in Users, BeginTransfer(r, u, s, user)
      PROVE  \E c : Asking(c) /\ Begun(r, c)
  <2>1. Asking([Asks("transfer", u, s) EXCEPT !.user = user])
    BY <1>0, <1>2 DEF BeginTransfer
  <2> QED
    BY <1>2, <1>b, <2>1 DEF BeginTransfer
<1>3. ASSUME NEW user \in Users, NEW grant \in Granted, BeginInvite(r, u, s, user, grant)
      PROVE  \E c : Asking(c) /\ Begun(r, c)
  <2>1. Asking([Asks("invite", u, s) EXCEPT !.user = user, !.grant = grant])
    BY <1>0, <1>3 DEF BeginInvite
  <2> QED
    BY <1>3, <1>b, <2>1 DEF BeginInvite
<1>4. ASSUME NEW user \in Users, NEW grant \in Granted \cup {"none"},
             NEW active \in {"same", "on", "off"}, BeginUpdate(r, u, s, user, grant, active)
      PROVE  \E c : Asking(c) /\ Begun(r, c)
  <2>1. Asking([Asks("update", u, s) EXCEPT !.user = user, !.grant = grant, !.active = active])
    BY <1>0, <1>4 DEF BeginUpdate
  <2> QED
    BY <1>4, <1>b, <2>1 DEF BeginUpdate
<1> QED
  BY <1>1, <1>2, <1>3, <1>4

\* What every transaction leaves behind when it ends.
Finished(r) ==
  /\ pc' = [pc EXCEPT ![r] = "idle"]
  /\ call' = [call EXCEPT ![r] = Idle]
  /\ room' = [room EXCEPT ![r] = 0]
  /\ orgLock' = IF orgLock = r THEN None ELSE orgLock
  /\ \A m \in Shops \X Users : memberLock'[m] = IF memberLock[m] = r THEN None ELSE memberLock[m]
  /\ UNCHANGED <<planVars, workerVars, boundVars>>

LEMMA FinishFacts ==
  ASSUME TypeOK, NEW r \in Requests, Finish(r)
  PROVE  /\ Finished(r)
         /\ pc' \in [Requests -> {"idle", "begun", "member", "owner", "granted"}]
         /\ room' \in [Requests -> Nat]
         /\ orgLock' \in Requests \cup {None}
         /\ memberLock' \in [Shops \X Users -> Requests \cup {None}]
<1>1. Finished(r)
  BY DEF Finish, Finished, Release
<1>2. /\ pc' \in [Requests -> {"idle", "begun", "member", "owner", "granted"}]
      /\ room' \in [Requests -> Nat]
  BY <1>1 DEF Finished, TypeOK
<1>3. orgLock' \in Requests \cup {None}
  BY <1>1 DEF Finished, TypeOK
<1>4. memberLock' \in [Shops \X Users -> Requests \cup {None}]
  BY DEF Finish, Release, TypeOK
<1> QED
  BY <1>1, <1>2, <1>3, <1>4

\* The row that a running request is about.
LEMMA CallFacts ==
  ASSUME TypeOK, CallsOK, NEW r \in Requests, pc[r] # "idle"
  PROVE  /\ call[r] \in Calls /\ call[r].op \in Asked
         /\ call[r].actor \in Users /\ call[r].shop \in Shops /\ call[r].shop \in open
         /\ call[r].grant \in Granted \cup {"none"}
         /\ call[r].active \in {"same", "on", "off"}
         /\ call[r].op # "add_shop" =>
              call[r].user \in Users /\ Row(call[r]) \in Shops \X Users
         /\ call[r].op = "add_shop" => call[r].owner = call[r].actor
         /\ call[r].op = "transfer" => call[r].user # call[r].actor
         /\ call[r].op = "invite" => call[r].grant \in Granted
         /\ pc[r] = "member" => call[r].op = "update" /\ call[r].active = "on"
         /\ pc[r] = "owner" => call[r].op = "transfer"
<1>1. CallOK(r) /\ call[r] \in Calls
  BY DEF CallsOK
<1>2. /\ call[r].grant \in Granted \cup {"none"}
      /\ call[r].active \in {"same", "on", "off"}
  BY <1>1 DEF Calls
<1>3. call[r].shop \in Shops
  BY <1>1 DEF CallOK, TypeOK
<1> QED
  BY <1>1, <1>2, <1>3 DEF CallOK, Row

\* Every step keeps the types.
LEMMA TypeStep == IInv /\ [Next]_vars => TypeOK'
<1> SUFFICES ASSUME IInv, [Next]_vars PROVE TypeOK'
  OBVIOUS
<1> USE ConstantsAssumption DEF IInv, orgVars, memberVars, planVars, transferVars, workerVars,
    requestVars, lockVars, boundVars
<1>1. ASSUME NEW r \in Requests, BeginAny(r)
      PROVE  TypeOK'
  <2> PICK c : Asking(c) /\ Begun(r, c)
    BY <1>1, BeginFacts
  <2> QED
    BY DEF Asking, Begun, TypeOK
<1>2. ASSUME NEW r \in Requests, GrantShop(r)
      PROVE  TypeOK'
  <2>1. ShopLimit \in Nat
    BY LimitFacts
  <2> QED
    BY <1>2, <2>1 DEF GrantShop, Proceed, TypeOK
<1>3. ASSUME NEW r \in Requests, GrantSeat(r)
      PROVE  TypeOK'
  <2>1. Larger(SeatLimit, Cardinality(Team)) \in Nat
    BY LimitFacts, TeamFacts DEF Larger
  <2> QED
    BY <1>3, <2>1 DEF GrantSeat, Proceed, TypeOK
<1>4. ASSUME NEW r \in Requests, LockMember(r)
      PROVE  TypeOK'
  <2>1. /\ memberLock' = [memberLock EXCEPT ![Row(call[r])] = r]
        /\ pc' = [pc EXCEPT ![r] = "granted"] \/ pc' = [pc EXCEPT ![r] = "member"]
        /\ UNCHANGED <<call, orgLock, room, orgVars, memberVars, invitation, planVars,
                       transferVars, workerVars, boundVars>>
    BY <1>4 DEF LockMember, Proceed, Row
  <2>2. memberLock' \in [Shops \X Users -> Requests \cup {None}]
    BY <2>1 DEF TypeOK
  <2> QED
    BY <2>1, <2>2 DEF TypeOK
<1>5. ASSUME NEW r \in Requests, LockOrganization(r)
      PROVE  TypeOK'
  BY <1>5 DEF LockOrganization, Proceed, TypeOK
<1>6. ASSUME NEW r \in Requests, LockTarget(r)
      PROVE  TypeOK'
  <2>1. /\ memberLock' = [memberLock EXCEPT ![Row(call[r])] = r]
        /\ pc' = [pc EXCEPT ![r] = "granted"]
        /\ UNCHANGED <<call, orgLock, room, orgVars, memberVars, invitation, planVars,
                       transferVars, workerVars, boundVars>>
    BY <1>6 DEF LockTarget, Proceed, Row
  <2>2. memberLock' \in [Shops \X Users -> Requests \cup {None}]
    BY <2>1 DEF TypeOK
  <2> QED
    BY <2>1, <2>2 DEF TypeOK
<1>7. ASSUME NEW r \in Requests, CommitUpdate(r)
      PROVE  TypeOK'
  <2>0. pc[r] # "idle" /\ Finish(r)
    BY <1>7 DEF CommitUpdate
  <2>1. \A m \in Shops \X Users : role'[m] \in Roles /\ live'[m] \in BOOLEAN
    BY <1>7, <2>0, CallFacts DEF CommitUpdate, TypeOK, Roles
  <2>2. role' \in [Shops \X Users -> Roles] /\ live' \in [Shops \X Users -> BOOLEAN]
    BY <1>7, <2>1 DEF CommitUpdate, TypeOK
  <2> QED
    BY <1>7, <2>0, <2>2, FinishFacts DEF CommitUpdate, Finished, TypeOK
<1>8. ASSUME NEW r \in Requests, CommitTransfer(r)
      PROVE  TypeOK'
  <2>0. pc[r] # "idle" /\ call[r].op = "transfer" /\ Finish(r)
    BY <1>8 DEF CommitTransfer
  <2>1. from' \in Users /\ to' \in Users /\ attempts' \in 0..MaxAttempts
    BY <1>8, <2>0, CallFacts, LimitFacts DEF CommitTransfer
  <2> QED
    BY <1>8, <2>0, <2>1, FinishFacts DEF CommitTransfer, Finished, TypeOK
<1>9. ASSUME NEW r \in Requests, NEW s \in Shops, CommitAddShop(r, s)
      PROVE  TypeOK'
  <2>0. pc[r] # "idle" /\ Finish(r)
    BY <1>9 DEF CommitAddShop
  <2>1. role' \in [Shops \X Users -> Roles] /\ live' \in [Shops \X Users -> BOOLEAN]
    BY <1>9, <2>0, CallFacts DEF CommitAddShop, TypeOK, Roles
  <2>2. open' \subseteq Shops /\ late' \subseteq open'
    BY <1>9 DEF CommitAddShop, TypeOK
  <2> QED
    BY <1>9, <2>0, <2>1, <2>2, FinishFacts DEF CommitAddShop, Finished, TypeOK
<1>10. ASSUME NEW r \in Requests, NEW i \in Invitations, CommitInvite(r, i)
      PROVE  TypeOK'
  <2>0. pc[r] # "idle" /\ call[r].op = "invite" /\ Finish(r)
    BY <1>10 DEF CommitInvite
  <2>1. invitation' \in [Invitations -> [shop : Shops, user : Users, role : Granted] \cup {None}]
    BY <1>10, <2>0, CallFacts DEF CommitInvite, TypeOK
  <2> QED
    BY <1>10, <2>0, <2>1, FinishFacts DEF CommitInvite, Finished, TypeOK
<1>11. ASSUME NEW r \in Requests, Rollback(r)
      PROVE  TypeOK'
  <2>0. Finish(r)
    BY <1>11 DEF Rollback
  <2> QED
    BY <1>11, <2>0, FinishFacts DEF Rollback, Finished, TypeOK
<1>12. ASSUME NEW i \in Invitations, Accept(i)
      PROVE  TypeOK'
  <2>1. role' \in [Shops \X Users -> Roles] /\ live' \in [Shops \X Users -> BOOLEAN]
    <3>1. invitation[i].role \in Roles
      BY <1>12 DEF Accept, TypeOK, Roles
    <3> QED
      BY <1>12, <3>1 DEF Accept, TypeOK
  <2> QED
    BY <1>12, <2>1 DEF Accept, TypeOK
<1>13. ASSUME NEW i \in Invitations, Withdraw(i)
      PROVE  TypeOK'
  BY <1>13 DEF Withdraw, TypeOK
<1>14. ASSUME NEW u \in Users, FoundOrganization(u)
      PROVE  TypeOK'
  BY <1>14 DEF FoundOrganization, TypeOK
<1>15. ASSUME ChangePlan
      PROVE  TypeOK'
  BY <1>15 DEF ChangePlan, TypeOK
<1>16. ASSUME ClaimTransfer
      PROVE  TypeOK'
  <2>1. attempts' \in 0..MaxAttempts
    BY <1>16, LimitFacts DEF ClaimTransfer, TypeOK, TransferOK
  <2> QED
    BY <1>16, <2>1 DEF ClaimTransfer, WorkerAt, TypeOK
<1>17. ASSUME CancelRenewal
      PROVE  TypeOK'
  BY <1>17 DEF CancelRenewal, WorkerAt, TypeOK
<1>18. ASSUME CheckTransfer
      PROVE  TypeOK'
  BY <1>18 DEF CheckTransfer, WorkerAt, TypeOK
<1>19. ASSUME LockRows
      PROVE  TypeOK'
  BY <1>19 DEF LockRows, WorkerAt, TypeOK
<1>20. ASSUME HandOver
      PROVE  TypeOK'
  <2>1. \A m \in Shops \X Users : role'[m] \in Roles /\ live'[m] \in BOOLEAN
    <3>1. \A m \in Shops \X Users : role[m] \in Roles /\ live[m] \in BOOLEAN
      BY DEF TypeOK
    <3> QED
      BY <1>20, <3>1 DEF HandOver, Roles, Granted
  <2>2. role' \in [Shops \X Users -> Roles] /\ live' \in [Shops \X Users -> BOOLEAN]
    BY <1>20, <2>1 DEF HandOver
  <2>3. to \in Users
    BY <1>20 DEF HandOver, TransferOK, InProgress
  <2> QED
    BY <1>20, <2>2, <2>3 DEF HandOver, WorkerAt, TypeOK
<1>21. ASSUME WorkerFails
      PROVE  TypeOK'
  BY <1>21 DEF WorkerFails, WorkerAt, TypeOK
<1>22. ASSUME WorkerDies
      PROVE  TypeOK'
  BY <1>22 DEF WorkerDies, WorkerAt, TypeOK
<1>23. ASSUME BackoffElapses
      PROVE  TypeOK'
  BY <1>23 DEF BackoffElapses, TypeOK
<1>24. ASSUME UNCHANGED vars
      PROVE  TypeOK'
  BY <1>24 DEF vars, TypeOK
<1> QED
  BY <1>1, <1>2, <1>3, <1>4, <1>5, <1>6, <1>7, <1>8, <1>9, <1>10, <1>11, <1>12, <1>13, <1>14,
      <1>15, <1>16, <1>17, <1>18, <1>19, <1>20, <1>21, <1>22, <1>23, <1>24 DEF Next, Progress,
      WorkerProgress

LEMMA IdleCall == Idle \in Calls
BY DEF Idle, Calls, Roles

\* Requests are about what they were begun for.
LEMMA CallsStep == IInv /\ [Next]_vars => CallsOK'
<1> SUFFICES ASSUME IInv, [Next]_vars PROVE CallsOK'
  OBVIOUS
<1> USE DEF IInv, orgVars, memberVars, planVars, transferVars, workerVars, requestVars,
    lockVars, boundVars
<1>1. ASSUME NEW r \in Requests, BeginAny(r)
      PROVE  CallsOK'
  <2>0. TypeOK /\ CallsOK
    OBVIOUS
  <2> PICK c : Asking(c) /\ Begun(r, c)
    BY <1>1, <2>0, BeginFacts
  <2>1. call' \in [Requests -> Calls]
    BY <2>0 DEF Asking, Begun, CallsOK
  <2>2. CallOK(r)'
    BY <2>0 DEF Asking, Begun, TypeOK, CallsOK, CallOK
  <2>3. \A q \in Requests \ {r} : CallOK(q)'
    BY <2>0 DEF Begun, TypeOK, CallsOK, CallOK
  <2> QED
    BY <2>1, <2>2, <2>3 DEF CallsOK
<1>2. ASSUME NEW r \in Requests, GrantShop(r)
      PROVE  CallsOK'
  <2>0. TypeOK /\ CallsOK
    OBVIOUS
  <2>1. CallOK(r)'
    BY <1>2, <2>0 DEF GrantShop, Proceed, CallsOK, CallOK, TypeOK, MayUpdate
  <2>2. \A q \in Requests \ {r} : CallOK(q)'
    BY <1>2, <2>0 DEF GrantShop, Proceed, CallsOK, CallOK, TypeOK
  <2>3. call' \in [Requests -> Calls]
    BY <1>2, <2>0 DEF GrantShop, Proceed, CallsOK
  <2> QED
    BY <2>1, <2>2, <2>3 DEF CallsOK
<1>3. ASSUME NEW r \in Requests, GrantSeat(r)
      PROVE  CallsOK'
  <2>0. TypeOK /\ CallsOK
    OBVIOUS
  <2>1. CallOK(r)'
    BY <1>3, <2>0 DEF GrantSeat, Proceed, CallsOK, CallOK, TypeOK, MayUpdate
  <2>2. \A q \in Requests \ {r} : CallOK(q)'
    BY <1>3, <2>0 DEF GrantSeat, Proceed, CallsOK, CallOK, TypeOK
  <2>3. call' \in [Requests -> Calls]
    BY <1>3, <2>0 DEF GrantSeat, Proceed, CallsOK
  <2> QED
    BY <2>1, <2>2, <2>3 DEF CallsOK
<1>4. ASSUME NEW r \in Requests, LockMember(r)
      PROVE  CallsOK'
  <2>0. TypeOK /\ CallsOK
    OBVIOUS
  <2>1. CallOK(r)'
    BY <1>4, <2>0 DEF LockMember, Proceed, CallsOK, CallOK, TypeOK, MayUpdate
  <2>2. \A q \in Requests \ {r} : CallOK(q)'
    BY <1>4, <2>0 DEF LockMember, Proceed, CallsOK, CallOK, TypeOK
  <2>3. call' \in [Requests -> Calls]
    BY <1>4, <2>0 DEF LockMember, Proceed, CallsOK
  <2> QED
    BY <2>1, <2>2, <2>3 DEF CallsOK
<1>5. ASSUME NEW r \in Requests, LockOrganization(r)
      PROVE  CallsOK'
  <2>0. TypeOK /\ CallsOK
    OBVIOUS
  <2>1. CallOK(r)'
    BY <1>5, <2>0 DEF LockOrganization, Proceed, CallsOK, CallOK, TypeOK, MayUpdate
  <2>2. \A q \in Requests \ {r} : CallOK(q)'
    BY <1>5, <2>0 DEF LockOrganization, Proceed, CallsOK, CallOK, TypeOK
  <2>3. call' \in [Requests -> Calls]
    BY <1>5, <2>0 DEF LockOrganization, Proceed, CallsOK
  <2> QED
    BY <2>1, <2>2, <2>3 DEF CallsOK
<1>6. ASSUME NEW r \in Requests, LockTarget(r)
      PROVE  CallsOK'
  <2>0. TypeOK /\ CallsOK
    OBVIOUS
  <2>1. CallOK(r)'
    BY <1>6, <2>0 DEF LockTarget, Proceed, CallsOK, CallOK, TypeOK, MayUpdate
  <2>2. \A q \in Requests \ {r} : CallOK(q)'
    BY <1>6, <2>0 DEF LockTarget, Proceed, CallsOK, CallOK, TypeOK
  <2>3. call' \in [Requests -> Calls]
    BY <1>6, <2>0 DEF LockTarget, Proceed, CallsOK
  <2> QED
    BY <2>1, <2>2, <2>3 DEF CallsOK
<1>7. ASSUME NEW r \in Requests, CommitUpdate(r)
      PROVE  CallsOK'
  <2>1. TypeOK /\ CallsOK /\ Finish(r)
    BY <1>7 DEF CommitUpdate
  <2>2. Finished(r)
    BY <2>1, FinishFacts
  <2>3. open \subseteq open'
    BY <1>7 DEF CommitUpdate
  <2>4. call' \in [Requests -> Calls]
    BY <2>1, <2>2, IdleCall DEF Finished, CallsOK
  <2> QED
    BY <2>1, <2>2, <2>3, <2>4 DEF Finished, TypeOK, CallsOK, CallOK
<1>8. ASSUME NEW r \in Requests, CommitTransfer(r)
      PROVE  CallsOK'
  <2>1. TypeOK /\ CallsOK /\ Finish(r)
    BY <1>8 DEF CommitTransfer
  <2>2. Finished(r)
    BY <2>1, FinishFacts
  <2>3. open \subseteq open'
    BY <1>8 DEF CommitTransfer
  <2>4. call' \in [Requests -> Calls]
    BY <2>1, <2>2, IdleCall DEF Finished, CallsOK
  <2> QED
    BY <2>1, <2>2, <2>3, <2>4 DEF Finished, TypeOK, CallsOK, CallOK
<1>9. ASSUME NEW r \in Requests, NEW s \in Shops, CommitAddShop(r, s)
      PROVE  CallsOK'
  <2>1. TypeOK /\ CallsOK /\ Finish(r)
    BY <1>9 DEF CommitAddShop
  <2>2. Finished(r)
    BY <2>1, FinishFacts
  <2>3. open \subseteq open'
    BY <1>9 DEF CommitAddShop
  <2>4. call' \in [Requests -> Calls]
    BY <2>1, <2>2, IdleCall DEF Finished, CallsOK
  <2> QED
    BY <2>1, <2>2, <2>3, <2>4 DEF Finished, TypeOK, CallsOK, CallOK
<1>10. ASSUME NEW r \in Requests, NEW i \in Invitations, CommitInvite(r, i)
      PROVE  CallsOK'
  <2>1. TypeOK /\ CallsOK /\ Finish(r)
    BY <1>10 DEF CommitInvite
  <2>2. Finished(r)
    BY <2>1, FinishFacts
  <2>3. open \subseteq open'
    BY <1>10 DEF CommitInvite
  <2>4. call' \in [Requests -> Calls]
    BY <2>1, <2>2, IdleCall DEF Finished, CallsOK
  <2> QED
    BY <2>1, <2>2, <2>3, <2>4 DEF Finished, TypeOK, CallsOK, CallOK
<1>11. ASSUME NEW r \in Requests, Rollback(r)
      PROVE  CallsOK'
  <2>1. TypeOK /\ CallsOK /\ Finish(r)
    BY <1>11 DEF Rollback
  <2>2. Finished(r)
    BY <2>1, FinishFacts
  <2>3. open \subseteq open'
    BY <1>11 DEF Rollback
  <2>4. call' \in [Requests -> Calls]
    BY <2>1, <2>2, IdleCall DEF Finished, CallsOK
  <2> QED
    BY <2>1, <2>2, <2>3, <2>4 DEF Finished, TypeOK, CallsOK, CallOK
<1>12. ASSUME NEW i \in Invitations, Accept(i)
      PROVE  CallsOK'
  BY <1>12 DEF Accept, CallsOK, CallOK
<1>13. ASSUME NEW i \in Invitations, Withdraw(i)
      PROVE  CallsOK'
  BY <1>13 DEF Withdraw, CallsOK, CallOK
<1>14. ASSUME NEW u \in Users, FoundOrganization(u)
      PROVE  CallsOK'
  BY <1>14 DEF FoundOrganization, CallsOK, CallOK
<1>15. ASSUME ChangePlan
      PROVE  CallsOK'
  BY <1>15 DEF ChangePlan, CallsOK, CallOK
<1>16. ASSUME ClaimTransfer
      PROVE  CallsOK'
  BY <1>16 DEF ClaimTransfer, WorkerAt, CallsOK, CallOK
<1>17. ASSUME CancelRenewal
      PROVE  CallsOK'
  BY <1>17 DEF CancelRenewal, WorkerAt, CallsOK, CallOK
<1>18. ASSUME CheckTransfer
      PROVE  CallsOK'
  BY <1>18 DEF CheckTransfer, WorkerAt, CallsOK, CallOK
<1>19. ASSUME LockRows
      PROVE  CallsOK'
  BY <1>19 DEF LockRows, WorkerAt, CallsOK, CallOK
<1>20. ASSUME HandOver
      PROVE  CallsOK'
  BY <1>20 DEF HandOver, WorkerAt, CallsOK, CallOK
<1>21. ASSUME WorkerFails
      PROVE  CallsOK'
  BY <1>21 DEF WorkerFails, WorkerAt, CallsOK, CallOK
<1>22. ASSUME WorkerDies
      PROVE  CallsOK'
  BY <1>22 DEF WorkerDies, WorkerAt, CallsOK, CallOK
<1>23. ASSUME BackoffElapses
      PROVE  CallsOK'
  BY <1>23 DEF BackoffElapses, CallsOK, CallOK
<1>24. ASSUME UNCHANGED vars
      PROVE  CallsOK'
  BY <1>24 DEF vars, CallsOK, CallOK
<1> QED
  BY <1>1, <1>2, <1>3, <1>4, <1>5, <1>6, <1>7, <1>8, <1>9, <1>10, <1>11, <1>12, <1>13, <1>14,
      <1>15, <1>16, <1>17, <1>18, <1>19, <1>20, <1>21, <1>22, <1>23, <1>24 DEF Next, Progress,
      WorkerProgress

\* Who has the organization keeps it until the request ends.
LEMMA OrgLockStep == IInv /\ [Next]_vars => OrgLockOK'
<1> SUFFICES ASSUME IInv, [Next]_vars PROVE OrgLockOK'
  OBVIOUS
<1> USE ConstantsAssumption DEF IInv, orgVars, memberVars, planVars, transferVars, workerVars,
    requestVars, lockVars, boundVars
<1>1. ASSUME NEW r \in Requests, BeginAny(r)
      PROVE  OrgLockOK'
  <2>0. TypeOK /\ CallsOK /\ OrgLockOK
    OBVIOUS
  <2> PICK c : Asking(c) /\ Begun(r, c)
    BY <1>1, <2>0, BeginFacts
  <2> QED
    BY <2>0 DEF Begun, OrgLockOK, Seated, TypeOK, CallsOK
<1>2. ASSUME NEW r \in Requests, GrantShop(r)
      PROVE  OrgLockOK'
  <2>0. TypeOK /\ CallsOK /\ OrgLockOK
    OBVIOUS
  <2>1. ShopLimit \in Nat \ {0}
    BY LimitFacts
  <2> QED
    BY <1>2, <2>0, <2>1 DEF GrantShop, Proceed, OrgLockOK, Seated, TypeOK, OrgFree
<1>3. ASSUME NEW r \in Requests, GrantSeat(r)
      PROVE  OrgLockOK'
  <2>0. TypeOK /\ CallsOK /\ OrgLockOK
    OBVIOUS
  <2>1. Larger(SeatLimit, Cardinality(Team)) \in Nat \ {0}
    BY LimitFacts, TeamFacts DEF Larger
  <2>2. call[r].op \in {"invite", "update"}
    BY <1>3, <2>0 DEF GrantSeat, CallsOK, CallOK
  <2> QED
    BY <1>3, <2>0, <2>1, <2>2 DEF GrantSeat, Proceed, OrgLockOK, Seated, TypeOK, OrgFree
<1>4. ASSUME NEW r \in Requests, LockMember(r)
      PROVE  OrgLockOK'
  <2>0. TypeOK /\ CallsOK /\ OrgLockOK
    OBVIOUS
  <2>1. CallOK(r)
    BY DEF CallsOK
  <2> QED
    BY <1>4, <2>0, <2>1 DEF LockMember, Proceed, OrgLockOK, Seated, TypeOK, OrgFree, CallOK
<1>5. ASSUME NEW r \in Requests, LockOrganization(r)
      PROVE  OrgLockOK'
  <2>0. TypeOK /\ CallsOK /\ OrgLockOK
    OBVIOUS
  <2>1. CallOK(r)
    BY DEF CallsOK
  <2> QED
    BY <1>5, <2>0, <2>1 DEF LockOrganization, Proceed, OrgLockOK, Seated, TypeOK, OrgFree, CallOK
<1>6. ASSUME NEW r \in Requests, LockTarget(r)
      PROVE  OrgLockOK'
  <2>0. TypeOK /\ CallsOK /\ OrgLockOK
    OBVIOUS
  <2>1. CallOK(r)
    BY DEF CallsOK
  <2> QED
    BY <1>6, <2>0, <2>1 DEF LockTarget, Proceed, OrgLockOK, Seated, TypeOK, OrgFree, CallOK
<1>7. ASSUME NEW r \in Requests, CommitUpdate(r)
      PROVE  OrgLockOK'
  <2>1. TypeOK /\ CallsOK /\ OrgLockOK /\ Finish(r)
    BY <1>7 DEF CommitUpdate
  <2>2. Finished(r)
    BY <2>1, FinishFacts
  <2> QED
    BY <1>7, <2>1, <2>2 DEF CommitUpdate, Finished, OrgLockOK, Seated, TypeOK, CallsOK, Idle
<1>8. ASSUME NEW r \in Requests, CommitTransfer(r)
      PROVE  OrgLockOK'
  <2>1. TypeOK /\ CallsOK /\ OrgLockOK /\ Finish(r)
    BY <1>8 DEF CommitTransfer
  <2>2. Finished(r)
    BY <2>1, FinishFacts
  <2> QED
    BY <1>8, <2>1, <2>2 DEF CommitTransfer, Finished, OrgLockOK, Seated, TypeOK, CallsOK, Idle
<1>9. ASSUME NEW r \in Requests, NEW s \in Shops, CommitAddShop(r, s)
      PROVE  OrgLockOK'
  <2>1. TypeOK /\ CallsOK /\ OrgLockOK /\ Finish(r)
    BY <1>9 DEF CommitAddShop
  <2>2. Finished(r)
    BY <2>1, FinishFacts
  <2> QED
    BY <1>9, <2>1, <2>2 DEF CommitAddShop, Finished, OrgLockOK, Seated, TypeOK, CallsOK, Idle
<1>10. ASSUME NEW r \in Requests, NEW i \in Invitations, CommitInvite(r, i)
      PROVE  OrgLockOK'
  <2>1. TypeOK /\ CallsOK /\ OrgLockOK /\ Finish(r)
    BY <1>10 DEF CommitInvite
  <2>2. Finished(r)
    BY <2>1, FinishFacts
  <2> QED
    BY <1>10, <2>1, <2>2 DEF CommitInvite, Finished, OrgLockOK, Seated, TypeOK, CallsOK, Idle
<1>11. ASSUME NEW r \in Requests, Rollback(r)
      PROVE  OrgLockOK'
  <2>1. TypeOK /\ CallsOK /\ OrgLockOK /\ Finish(r)
    BY <1>11 DEF Rollback
  <2>2. Finished(r)
    BY <2>1, FinishFacts
  <2> QED
    BY <1>11, <2>1, <2>2 DEF Rollback, Finished, OrgLockOK, Seated, TypeOK, CallsOK, Idle
<1>12. ASSUME NEW i \in Invitations, Accept(i)
      PROVE  OrgLockOK'
  BY <1>12 DEF Accept, OrgLockOK, Seated
<1>13. ASSUME NEW i \in Invitations, Withdraw(i)
      PROVE  OrgLockOK'
  BY <1>13 DEF Withdraw, OrgLockOK, Seated
<1>14. ASSUME NEW u \in Users, FoundOrganization(u)
      PROVE  OrgLockOK'
  BY <1>14 DEF FoundOrganization, OrgLockOK, Seated
<1>15. ASSUME ChangePlan
      PROVE  OrgLockOK'
  BY <1>15 DEF ChangePlan, OrgLockOK, Seated
<1>16. ASSUME ClaimTransfer
      PROVE  OrgLockOK'
  BY <1>16 DEF ClaimTransfer, WorkerAt, OrgLockOK, Seated
<1>17. ASSUME CancelRenewal
      PROVE  OrgLockOK'
  BY <1>17 DEF CancelRenewal, WorkerAt, OrgLockOK, Seated
<1>18. ASSUME CheckTransfer
      PROVE  OrgLockOK'
  BY <1>18 DEF CheckTransfer, WorkerAt, OrgLockOK, Seated
<1>19. ASSUME LockRows
      PROVE  OrgLockOK'
  BY <1>19 DEF LockRows, WorkerAt, OrgLockOK, Seated
<1>20. ASSUME HandOver
      PROVE  OrgLockOK'
  BY <1>20 DEF HandOver, WorkerAt, OrgLockOK, Seated
<1>21. ASSUME WorkerFails
      PROVE  OrgLockOK'
  BY <1>21 DEF WorkerFails, WorkerAt, OrgLockOK, Seated
<1>22. ASSUME WorkerDies
      PROVE  OrgLockOK'
  BY <1>22 DEF WorkerDies, WorkerAt, OrgLockOK, Seated
<1>23. ASSUME BackoffElapses
      PROVE  OrgLockOK'
  BY <1>23 DEF BackoffElapses, OrgLockOK, Seated
<1>24. ASSUME UNCHANGED vars
      PROVE  OrgLockOK'
  BY <1>24 DEF vars, OrgLockOK, Seated
<1> QED
  BY <1>1, <1>2, <1>3, <1>4, <1>5, <1>6, <1>7, <1>8, <1>9, <1>10, <1>11, <1>12, <1>13, <1>14,
      <1>15, <1>16, <1>17, <1>18, <1>19, <1>20, <1>21, <1>22, <1>23, <1>24 DEF Next, Progress,
      WorkerProgress

\* An update that was checked is still in order when it commits.
LEMMA UpdatesStep == IInv /\ [Next]_vars => UpdatesOK'
<1> SUFFICES ASSUME IInv, [Next]_vars PROVE UpdatesOK'
  OBVIOUS
<1> USE ConstantsAssumption DEF IInv, orgVars, memberVars, planVars, transferVars, workerVars,
    requestVars, lockVars, boundVars
<1>1. ASSUME NEW r \in Requests, BeginAny(r)
      PROVE  UpdatesOK'
  <2>0. TypeOK /\ CallsOK /\ UpdatesOK
    OBVIOUS
  <2> PICK c : Asking(c) /\ Begun(r, c)
    BY <1>1, <2>0, BeginFacts
  <2> QED
    BY <2>0 DEF Begun, UpdatesOK, UpdateOK, Row, TypeOK, CallsOK
<1>2. ASSUME NEW r \in Requests, GrantShop(r)
      PROVE  UpdatesOK'
  <2>0. TypeOK /\ CallsOK /\ UpdatesOK
    OBVIOUS
  <2> QED
    BY <1>2, <2>0 DEF GrantShop, Proceed, UpdatesOK, UpdateOK, Row, TypeOK
<1>3. ASSUME NEW r \in Requests, GrantSeat(r)
      PROVE  UpdatesOK'
  <2>0. TypeOK /\ CallsOK /\ UpdatesOK
    OBVIOUS
  <2>1. Larger(SeatLimit, Cardinality(Team)) \in Nat \ {0}
    BY LimitFacts, TeamFacts DEF Larger
  <2>2. UpdateOK(r)'
    BY <1>3, <2>0, <2>1 DEF GrantSeat, Proceed, UpdatesOK, UpdateOK, Row, TypeOK
  <2>3. \A q \in Requests \ {r} : UpdateOK(q)'
    BY <1>3, <2>0 DEF GrantSeat, Proceed, UpdatesOK, UpdateOK, Row, TypeOK
  <2> QED
    BY <2>2, <2>3 DEF UpdatesOK
<1>4. ASSUME NEW r \in Requests, LockMember(r)
      PROVE  UpdatesOK'
  <2>0. TypeOK /\ CallsOK /\ UpdatesOK /\ pc[r] # "idle"
    BY <1>4 DEF LockMember
  <2>1. /\ memberLock[Row(call[r])] = None
        /\ memberLock' = [memberLock EXCEPT ![Row(call[r])] = r]
        /\ \A q \in Requests \ {r} : pc'[q] = pc[q]
        /\ UNCHANGED <<call, room, role, live>>
    BY <1>4, <2>0 DEF LockMember, Proceed, Row, TypeOK
  <2>2. UpdateOK(r)'
    <3>1. Row(call[r]) \in DOMAIN memberLock \/ call[r].op = "add_shop"
      BY <2>0, CallFacts DEF TypeOK
    <3>2. CallOK(r)
      BY DEF CallsOK
    <3> QED
      BY <1>4, <2>0, <2>1, <3>1, <3>2
      DEF LockMember, Proceed, MayUpdate, UpdateOK, Row, TypeOK, Roles, CallOK
  <2>3. \A q \in Requests \ {r} : UpdateOK(q)'
    BY <2>0, <2>1 DEF UpdatesOK, UpdateOK, Row, TypeOK
  <2> QED
    BY <2>2, <2>3 DEF UpdatesOK
<1>5. ASSUME NEW r \in Requests, LockOrganization(r)
      PROVE  UpdatesOK'
  <2>0. TypeOK /\ CallsOK /\ UpdatesOK
    OBVIOUS
  <2> QED
    BY <1>5, <2>0 DEF LockOrganization, Proceed, UpdatesOK, UpdateOK, Row, TypeOK
<1>6. ASSUME NEW r \in Requests, LockTarget(r)
      PROVE  UpdatesOK'
  <2>0. TypeOK /\ CallsOK /\ UpdatesOK /\ pc[r] # "idle"
    BY <1>6 DEF LockTarget
  <2>1. /\ memberLock[Row(call[r])] = None
        /\ memberLock' = [memberLock EXCEPT ![Row(call[r])] = r]
        /\ \A q \in Requests \ {r} : pc'[q] = pc[q]
        /\ UNCHANGED <<call, room, role, live>>
    BY <1>6, <2>0 DEF LockTarget, Proceed, Row, TypeOK
  <2>2. UpdateOK(r)'
    <3>1. Row(call[r]) \in DOMAIN memberLock \/ call[r].op = "add_shop"
      BY <2>0, CallFacts DEF TypeOK
    <3>2. CallOK(r)
      BY DEF CallsOK
    <3> QED
      BY <1>6, <2>0, <2>1, <3>1, <3>2
      DEF LockTarget, Proceed, MayUpdate, UpdateOK, Row, TypeOK, Roles, CallOK
  <2>3. \A q \in Requests \ {r} : UpdateOK(q)'
    BY <2>0, <2>1 DEF UpdatesOK, UpdateOK, Row, TypeOK
  <2> QED
    BY <2>2, <2>3 DEF UpdatesOK
<1>7. ASSUME NEW r \in Requests, CommitUpdate(r)
      PROVE  UpdatesOK'
  <2>0. TypeOK /\ CallsOK /\ UpdatesOK /\ pc[r] # "idle" /\ Finish(r)
    BY <1>7 DEF CommitUpdate
  <2>1. Finished(r)
    BY <2>0, FinishFacts
  <2>2. UpdateOK(r)'
    BY <2>0, <2>1 DEF Finished, UpdateOK, TypeOK
  <2>3. ASSUME NEW q \in Requests \ {r}, pc'[q] \in {"member", "granted"},
               call'[q].op = "update"
        PROVE  UpdateOK(q)'
    <3>1. pc'[q] = pc[q] /\ call'[q] = call[q] /\ room'[q] = room[q]
      BY <2>0, <2>1 DEF Finished, TypeOK, CallsOK
    <3>2. /\ Row(call[q]) \in Shops \X Users /\ call[q].shop \in open
          /\ memberLock[Row(call[q])] = q /\ UpdateOK(q)
      BY <2>0, <2>3, <3>1, CallFacts DEF UpdatesOK, UpdateOK
    <3>3. memberLock'[Row(call[q])] = q
      BY <2>1, <3>2 DEF Finished
    <3>4. role'[Row(call[q])] = role[Row(call[q])] /\ live'[Row(call[q])] = live[Row(call[q])]
      <4>1. UpdateOK(r) /\ pc[r] = "granted" /\ call[r].op = "update"
        BY <1>7 DEF CommitUpdate, UpdatesOK
      <4>2. Row(call[r]) # Row(call[q])
        BY <3>2, <4>1 DEF UpdateOK
      <4> QED
        BY <1>7, <2>0, <3>2, <4>2 DEF CommitUpdate, Row, TypeOK
    <3> QED
      BY <2>3, <3>1, <3>2, <3>3, <3>4 DEF UpdateOK, Row
  <2> QED
    BY <2>2, <2>3 DEF UpdatesOK, UpdateOK
<1>8. ASSUME NEW r \in Requests, CommitTransfer(r)
      PROVE  UpdatesOK'
  <2>0. TypeOK /\ CallsOK /\ UpdatesOK /\ pc[r] # "idle" /\ Finish(r)
    BY <1>8 DEF CommitTransfer
  <2>1. Finished(r)
    BY <2>0, FinishFacts
  <2>2. UpdateOK(r)'
    BY <2>0, <2>1 DEF Finished, UpdateOK, TypeOK
  <2>3. ASSUME NEW q \in Requests \ {r}, pc'[q] \in {"member", "granted"},
               call'[q].op = "update"
        PROVE  UpdateOK(q)'
    <3>1. pc'[q] = pc[q] /\ call'[q] = call[q] /\ room'[q] = room[q]
      BY <2>0, <2>1 DEF Finished, TypeOK, CallsOK
    <3>2. /\ Row(call[q]) \in Shops \X Users /\ call[q].shop \in open
          /\ memberLock[Row(call[q])] = q /\ UpdateOK(q)
      BY <2>0, <2>3, <3>1, CallFacts DEF UpdatesOK, UpdateOK
    <3>3. memberLock'[Row(call[q])] = q
      BY <2>1, <3>2 DEF Finished
    <3>4. role'[Row(call[q])] = role[Row(call[q])] /\ live'[Row(call[q])] = live[Row(call[q])]
      BY <1>8 DEF CommitTransfer
    <3> QED
      BY <2>3, <3>1, <3>2, <3>3, <3>4 DEF UpdateOK, Row
  <2> QED
    BY <2>2, <2>3 DEF UpdatesOK, UpdateOK
<1>9. ASSUME NEW r \in Requests, NEW s \in Shops, CommitAddShop(r, s)
      PROVE  UpdatesOK'
  <2>0. TypeOK /\ CallsOK /\ UpdatesOK /\ pc[r] # "idle" /\ Finish(r)
    BY <1>9 DEF CommitAddShop
  <2>1. Finished(r)
    BY <2>0, FinishFacts
  <2>2. UpdateOK(r)'
    BY <2>0, <2>1 DEF Finished, UpdateOK, TypeOK
  <2>3. ASSUME NEW q \in Requests \ {r}, pc'[q] \in {"member", "granted"},
               call'[q].op = "update"
        PROVE  UpdateOK(q)'
    <3>1. pc'[q] = pc[q] /\ call'[q] = call[q] /\ room'[q] = room[q]
      BY <2>0, <2>1 DEF Finished, TypeOK, CallsOK
    <3>2. /\ Row(call[q]) \in Shops \X Users /\ call[q].shop \in open
          /\ memberLock[Row(call[q])] = q /\ UpdateOK(q)
      BY <2>0, <2>3, <3>1, CallFacts DEF UpdatesOK, UpdateOK
    <3>3. memberLock'[Row(call[q])] = q
      BY <2>1, <3>2 DEF Finished
    <3>4. role'[Row(call[q])] = role[Row(call[q])] /\ live'[Row(call[q])] = live[Row(call[q])]
      <4>1. s \notin open /\ Row(call[q]) # <<s, call[r].actor>>
        BY <1>9, <3>2 DEF CommitAddShop, Row
      <4> QED
        BY <1>9, <2>0, <3>2, <4>1 DEF CommitAddShop, TypeOK
    <3> QED
      BY <2>3, <3>1, <3>2, <3>3, <3>4 DEF UpdateOK, Row
  <2> QED
    BY <2>2, <2>3 DEF UpdatesOK, UpdateOK
<1>10. ASSUME NEW r \in Requests, NEW i \in Invitations, CommitInvite(r, i)
      PROVE  UpdatesOK'
  <2>0. TypeOK /\ CallsOK /\ UpdatesOK /\ pc[r] # "idle" /\ Finish(r)
    BY <1>10 DEF CommitInvite
  <2>1. Finished(r)
    BY <2>0, FinishFacts
  <2>2. UpdateOK(r)'
    BY <2>0, <2>1 DEF Finished, UpdateOK, TypeOK
  <2>3. ASSUME NEW q \in Requests \ {r}, pc'[q] \in {"member", "granted"},
               call'[q].op = "update"
        PROVE  UpdateOK(q)'
    <3>1. pc'[q] = pc[q] /\ call'[q] = call[q] /\ room'[q] = room[q]
      BY <2>0, <2>1 DEF Finished, TypeOK, CallsOK
    <3>2. /\ Row(call[q]) \in Shops \X Users /\ call[q].shop \in open
          /\ memberLock[Row(call[q])] = q /\ UpdateOK(q)
      BY <2>0, <2>3, <3>1, CallFacts DEF UpdatesOK, UpdateOK
    <3>3. memberLock'[Row(call[q])] = q
      BY <2>1, <3>2 DEF Finished
    <3>4. role'[Row(call[q])] = role[Row(call[q])] /\ live'[Row(call[q])] = live[Row(call[q])]
      BY <1>10 DEF CommitInvite
    <3> QED
      BY <2>3, <3>1, <3>2, <3>3, <3>4 DEF UpdateOK, Row
  <2> QED
    BY <2>2, <2>3 DEF UpdatesOK, UpdateOK
<1>11. ASSUME NEW r \in Requests, Rollback(r)
      PROVE  UpdatesOK'
  <2>0. TypeOK /\ CallsOK /\ UpdatesOK /\ pc[r] # "idle" /\ Finish(r)
    BY <1>11 DEF Rollback
  <2>1. Finished(r)
    BY <2>0, FinishFacts
  <2>2. UpdateOK(r)'
    BY <2>0, <2>1 DEF Finished, UpdateOK, TypeOK
  <2>3. ASSUME NEW q \in Requests \ {r}, pc'[q] \in {"member", "granted"},
               call'[q].op = "update"
        PROVE  UpdateOK(q)'
    <3>1. pc'[q] = pc[q] /\ call'[q] = call[q] /\ room'[q] = room[q]
      BY <2>0, <2>1 DEF Finished, TypeOK, CallsOK
    <3>2. /\ Row(call[q]) \in Shops \X Users /\ call[q].shop \in open
          /\ memberLock[Row(call[q])] = q /\ UpdateOK(q)
      BY <2>0, <2>3, <3>1, CallFacts DEF UpdatesOK, UpdateOK
    <3>3. memberLock'[Row(call[q])] = q
      BY <2>1, <3>2 DEF Finished
    <3>4. role'[Row(call[q])] = role[Row(call[q])] /\ live'[Row(call[q])] = live[Row(call[q])]
      BY <1>11 DEF Rollback
    <3> QED
      BY <2>3, <3>1, <3>2, <3>3, <3>4 DEF UpdateOK, Row
  <2> QED
    BY <2>2, <2>3 DEF UpdatesOK, UpdateOK
<1>12. ASSUME NEW i \in Invitations, Accept(i)
      PROVE  UpdatesOK'
  <2>0. TypeOK /\ CallsOK /\ UpdatesOK
    OBVIOUS
  <2>1. ASSUME NEW q \in Requests, pc[q] \in {"member", "granted"}, call[q].op = "update"
        PROVE  UpdateOK(q)'
    <3>1. Row(call[q]) \in Shops \X Users /\ role[Row(call[q])] \in Granted /\ UpdateOK(q)
      BY <2>0, <2>1, CallFacts DEF UpdatesOK, UpdateOK
    <3>2. role'[Row(call[q])] = role[Row(call[q])] /\ live'[Row(call[q])] = live[Row(call[q])]
      BY <1>12, <2>0, <3>1 DEF Accept, TypeOK, Granted
    <3> QED
      BY <1>12, <2>1, <3>1, <3>2 DEF Accept, UpdateOK, Row
  <2> QED
    BY <1>12, <2>1 DEF Accept, UpdatesOK, UpdateOK
<1>13. ASSUME NEW i \in Invitations, Withdraw(i)
      PROVE  UpdatesOK'
  BY <1>13 DEF Withdraw, UpdatesOK, UpdateOK, Row
<1>14. ASSUME NEW u \in Users, FoundOrganization(u)
      PROVE  UpdatesOK'
  BY <1>14 DEF FoundOrganization, UpdatesOK, UpdateOK, Row
<1>15. ASSUME ChangePlan
      PROVE  UpdatesOK'
  BY <1>15 DEF ChangePlan, UpdatesOK, UpdateOK, Row
<1>16. ASSUME ClaimTransfer
      PROVE  UpdatesOK'
  BY <1>16 DEF ClaimTransfer, WorkerAt, UpdatesOK, UpdateOK, Row
<1>17. ASSUME CancelRenewal
      PROVE  UpdatesOK'
  BY <1>17 DEF CancelRenewal, WorkerAt, UpdatesOK, UpdateOK, Row
<1>18. ASSUME CheckTransfer
      PROVE  UpdatesOK'
  BY <1>18 DEF CheckTransfer, WorkerAt, UpdatesOK, UpdateOK, Row
<1>19. ASSUME LockRows
      PROVE  UpdatesOK'
  BY <1>19 DEF LockRows, WorkerAt, UpdatesOK, UpdateOK, Row
<1>20. ASSUME HandOver
      PROVE  UpdatesOK'
  <2>0. TypeOK /\ CallsOK /\ UpdatesOK /\ HandoverOK
    OBVIOUS
  <2>1. ASSUME NEW q \in Requests, pc[q] \in {"member", "granted"}, call[q].op = "update"
        PROVE  FALSE
    <3>1. /\ call[q].shop \in open /\ call[q].user \in Users
          /\ memberLock[Row(call[q])] = q
      BY <2>0, <2>1, CallFacts DEF UpdatesOK, UpdateOK
    <3>2. memberLock[Row(call[q])] = None
      BY <1>20, <2>0, <3>1 DEF HandOver, HandoverOK, Row
    <3> QED
      BY <3>1, <3>2
  <2> QED
    BY <1>20, <2>1 DEF HandOver, WorkerAt, UpdatesOK, UpdateOK
<1>21. ASSUME WorkerFails
      PROVE  UpdatesOK'
  BY <1>21 DEF WorkerFails, WorkerAt, UpdatesOK, UpdateOK, Row
<1>22. ASSUME WorkerDies
      PROVE  UpdatesOK'
  BY <1>22 DEF WorkerDies, WorkerAt, UpdatesOK, UpdateOK, Row
<1>23. ASSUME BackoffElapses
      PROVE  UpdatesOK'
  BY <1>23 DEF BackoffElapses, UpdatesOK, UpdateOK, Row
<1>24. ASSUME UNCHANGED vars
      PROVE  UpdatesOK'
  BY <1>24 DEF vars, UpdatesOK, UpdateOK, Row
<1> QED
  BY <1>1, <1>2, <1>3, <1>4, <1>5, <1>6, <1>7, <1>8, <1>9, <1>10, <1>11, <1>12, <1>13, <1>14,
      <1>15, <1>16, <1>17, <1>18, <1>19, <1>20, <1>21, <1>22, <1>23, <1>24 DEF Next, Progress,
      WorkerProgress

\* Invitations are to shops that are there.
LEMMA InvitedStep == IInv /\ [Next]_vars => InvitedOK'
<1> SUFFICES ASSUME IInv, [Next]_vars PROVE InvitedOK'
  OBVIOUS
<1> USE DEF IInv, orgVars, memberVars, planVars, transferVars, workerVars, requestVars,
    lockVars, boundVars
<1>1. ASSUME NEW r \in Requests, BeginAny(r)
      PROVE  InvitedOK'
  <2>0. TypeOK /\ InvitedOK
    OBVIOUS
  <2> PICK c : Asking(c) /\ Begun(r, c)
    BY <1>1, <2>0, BeginFacts
  <2> QED
    BY <2>0 DEF Begun, InvitedOK
<1>2. ASSUME NEW r \in Requests, GrantShop(r)
      PROVE  InvitedOK'
  BY <1>2 DEF GrantShop, Proceed, InvitedOK, TypeOK
<1>3. ASSUME NEW r \in Requests, GrantSeat(r)
      PROVE  InvitedOK'
  BY <1>3 DEF GrantSeat, Proceed, InvitedOK, TypeOK
<1>4. ASSUME NEW r \in Requests, LockMember(r)
      PROVE  InvitedOK'
  BY <1>4 DEF LockMember, Proceed, InvitedOK, TypeOK
<1>5. ASSUME NEW r \in Requests, LockOrganization(r)
      PROVE  InvitedOK'
  BY <1>5 DEF LockOrganization, Proceed, InvitedOK, TypeOK
<1>6. ASSUME NEW r \in Requests, LockTarget(r)
      PROVE  InvitedOK'
  BY <1>6 DEF LockTarget, Proceed, InvitedOK, TypeOK
<1>7. ASSUME NEW r \in Requests, CommitUpdate(r)
      PROVE  InvitedOK'
  BY <1>7 DEF CommitUpdate, Finish, InvitedOK, TypeOK
<1>8. ASSUME NEW r \in Requests, CommitTransfer(r)
      PROVE  InvitedOK'
  BY <1>8 DEF CommitTransfer, Finish, InvitedOK, TypeOK
<1>9. ASSUME NEW r \in Requests, NEW s \in Shops, CommitAddShop(r, s)
      PROVE  InvitedOK'
  BY <1>9 DEF CommitAddShop, Finish, InvitedOK, TypeOK
<1>10. ASSUME NEW r \in Requests, NEW i \in Invitations, CommitInvite(r, i)
      PROVE  InvitedOK'
  <2>0. TypeOK /\ InvitedOK
    OBVIOUS
  <2>1. CallsOK /\ pc[r] # "idle"
    BY <1>10 DEF CommitInvite
  <2>2. call[r].shop \in open
    BY <2>0, <2>1, CallFacts
  <2> QED
    BY <1>10, <2>0, <2>2 DEF CommitInvite, InvitedOK, TypeOK
<1>11. ASSUME NEW r \in Requests, Rollback(r)
      PROVE  InvitedOK'
  BY <1>11 DEF Rollback, Finish, InvitedOK, TypeOK
<1>12. ASSUME NEW i \in Invitations, Accept(i)
      PROVE  InvitedOK'
  BY <1>12 DEF Accept, InvitedOK, TypeOK
<1>13. ASSUME NEW i \in Invitations, Withdraw(i)
      PROVE  InvitedOK'
  BY <1>13 DEF Withdraw, InvitedOK, TypeOK
<1>14. ASSUME NEW u \in Users, FoundOrganization(u)
      PROVE  InvitedOK'
  BY <1>14 DEF FoundOrganization, InvitedOK, TypeOK
<1>15. ASSUME ChangePlan
      PROVE  InvitedOK'
  BY <1>15 DEF ChangePlan, InvitedOK, TypeOK
<1>16. ASSUME ClaimTransfer
      PROVE  InvitedOK'
  BY <1>16 DEF ClaimTransfer, WorkerAt, InvitedOK, TypeOK
<1>17. ASSUME CancelRenewal
      PROVE  InvitedOK'
  BY <1>17 DEF CancelRenewal, WorkerAt, InvitedOK, TypeOK
<1>18. ASSUME CheckTransfer
      PROVE  InvitedOK'
  BY <1>18 DEF CheckTransfer, WorkerAt, InvitedOK, TypeOK
<1>19. ASSUME LockRows
      PROVE  InvitedOK'
  BY <1>19 DEF LockRows, WorkerAt, InvitedOK, TypeOK
<1>20. ASSUME HandOver
      PROVE  InvitedOK'
  BY <1>20 DEF HandOver, WorkerAt, InvitedOK, TypeOK
<1>21. ASSUME WorkerFails
      PROVE  InvitedOK'
  BY <1>21 DEF WorkerFails, WorkerAt, InvitedOK, TypeOK
<1>22. ASSUME WorkerDies
      PROVE  InvitedOK'
  BY <1>22 DEF WorkerDies, WorkerAt, InvitedOK, TypeOK
<1>23. ASSUME BackoffElapses
      PROVE  InvitedOK'
  BY <1>23 DEF BackoffElapses, InvitedOK, TypeOK
<1>24. ASSUME UNCHANGED vars
      PROVE  InvitedOK'
  BY <1>24 DEF vars, InvitedOK
<1> QED
  BY <1>1, <1>2, <1>3, <1>4, <1>5, <1>6, <1>7, <1>8, <1>9, <1>10, <1>11, <1>12, <1>13, <1>14,
      <1>15, <1>16, <1>17, <1>18, <1>19, <1>20, <1>21, <1>22, <1>23, <1>24 DEF Next, Progress,
      WorkerProgress

\* The steps that change roles, memberships, shops or owners.
LEMMA Moves ==
  ASSUME [Next]_vars
  PROVE  \/ UNCHANGED <<orgVars, memberVars>>
         \/ \E r \in Requests : CommitUpdate(r) \/ \E s \in Shops : CommitAddShop(r, s)
         \/ \E i \in Invitations : Accept(i)
         \/ \E u \in Users : FoundOrganization(u)
         \/ HandOver
<1>1. ASSUME UNCHANGED vars PROVE UNCHANGED <<orgVars, memberVars>>
  BY <1>1 DEF vars
<1>2. ASSUME NEW r \in Requests, BeginAny(r) PROVE UNCHANGED <<orgVars, memberVars>>
  <2>1. ASSUME NEW c, NEW allowed, Begin(r, c, allowed) PROVE UNCHANGED <<orgVars, memberVars>>
    BY <2>1 DEF Begin
  <2> QED
    BY <1>2, <2>1 DEF BeginAny, BeginAddShop, BeginTransfer, BeginInvite, BeginUpdate
<1>3. ASSUME NEW r \in Requests,
             \/ GrantShop(r) \/ GrantSeat(r) \/ LockMember(r) \/ LockOrganization(r)
             \/ LockTarget(r)
      PROVE  UNCHANGED <<orgVars, memberVars>>
  <2>1. ASSUME NEW step, Proceed(r, step) PROVE UNCHANGED <<orgVars, memberVars>>
    BY <2>1 DEF Proceed
  <2> QED
    BY <1>3, <2>1 DEF GrantShop, GrantSeat, LockMember, LockOrganization, LockTarget
<1>4. ASSUME NEW r \in Requests,
             CommitTransfer(r) \/ Rollback(r) \/ \E i \in Invitations : CommitInvite(r, i)
      PROVE  UNCHANGED <<orgVars, memberVars>>
  BY <1>4 DEF CommitTransfer, Rollback, CommitInvite
<1>5. ASSUME NEW i \in Invitations, Withdraw(i) PROVE UNCHANGED <<orgVars, memberVars>>
  BY <1>5 DEF Withdraw
<1>6. ASSUME ChangePlan \/ ClaimTransfer \/ CancelRenewal \/ CheckTransfer \/ LockRows
             \/ WorkerFails \/ WorkerDies \/ BackoffElapses
      PROVE  UNCHANGED <<orgVars, memberVars>>
  BY <1>6
  DEF ChangePlan, ClaimTransfer, CancelRenewal, CheckTransfer, LockRows, WorkerFails,
      WorkerDies, BackoffElapses
<1> QED
  BY <1>1, <1>2, <1>3, <1>4, <1>5, <1>6 DEF Next, Progress, WorkerProgress

\* Everybody's membership but w stays as it is.
OnlyRow(w) ==
  /\ w \in Shops \X Users
  /\ \A m \in Shops \X Users : m # w => role'[m] = role[m] /\ live'[m] = live[m]

\* An update writes its own row, that of somebody with an ordinary role.
LEMMA UpdateRow ==
  ASSUME IInv, NEW r \in Requests, CommitUpdate(r)
  PROVE  /\ OnlyRow(Row(call[r]))
         /\ role[Row(call[r])] \in Granted /\ role'[Row(call[r])] \in Granted
         /\ live'[Row(call[r])] => live[Row(call[r])] \/ (orgLock = r /\ room[r] > 0)
         /\ UNCHANGED orgVars
<1> USE DEF IInv
<1>1. /\ pc[r] = "granted" /\ call[r].op = "update" /\ UpdateOK(r)
      /\ TypeOK /\ CallsOK /\ Row(call[r]) \in Shops \X Users
      /\ call[r].grant \in Granted \cup {"none"} /\ call[r].active \in {"same", "on", "off"}
  BY CallFacts DEF CommitUpdate, UpdatesOK
<1>2. /\ \A m \in Shops \X Users : m # Row(call[r]) => role'[m] = role[m] /\ live'[m] = live[m]
      /\ role'[Row(call[r])] = IF call[r].grant = "none" THEN role[Row(call[r])]
                               ELSE call[r].grant
      /\ live'[Row(call[r])] = IF call[r].active = "same" THEN live[Row(call[r])]
                               ELSE call[r].active = "on"
  BY <1>1 DEF CommitUpdate, Row, TypeOK
<1>3. role[Row(call[r])] \in Granted /\ role'[Row(call[r])] \in Granted
  BY <1>1, <1>2 DEF UpdateOK
<1>4. live'[Row(call[r])] => live[Row(call[r])] \/ room[r] > 0
  BY <1>1, <1>2 DEF UpdateOK
<1>5. room[r] > 0 => orgLock = r
  BY <1>1 DEF OrgLockOK, Seated
<1> QED
  BY <1>1, <1>2, <1>3, <1>4, <1>5 DEF CommitUpdate, OnlyRow

\* A new shop has one row, of who asked for it: the owner, or it is late.
NewRow(r, s) == <<s, call[r].actor>>

LEMMA ShopRow ==
  ASSUME IInv, NEW r \in Requests, NEW s \in Shops, CommitAddShop(r, s)
  PROVE  /\ OnlyRow(NewRow(r, s)) /\ call[r].actor \in Users
         /\ s \notin open /\ open' = open \cup {s}
         /\ role'[NewRow(r, s)] = "OWNER" /\ live'[NewRow(r, s)]
         /\ \/ call[r].actor = owner /\ live[<<call[r].shop, call[r].actor>>] /\ late' = late
            \/ late' = late \cup {s}
         /\ call[r].shop \in open
         /\ orgLock = r /\ pc[r] = "granted" /\ call[r].op = "add_shop"
         /\ UNCHANGED <<owner, elsewhere>>
<1> USE DEF IInv
<1>1. /\ pc[r] = "granted" /\ call[r].op = "add_shop" /\ call[r].owner = call[r].actor
      /\ call[r].actor \in Users /\ call[r].shop \in open
  BY CallFacts DEF CommitAddShop
<1>2. orgLock = r
  BY <1>1 DEF OrgLockOK, Seated
<1>3. /\ OnlyRow(NewRow(r, s))
      /\ role'[NewRow(r, s)] = "OWNER" /\ live'[NewRow(r, s)]
  BY <1>1 DEF CommitAddShop, OnlyRow, NewRow, TypeOK
<1> QED
  BY <1>1, <1>2, <1>3 DEF CommitAddShop

\* An invitation adds a row where there was none.
Place(i) == <<invitation[i].shop, invitation[i].user>>

LEMMA JoinRow ==
  ASSUME IInv, NEW i \in Invitations, Accept(i)
  PROVE  /\ Place(i) \in Shops \X Users
         /\ \/ UNCHANGED memberVars
            \/ /\ OnlyRow(Place(i)) /\ wpc # "locked"
               /\ role[Place(i)] = "none" /\ role'[Place(i)] \in Granted /\ live'[Place(i)]
         /\ UNCHANGED <<orgVars, wpc>>
<1> USE DEF IInv, TypeOK
<1>1. invitation[i] \in [shop : Shops, user : Users, role : Granted]
  BY DEF Accept
<1> QED
  BY <1>1 DEF Accept, OnlyRow, Place, memberVars, workerVars

\* A handover makes one user the owner of every shop and another one an administrator.
LEMMA HandRows ==
  ASSUME IInv, HandOver
  PROVE  /\ HandingOver /\ wpc = "locked"
         /\ to \in Users /\ from # to /\ owner = from /\ owner' = to
         /\ UNCHANGED <<open, late, elsewhere>>
         /\ \A s \in open : role'[<<s, to>>] = "OWNER"
         /\ \A s \in open : role[<<s, from>>] = "OWNER" => role'[<<s, from>>] = "ADMIN"
         /\ \A m \in Shops \X Users :
              /\ m[1] \notin open \/ m[2] \notin {from, to}
                   => role'[m] = role[m] /\ live'[m] = live[m]
              /\ m[1] \in open /\ m[2] = from /\ role[m] # "OWNER" => role'[m] = role[m]
              /\ m[2] # to \/ m[1] = loaded => live'[m] = live[m]
              /\ live[m] => live'[m]
<1> USE DEF IInv
<1>1. /\ HandingOver /\ wpc = "locked" /\ from \in Users /\ to \in Users /\ from # to
      /\ owner = from /\ owner' = to /\ UNCHANGED <<open, late, elsewhere>>
  BY DEF HandOver, HandoverOK, HasOrg, HandingOver, TransferOK, InProgress
<1>2. \A m \in Shops \X Users :
        /\ m[1] \notin open => role'[m] = role[m]
        /\ m[1] \in open /\ m[2] = to => role'[m] = "OWNER"
        /\ m[1] \in open /\ m[2] = from /\ role[m] = "OWNER" => role'[m] = "ADMIN"
        /\ m[1] \in open /\ m[2] = from /\ role[m] # "OWNER" => role'[m] = role[m]
        /\ m[1] \in open /\ m[2] # to /\ m[2] # from => role'[m] = role[m]
  BY <1>1 DEF HandOver
<1>3. live' = [m \in Shops \X Users |->
                 live[m] \/ (m[1] \in open \ {loaded} /\ m[2] = to)]
  BY DEF HandOver
<1>4. \A m \in Shops \X Users :
        /\ m[1] \notin open \/ m[2] # to \/ m[1] = loaded => live'[m] = live[m]
        /\ live[m] => live'[m]
  BY <1>3 DEF TypeOK
<1>5. \A s \in open, u \in Users : <<s, u>> \in Shops \X Users
  BY DEF TypeOK
<1> QED
  BY <1>1, <1>2, <1>4, <1>5

\* Who is active has a role, and only in a shop that is there.
LEMMA RolesStep == IInv /\ [Next]_vars => RolesOK'
<1> SUFFICES ASSUME IInv, [Next]_vars PROVE RolesOK'
  OBVIOUS
<1> USE ConstantsAssumption DEF RolesOK
<1>i. TypeOK /\ RolesOK /\ InvitedOK
  BY DEF IInv
<1>1. CASE UNCHANGED <<orgVars, memberVars>>
  BY <1>i, <1>1 DEF orgVars, memberVars
<1>2. ASSUME NEW r \in Requests, CommitUpdate(r)
      PROVE  RolesOK'
  BY <1>i, <1>2, UpdateRow DEF OnlyRow, orgVars, Granted
<1>3. ASSUME NEW r \in Requests, NEW s \in Shops, CommitAddShop(r, s)
      PROVE  RolesOK'
  <2>s. /\ OnlyRow(NewRow(r, s)) /\ call[r].actor \in Users
        /\ s \notin open /\ open' = open \cup {s} /\ owner' = owner /\ elsewhere' = elsewhere
        /\ role'[NewRow(r, s)] = "OWNER" /\ live'[NewRow(r, s)]
        /\ (call[r].actor = owner /\ late' = late) \/ late' = late \cup {s}
    BY <1>3, ShopRow
  <2>r. \A m \in Shops \X Users :
          m # <<s, call[r].actor>> => role'[m] = role[m] /\ live'[m] = live[m]
    BY <2>s DEF OnlyRow, NewRow
  <2>1. Home \in open' \ late'
    BY <1>i, <2>s DEF RolesOK
  <2>2. \A m \in Shops \X Users :
          /\ live'[m] => role'[m] # "none"
          /\ m[1] \notin open' => role'[m] = "none"
    BY <1>i, <2>s, <2>r DEF NewRow
  <2> QED
    BY <1>i, <2>1, <2>2
<1>4. ASSUME NEW i \in Invitations, Accept(i)
      PROVE  RolesOK'
  <2>1. CASE UNCHANGED memberVars
    BY <1>i, <1>4, <2>1, JoinRow DEF orgVars, memberVars
  <2>2. CASE OnlyRow(Place(i)) /\ role'[Place(i)] \in Granted /\ live'[Place(i)]
    <3>1. invitation[i].shop \in open
      BY <1>i, <1>4 DEF InvitedOK, Accept
    <3> QED
      BY <1>i, <1>4, <2>2, <3>1, JoinRow DEF OnlyRow, Place, orgVars, Granted
  <2> QED
    BY <1>i, <1>4, <2>1, <2>2, JoinRow
<1>5. ASSUME NEW u \in Users, FoundOrganization(u)
      PROVE  RolesOK'
  BY <1>i, <1>5 DEF FoundOrganization, memberVars
<1>6. CASE HandOver
  <2>1. \A m \in Shops \X Users : m[1] \in Shops /\ m[2] \in Users /\ m = <<m[1], m[2]>>
    OBVIOUS
  <2>2. \A m \in Shops \X Users : live'[m] => role'[m] # "none"
    BY <1>i, <1>6, <2>1, HandRows
  <2>3. \A m \in Shops \X Users : m[1] \notin open' => role'[m] = "none"
    BY <1>i, <1>6, <2>1, HandRows
  <2> QED
    BY <1>i, <1>6, <2>2, <2>3, HandRows
<1> QED
  BY <1>1, <1>2, <1>3, <1>4, <1>5, <1>6, Moves

\* Through every handover and every request that overlaps with it, the owner is the
\* only OWNER of each shop that was not added late.
LEMMA OwnerStep == IInv /\ [Next]_vars => OwnerRunsEveryShop'
<1> SUFFICES ASSUME IInv, [Next]_vars PROVE OwnerRunsEveryShop'
  OBVIOUS
<1> USE DEF OwnerRunsEveryShop
<1>i. TypeOK /\ RolesOK /\ OwnerRunsEveryShop
  BY DEF IInv
<1>0. open \subseteq Shops /\ owner \in Users
  BY <1>i DEF TypeOK
<1>1. CASE UNCHANGED <<orgVars, memberVars>>
  BY <1>i, <1>1 DEF orgVars, memberVars
<1>2. ASSUME NEW r \in Requests, CommitUpdate(r)
      PROVE  OwnerRunsEveryShop'
  <2>1. /\ OnlyRow(Row(call[r])) /\ UNCHANGED orgVars
        /\ role[Row(call[r])] # "OWNER" /\ role'[Row(call[r])] # "OWNER"
    BY <1>i, <1>2, UpdateRow DEF Granted
  <2>2. \A s \in open, u \in Users :
          role'[<<s, u>>] = "OWNER" <=> role[<<s, u>>] = "OWNER"
    BY <1>0, <2>1 DEF OnlyRow
  <2> QED
    BY <1>i, <2>1, <2>2 DEF orgVars
<1>3. ASSUME NEW r \in Requests, NEW s \in Shops, CommitAddShop(r, s)
      PROVE  OwnerRunsEveryShop'
  <2>s. /\ OnlyRow(NewRow(r, s)) /\ call[r].actor \in Users
        /\ s \notin open /\ open' = open \cup {s} /\ owner' = owner /\ elsewhere' = elsewhere
        /\ role'[NewRow(r, s)] = "OWNER" /\ live'[NewRow(r, s)]
        /\ (call[r].actor = owner /\ late' = late) \/ late' = late \cup {s}
    BY <1>3, ShopRow
  <2>r. \A m \in Shops \X Users :
          m # <<s, call[r].actor>> => role'[m] = role[m] /\ live'[m] = live[m]
    BY <2>s DEF OnlyRow, NewRow
  <2>1. ASSUME NEW t \in open' \ late', NEW u \in Users
        PROVE  role'[<<t, u>>] = "OWNER" <=> u = owner'
    <3>1. CASE t = s
      <4>1. call[r].actor = owner
        BY <2>s, <2>1, <3>1
      <4>2. role[<<s, u>>] = "none"
        <5>1. <<s, u>> \in Shops \X Users /\ <<s, u>>[1] = s
          OBVIOUS
        <5> QED
          BY <1>i, <2>s, <5>1 DEF RolesOK
      <4> QED
        <5>1. CASE u = call[r].actor
          BY <2>s, <3>1, <4>1, <5>1 DEF NewRow
        <5>2. CASE u # call[r].actor
          BY <2>s, <2>r, <3>1, <4>1, <4>2, <5>2
        <5> QED
          BY <5>1, <5>2
    <3>2. CASE t # s
      <4>1. t \in open \ late
        BY <2>s, <2>1, <3>2
      <4> QED
        <5>1. <<t, u>> \in Shops \X Users /\ <<t, u>> # <<s, call[r].actor>>
          BY <1>0, <3>2, <4>1
        <5> QED
          BY <1>i, <2>s, <2>r, <4>1, <5>1
    <3> QED
      BY <1>i, <3>1, <3>2
  <2> QED
    BY <1>i, <2>1
<1>4. ASSUME NEW i \in Invitations, Accept(i)
      PROVE  OwnerRunsEveryShop'
  <2>1. CASE UNCHANGED memberVars
    BY <1>i, <1>4, <2>1, JoinRow DEF orgVars, memberVars
  <2>2. CASE OnlyRow(Place(i)) /\ role[Place(i)] = "none" /\ role'[Place(i)] \in Granted
    <3>1. UNCHANGED <<owner, open, late>>
      BY <1>4, JoinRow DEF orgVars
    <3>2. ASSUME NEW t \in open \ late, NEW u \in Users
          PROVE  role'[<<t, u>>] = "OWNER" <=> role[<<t, u>>] = "OWNER"
      <4>1. <<t, u>> \in Shops \X Users
        BY <1>0
      <4> QED
        BY <2>2, <4>1 DEF OnlyRow, Granted
    <3> QED
      BY <1>i, <3>1, <3>2
  <2> QED
    BY <1>i, <1>4, <2>1, <2>2, JoinRow
<1>5. ASSUME NEW u \in Users, FoundOrganization(u)
      PROVE  OwnerRunsEveryShop'
  BY <1>i, <1>5 DEF FoundOrganization, memberVars
<1>6. CASE HandOver
  <2>1. ASSUME NEW t \in open \ late, NEW u \in Users
        PROVE  role'[<<t, u>>] = "OWNER" <=> u = owner'
    <3>1. <<t, u>> \in Shops \X Users
      BY <1>i, <1>0
    <3>2. role[<<t, u>>] = "OWNER" <=> u = from
      BY <1>i, <1>6, HandRows
    <3>3. u \notin {from, to} => role'[<<t, u>>] = role[<<t, u>>]
      BY <1>i, <1>6, <3>1, HandRows
    <3>4. u = from => role'[<<t, u>>] = "ADMIN"
      BY <1>i, <1>6, <3>2, HandRows
    <3>5. u = to => role'[<<t, u>>] = "OWNER"
      BY <1>i, <1>6, HandRows
    <3> QED
      BY <1>i, <1>6, <3>2, <3>3, <3>4, <3>5, HandRows
  <2> QED
    BY <1>i, <1>6, <2>1, HandRows
<1> QED
  BY <1>1, <1>2, <1>3, <1>4, <1>5, <1>6, Moves

\* An owner who founded another organization cannot be let in again.
LEMMA ElsewhereStep == IInv /\ [Next]_vars => ElsewhereOK'
<1> SUFFICES ASSUME IInv, [Next]_vars, (owner \in elsewhere)'
             PROVE  \E s \in open' : role'[<<s, owner'>>] = "OWNER" /\ ~live'[<<s, owner'>>]
  BY DEF ElsewhereOK
<1>i. TypeOK /\ RolesOK /\ OwnerRunsEveryShop /\ ElsewhereOK
  BY DEF IInv
<1>0. open \subseteq Shops /\ owner \in Users
  BY <1>i DEF TypeOK
<1>a. ASSUME owner \in elsewhere
      PROVE  \E s \in open : role[<<s, owner>>] = "OWNER" /\ ~live[<<s, owner>>]
  BY <1>i, <1>a DEF ElsewhereOK
<1>1. CASE UNCHANGED <<orgVars, memberVars>>
  BY <1>i, <1>1, <1>a DEF orgVars, memberVars
<1>2. ASSUME NEW r \in Requests, CommitUpdate(r)
      PROVE  \E s \in open' : role'[<<s, owner'>>] = "OWNER" /\ ~live'[<<s, owner'>>]
  <2>1. owner \in elsewhere /\ UNCHANGED <<owner, elsewhere>>
    BY <1>2, UpdateRow DEF orgVars
  <2>2. PICK t \in open : role[<<t, owner>>] = "OWNER" /\ ~live[<<t, owner>>]
    BY <1>a, <2>1
  <2>3. <<t, owner>> \in Shops \X Users
    BY <1>0
  <2>4. role'[<<t, owner>>] = role[<<t, owner>>] /\ live'[<<t, owner>>] = live[<<t, owner>>]
    BY <1>2, <2>2, <2>3, UpdateRow DEF OnlyRow, Granted
  <2> QED
    BY <1>2, <2>1, <2>2, <2>4, UpdateRow DEF orgVars
<1>3. ASSUME NEW r \in Requests, NEW s \in Shops, CommitAddShop(r, s)
      PROVE  \E t \in open' : role'[<<t, owner'>>] = "OWNER" /\ ~live'[<<t, owner'>>]
  <2>s. /\ OnlyRow(NewRow(r, s)) /\ call[r].actor \in Users
        /\ s \notin open /\ open' = open \cup {s} /\ owner' = owner /\ elsewhere' = elsewhere
        /\ role'[NewRow(r, s)] = "OWNER" /\ live'[NewRow(r, s)]
        /\ (call[r].actor = owner /\ late' = late) \/ late' = late \cup {s}
    BY <1>3, ShopRow
  <2>r. \A m \in Shops \X Users :
          m # <<s, call[r].actor>> => role'[m] = role[m] /\ live'[m] = live[m]
    BY <2>s DEF OnlyRow, NewRow
  <2>1. owner \in elsewhere /\ UNCHANGED <<owner, elsewhere>>
    BY <2>s
  <2>2. PICK t \in open : role[<<t, owner>>] = "OWNER" /\ ~live[<<t, owner>>]
    BY <1>a, <2>1
  <2>3. <<t, owner>> \in Shops \X Users
    BY <1>0
  <2>4. role'[<<t, owner>>] = role[<<t, owner>>] /\ live'[<<t, owner>>] = live[<<t, owner>>]
    BY <2>s, <2>r, <2>3
  <2> QED
    BY <2>s, <2>1, <2>2, <2>4
<1>4. ASSUME NEW i \in Invitations, Accept(i)
      PROVE  \E s \in open' : role'[<<s, owner'>>] = "OWNER" /\ ~live'[<<s, owner'>>]
  <2>1. owner \in elsewhere /\ UNCHANGED <<owner, elsewhere>>
    BY <1>4, JoinRow DEF orgVars
  <2>2. PICK t \in open : role[<<t, owner>>] = "OWNER" /\ ~live[<<t, owner>>]
    BY <1>a, <2>1
  <2>3. <<t, owner>> \in Shops \X Users
    BY <1>0
  <2>4. role'[<<t, owner>>] = role[<<t, owner>>] /\ live'[<<t, owner>>] = live[<<t, owner>>]
    BY <1>4, <2>2, <2>3, JoinRow DEF OnlyRow, memberVars
  <2> QED
    BY <1>4, <2>1, <2>2, <2>4, JoinRow DEF orgVars
<1>5. ASSUME NEW u \in Users, FoundOrganization(u)
      PROVE  \E s \in open' : role'[<<s, owner'>>] = "OWNER" /\ ~live'[<<s, owner'>>]
  <2>1. /\ elsewhere' = elsewhere \cup {u} /\ u \notin Members
        /\ UNCHANGED <<owner, open, role, live>>
    BY <1>i, <1>5 DEF FoundOrganization, memberVars
  <2>2. CASE owner \in elsewhere
    BY <1>i, <1>a, <2>1, <2>2
  <2>3. CASE owner = u
    <3>1. Home \in open \ late
      BY <1>i DEF RolesOK
    <3>2. role[<<Home, owner>>] = "OWNER"
      BY <1>i, <1>0, <3>1 DEF OwnerRunsEveryShop
    <3>3. ~live[<<Home, owner>>]
      BY <1>i, <2>1, <2>3, <3>1 DEF Members
    <3> QED
      BY <1>i, <2>1, <3>1, <3>2, <3>3
  <2> QED
    BY <1>i, <2>1, <2>2, <2>3
<1>6. CASE HandOver
  <2>1. to \in elsewhere /\ loaded \in open /\ to \in Users
    BY <1>i, <1>6, HandRows DEF HandingOver
  <2>2. ~live[<<loaded, to>>]
    BY <1>i, <1>6, <2>1, HandRows DEF HandingOver
  <2>3. <<loaded, to>> \in Shops \X Users
    BY <1>i, <1>0, <2>1
  <2>4. ~live'[<<loaded, to>>] /\ role'[<<loaded, to>>] = "OWNER"
    BY <1>i, <1>6, <2>1, <2>2, <2>3, HandRows
  <2> QED
    BY <1>i, <1>6, <2>1, <2>4, HandRows
<1> QED
  BY <1>1, <1>2, <1>3, <1>4, <1>5, <1>6, Moves

\* One transfer at a time, and the worker's own is in progress.
LEMMA TransferStep == IInv /\ [Next]_vars => TransferOK'
<1> SUFFICES ASSUME IInv, [Next]_vars PROVE TransferOK'
  OBVIOUS
<1> USE ConstantsAssumption DEF IInv, orgVars, memberVars, planVars, transferVars, workerVars,
    requestVars, lockVars, boundVars
<1>1. ASSUME NEW r \in Requests, BeginAny(r)
      PROVE  TransferOK'
  <2>0. TypeOK /\ CallsOK /\ TransferOK
    OBVIOUS
  <2> PICK c : Asking(c) /\ Begun(r, c)
    BY <1>1, <2>0, BeginFacts
  <2> QED
    BY <2>0 DEF Begun, TransferOK, TypeOK, CallsOK
<1>2. ASSUME NEW r \in Requests, GrantShop(r)
      PROVE  TransferOK'
  <2>1. TypeOK /\ CallsOK /\ TransferOK /\ CallOK(r)
    BY DEF CallsOK
  <2> QED
    BY <1>2, <2>1 DEF GrantShop, Proceed, TransferOK, TypeOK, CallOK, MayBeTarget, InProgress
<1>3. ASSUME NEW r \in Requests, GrantSeat(r)
      PROVE  TransferOK'
  <2>1. TypeOK /\ CallsOK /\ TransferOK /\ CallOK(r)
    BY DEF CallsOK
  <2> QED
    BY <1>3, <2>1 DEF GrantSeat, Proceed, TransferOK, TypeOK, CallOK
<1>4. ASSUME NEW r \in Requests, LockMember(r)
      PROVE  TransferOK'
  <2>1. TypeOK /\ CallsOK /\ TransferOK /\ CallOK(r)
    BY DEF CallsOK
  <2> QED
    BY <1>4, <2>1 DEF LockMember, Proceed, TransferOK, TypeOK, CallOK, MayBeTarget, InProgress
<1>5. ASSUME NEW r \in Requests, LockOrganization(r)
      PROVE  TransferOK'
  <2>1. TypeOK /\ CallsOK /\ TransferOK /\ CallOK(r)
    BY DEF CallsOK
  <2> QED
    BY <1>5, <2>1 DEF LockOrganization, Proceed, TransferOK, TypeOK, CallOK, MayBeTarget, InProgress
<1>6. ASSUME NEW r \in Requests, LockTarget(r)
      PROVE  TransferOK'
  <2>1. TypeOK /\ CallsOK /\ TransferOK /\ CallOK(r)
    BY DEF CallsOK
  <2> QED
    BY <1>6, <2>1 DEF LockTarget, Proceed, TransferOK, TypeOK, CallOK, MayBeTarget, InProgress
<1>7. ASSUME NEW r \in Requests, CommitUpdate(r)
      PROVE  TransferOK'
  <2>1. TypeOK /\ CallsOK /\ Finish(r)
    BY <1>7 DEF CommitUpdate
  <2>2. Finished(r)
    BY <2>1, FinishFacts
  <2> QED
    BY <1>7, <2>1, <2>2 DEF CommitUpdate, Finished, TransferOK, TypeOK, CallsOK
<1>8. ASSUME NEW r \in Requests, CommitTransfer(r)
      PROVE  TransferOK'
  <2>1. /\ TypeOK /\ CallsOK /\ TransferOK /\ OrgLockOK /\ Finish(r) /\ pc[r] = "granted"
        /\ call[r].op = "transfer"
    BY <1>8 DEF CommitTransfer
  <2>2. Finished(r)
    BY <2>1, FinishFacts
  <2>3. /\ transfer' = "pending" /\ from' = call[r].actor /\ to' = call[r].user
        /\ attempts' = 0
    BY <1>8 DEF CommitTransfer
  <2>4. from' \in Users /\ to' \in Users /\ from' # to'
    BY <2>1, <2>3, CallFacts
  <2>5. transfer \notin InProgress
    BY <2>1 DEF TransferOK
  <2>6. wpc' = "idle"
    BY <2>1, <2>2, <2>5 DEF TransferOK, Finished, InProgress
  <2>7. \A q \in Requests \ {r} : ~(pc[q] = "granted" /\ call[q].op = "transfer")
    BY <2>1 DEF OrgLockOK
  <2>8. \A q \in Requests : ~(pc'[q] = "granted" /\ call'[q].op = "transfer")
    BY <2>1, <2>2, <2>7 DEF Finished, TypeOK, CallsOK
  <2>9. attempts' < MaxAttempts
    BY <2>3, LimitFacts
  <2> QED
    BY <2>3, <2>4, <2>6, <2>8, <2>9 DEF TransferOK
<1>9. ASSUME NEW r \in Requests, NEW s \in Shops, CommitAddShop(r, s)
      PROVE  TransferOK'
  <2>1. TypeOK /\ CallsOK /\ Finish(r)
    BY <1>9 DEF CommitAddShop
  <2>2. Finished(r)
    BY <2>1, FinishFacts
  <2> QED
    BY <1>9, <2>1, <2>2 DEF CommitAddShop, Finished, TransferOK, TypeOK, CallsOK
<1>10. ASSUME NEW r \in Requests, NEW i \in Invitations, CommitInvite(r, i)
      PROVE  TransferOK'
  <2>1. TypeOK /\ CallsOK /\ Finish(r)
    BY <1>10 DEF CommitInvite
  <2>2. Finished(r)
    BY <2>1, FinishFacts
  <2> QED
    BY <1>10, <2>1, <2>2 DEF CommitInvite, Finished, TransferOK, TypeOK, CallsOK
<1>11. ASSUME NEW r \in Requests, Rollback(r)
      PROVE  TransferOK'
  <2>1. TypeOK /\ CallsOK /\ Finish(r)
    BY <1>11 DEF Rollback
  <2>2. Finished(r)
    BY <2>1, FinishFacts
  <2> QED
    BY <1>11, <2>1, <2>2 DEF Rollback, Finished, TransferOK, TypeOK, CallsOK
<1>12. ASSUME NEW i \in Invitations, Accept(i)
      PROVE  TransferOK'
  BY <1>12 DEF Accept, TransferOK, InProgress
<1>13. ASSUME NEW i \in Invitations, Withdraw(i)
      PROVE  TransferOK'
  BY <1>13 DEF Withdraw, TransferOK, InProgress
<1>14. ASSUME NEW u \in Users, FoundOrganization(u)
      PROVE  TransferOK'
  BY <1>14 DEF FoundOrganization, TransferOK, InProgress
<1>15. ASSUME ChangePlan
      PROVE  TransferOK'
  BY <1>15 DEF ChangePlan, TransferOK, InProgress
<1>16. ASSUME ClaimTransfer
      PROVE  TransferOK'
  BY <1>16 DEF ClaimTransfer, WorkerAt, TransferOK, InProgress
<1>17. ASSUME CancelRenewal
      PROVE  TransferOK'
  BY <1>17 DEF CancelRenewal, WorkerAt, TransferOK, InProgress
<1>18. ASSUME CheckTransfer
      PROVE  TransferOK'
  BY <1>18 DEF CheckTransfer, WorkerAt, TransferOK, InProgress
<1>19. ASSUME LockRows
      PROVE  TransferOK'
  BY <1>19 DEF LockRows, WorkerAt, TransferOK, InProgress
<1>20. ASSUME HandOver
      PROVE  TransferOK'
  BY <1>20 DEF HandOver, WorkerAt, TransferOK, InProgress
<1>21. ASSUME WorkerFails
      PROVE  TransferOK'
  <2>1. TransferOK /\ transfer = "processing" /\ wpc' = "idle"
    BY <1>21 DEF WorkerFails, WorkerAt, TransferOK
  <2>2. transfer' = "pending" => attempts' < MaxAttempts
    BY <1>21, LimitFacts DEF WorkerFails, TypeOK
  <2>3. /\ transfer' \in {"pending", "failed"}
        /\ UNCHANGED <<from, to, pc, call>>
    BY <1>21 DEF WorkerFails, WorkerAt
  <2> QED
    BY <2>1, <2>2, <2>3 DEF TransferOK, InProgress
<1>22. ASSUME WorkerDies
      PROVE  TransferOK'
  BY <1>22 DEF WorkerDies, WorkerAt, TransferOK, InProgress
<1>23. ASSUME BackoffElapses
      PROVE  TransferOK'
  BY <1>23 DEF BackoffElapses, TransferOK, InProgress
<1>24. ASSUME UNCHANGED vars
      PROVE  TransferOK'
  BY <1>24 DEF vars, TransferOK
<1> QED
  BY <1>1, <1>2, <1>3, <1>4, <1>5, <1>6, <1>7, <1>8, <1>9, <1>10, <1>11, <1>12, <1>13, <1>14,
      <1>15, <1>16, <1>17, <1>18, <1>19, <1>20, <1>21, <1>22, <1>23, <1>24 DEF Next, Progress,
      WorkerProgress

\* While rows are handed over, no request gets at them.
LEMMA HandoverStep == IInv /\ [Next]_vars => HandoverOK'
<1> SUFFICES ASSUME IInv, [Next]_vars PROVE HandoverOK'
  OBVIOUS
<1> USE DEF orgVars, memberVars, planVars, transferVars, workerVars, requestVars, lockVars,
    boundVars
<1>i. /\ TypeOK /\ CallsOK /\ OrgLockOK /\ UpdatesOK /\ RolesOK /\ InvitedOK
      /\ TransferOK /\ HandoverOK
  BY DEF IInv
<1>1. ASSUME NEW r \in Requests, BeginAny(r)
      PROVE  HandoverOK'
  <2>1. TypeOK /\ HandoverOK
    BY <1>i
  <2> PICK c : Asking(c) /\ Begun(r, c)
    BY <1>i, <1>1, <2>1, BeginFacts
  <2> QED
    BY <1>i, <2>1 DEF Begun, HandoverOK, HasOrg, HandingOver
<1>2. ASSUME NEW r \in Requests, GrantShop(r)
      PROVE  HandoverOK'
  <2>1. ~HasOrg /\ wpc' = wpc
    BY <1>i, <1>2 DEF GrantShop, Proceed, OrgFree, HasOrg
  <2> QED
    BY <1>i, <2>1 DEF HandoverOK, HasOrg
<1>3. ASSUME NEW r \in Requests, GrantSeat(r)
      PROVE  HandoverOK'
  <2>1. ~HasOrg /\ wpc' = wpc
    BY <1>i, <1>3 DEF GrantSeat, Proceed, OrgFree, HasOrg
  <2> QED
    BY <1>i, <2>1 DEF HandoverOK, HasOrg
<1>4. ASSUME NEW r \in Requests, LockMember(r)
      PROVE  HandoverOK'
  <2>1. wpc # "locked" /\ UNCHANGED <<wpc, orgLock, orgVars, memberVars, transferVars, loaded>>
    BY <1>i, <1>4 DEF LockMember, Proceed
  <2> QED
    BY <1>i, <2>1 DEF HandoverOK, HasOrg, HandingOver
<1>5. ASSUME NEW r \in Requests, LockOrganization(r)
      PROVE  HandoverOK'
  <2>1. ~HasOrg /\ wpc' = wpc
    BY <1>i, <1>5 DEF LockOrganization, Proceed, OrgFree, HasOrg
  <2> QED
    BY <1>i, <2>1 DEF HandoverOK, HasOrg
<1>6. ASSUME NEW r \in Requests, LockTarget(r)
      PROVE  HandoverOK'
  <2>1. orgLock = r
    BY <1>i, <1>6 DEF LockTarget, OrgLockOK
  <2>2. ~HasOrg /\ wpc' = wpc
    BY <1>i, <1>6, <2>1, ConstantsAssumption DEF LockTarget, Proceed, HandoverOK, HandingOver
  <2> QED
    BY <1>i, <2>2 DEF HandoverOK, HasOrg
<1>7. ASSUME NEW r \in Requests, CommitUpdate(r)
      PROVE  HandoverOK'
  <2>1. TypeOK /\ HandoverOK /\ Finish(r)
    BY <1>i, <1>7 DEF CommitUpdate
  <2>2. Finished(r)
    BY <1>i, <2>1, FinishFacts
  <2>i. IInv /\ open \subseteq Shops
    BY <1>i DEF TypeOK
  <2>3. UNCHANGED <<orgVars, transferVars, wpc, loaded>>
    BY <1>i, <1>7, <2>2 DEF CommitUpdate, Finished
  <2>4. ASSUME HasOrg PROVE HandingOver'
    <3>1. HandingOver /\ <<loaded, to>> \in Shops \X Users
      BY <1>i, <2>1, <2>4 DEF HandoverOK, HandingOver, HasOrg, TransferOK, InProgress, TypeOK
    <3>2. orgLock # r /\ orgLock' = None
      BY <1>i, <2>2, <3>1, ConstantsAssumption DEF HandingOver, Finished
    <3>3. /\ role'[<<loaded, to>>] # "none"
          /\ live'[<<loaded, to>>] => live[<<loaded, to>>]
      <4>1. CASE Row(call[r]) = <<loaded, to>>
        BY <1>i, <1>7, <3>2, <4>1, UpdateRow DEF Granted
      <4>2. CASE Row(call[r]) # <<loaded, to>>
        BY <1>i, <1>7, <3>1, <4>2, UpdateRow DEF OnlyRow, HandingOver
      <4> QED
        BY <1>i, <4>1, <4>2
    <3> QED
      BY <1>i, <2>3, <3>1, <3>2, <3>3 DEF HandingOver
  <2>5. ASSUME wpc = "locked", NEW s \in open, NEW u \in Users
        PROVE  memberLock'[<<s, u>>] = None
    <3>1. memberLock[<<s, u>>] = None /\ <<s, u>> \in Shops \X Users
      BY <1>i, <2>1, <2>5, <2>i DEF HandoverOK
    <3> QED
      BY <1>i, <2>2, <3>1 DEF Finished
  <2> QED
    BY <1>i, <2>3, <2>4, <2>5 DEF HandoverOK, HasOrg
<1>8. ASSUME NEW r \in Requests, CommitTransfer(r)
      PROVE  HandoverOK'
  <2>1. orgLock = r
    BY <1>i, <1>8 DEF CommitTransfer, OrgLockOK, Seated
  <2>2. ~HasOrg /\ wpc' = wpc
    BY <1>i, <1>8, <2>1, ConstantsAssumption DEF CommitTransfer, Finish, HandoverOK, HandingOver
  <2> QED
    BY <1>i, <2>2 DEF HandoverOK, HasOrg
<1>9. ASSUME NEW r \in Requests, NEW s \in Shops, CommitAddShop(r, s)
      PROVE  HandoverOK'
  <2>1. orgLock = r
    BY <1>i, <1>9 DEF CommitAddShop, OrgLockOK, Seated
  <2>2. ~HasOrg /\ wpc' = wpc
    BY <1>i, <1>9, <2>1, ConstantsAssumption DEF CommitAddShop, Finish, HandoverOK, HandingOver
  <2> QED
    BY <1>i, <2>2 DEF HandoverOK, HasOrg
<1>10. ASSUME NEW r \in Requests, NEW i \in Invitations, CommitInvite(r, i)
      PROVE  HandoverOK'
  <2>1. orgLock = r
    BY <1>i, <1>10 DEF CommitInvite, OrgLockOK, Seated
  <2>2. ~HasOrg /\ wpc' = wpc
    BY <1>i, <1>10, <2>1, ConstantsAssumption DEF CommitInvite, Finish, HandoverOK, HandingOver
  <2> QED
    BY <1>i, <2>2 DEF HandoverOK, HasOrg
<1>11. ASSUME NEW r \in Requests, Rollback(r)
      PROVE  HandoverOK'
  <2>1. TypeOK /\ HandoverOK /\ Finish(r)
    BY <1>i, <1>11 DEF Rollback
  <2>2. Finished(r)
    BY <1>i, <2>1, FinishFacts
  <2>3. UNCHANGED <<orgVars, memberVars, transferVars>>
    BY <1>i, <1>11 DEF Rollback
  <2>4. HasOrg => HandingOver'
    BY <1>i, <2>1, <2>2, <2>3 DEF HandoverOK, HandingOver, Finished
  <2>5. ASSUME wpc = "locked", NEW s \in open, NEW u \in Users
        PROVE  memberLock'[<<s, u>>] = None
    BY <1>i, <2>1, <2>2, <2>5 DEF HandoverOK, Finished, TypeOK
  <2> QED
    BY <1>i, <2>2, <2>3, <2>4, <2>5 DEF HandoverOK, HasOrg, Finished
<1>12. ASSUME NEW i \in Invitations, Accept(i)
      PROVE  HandoverOK'
  <2>1. HandoverOK /\ UNCHANGED <<orgVars, transferVars, wpc, loaded, orgLock, memberLock>>
    BY <1>i, <1>12 DEF Accept
  <2>2. ASSUME HasOrg PROVE HandingOver'
    <3>1. HandingOver /\ <<loaded, to>> \in Shops \X Users
      BY <1>i, <2>1, <2>2 DEF HandoverOK, HandingOver, HasOrg, TransferOK, InProgress, TypeOK
    <3>2. /\ role'[<<loaded, to>>] = role[<<loaded, to>>]
          /\ live'[<<loaded, to>>] = live[<<loaded, to>>]
      BY <1>i, <1>12, <3>1, JoinRow DEF OnlyRow, HandingOver, memberVars
    <3> QED
      BY <1>i, <2>1, <3>1, <3>2 DEF HandingOver
  <2> QED
    BY <1>i, <2>1, <2>2 DEF HandoverOK, HasOrg
<1>13. ASSUME NEW i \in Invitations, Withdraw(i)
      PROVE  HandoverOK'
  BY <1>i, <1>13 DEF Withdraw, HandoverOK, HandingOver, HasOrg
<1>14. ASSUME NEW u \in Users, FoundOrganization(u)
      PROVE  HandoverOK'
  <2>1. /\ elsewhere' = elsewhere \cup {u} /\ u \notin Members
        /\ UNCHANGED <<owner, open, role, live, transferVars, wpc, loaded, orgLock, memberLock>>
    BY <1>i, <1>14 DEF FoundOrganization
  <2>2. HasOrg => HandingOver'
    <3>1. u = to /\ loaded \in open => ~live[<<loaded, to>>]
      BY <1>i, <2>1 DEF Members
    <3> QED
      BY <1>i, <2>1, <3>1 DEF HandoverOK, HandingOver
  <2> QED
    BY <1>i, <2>1, <2>2 DEF HandoverOK, HasOrg
<1>15. ASSUME ChangePlan
      PROVE  HandoverOK'
  BY <1>i, <1>15 DEF ChangePlan, HandoverOK, HandingOver, HasOrg
<1>16. ASSUME ClaimTransfer
      PROVE  HandoverOK'
  <2>1. wpc' \in {"claimed", "cancelled"}
    BY <1>i, <1>16 DEF ClaimTransfer, WorkerAt
  <2> QED
    BY <1>i, <2>1 DEF HandoverOK, HasOrg
<1>17. ASSUME CancelRenewal
      PROVE  HandoverOK'
  <2>1. wpc' \in {"claimed", "cancelled"}
    BY <1>i, <1>17 DEF CancelRenewal, WorkerAt
  <2> QED
    BY <1>i, <2>1 DEF HandoverOK, HasOrg
<1>18. ASSUME CheckTransfer
      PROVE  HandoverOK'
  <2>1. CASE wpc' = "idle"
    BY <1>i, <2>1 DEF HandoverOK, HasOrg
  <2>2. CASE wpc' # "idle"
    <3>1. /\ wpc' = "checked" /\ MayReceive(loaded')
          /\ orgLock = None /\ UNCHANGED <<orgVars, memberVars, transferVars, orgLock>>
      BY <1>i, <1>18, <2>2 DEF CheckTransfer, WorkerAt, OrgFree
    <3>2. role[<<loaded', to>>] # "none"
      <4>1. to \in Users /\ loaded' \in Shops
        BY <1>i, <1>18, <3>1 DEF CheckTransfer, TransferOK, InProgress, MayReceive, TypeOK
      <4> QED
        BY <1>i, <3>1, <4>1 DEF MayReceive, RolesOK
    <3> QED
      BY <1>i, <3>1, <3>2 DEF HandoverOK, HandingOver, MayReceive
  <2> QED
    BY <1>i, <2>1, <2>2
<1>19. ASSUME LockRows
      PROVE  HandoverOK'
  <2>1. /\ wpc = "checked" /\ \A s \in open, u \in Users : memberLock[<<s, u>>] = None
        /\ UNCHANGED <<orgVars, memberVars, transferVars, loaded, orgLock, memberLock>>
    BY <1>i, <1>19 DEF LockRows, WorkerAt
  <2> QED
    BY <1>i, <2>1 DEF HandoverOK, HandingOver, HasOrg
<1>20. ASSUME HandOver
      PROVE  HandoverOK'
  <2>1. wpc' = "idle"
    BY <1>i, <1>20 DEF HandOver, WorkerAt
  <2> QED
    BY <1>i, <2>1 DEF HandoverOK, HasOrg
<1>21. ASSUME WorkerFails
      PROVE  HandoverOK'
  <2>1. wpc' = "idle"
    BY <1>i, <1>21 DEF WorkerFails, WorkerAt
  <2> QED
    BY <1>i, <2>1 DEF HandoverOK, HasOrg
<1>22. ASSUME WorkerDies
      PROVE  HandoverOK'
  <2>1. wpc' = "idle"
    BY <1>i, <1>22 DEF WorkerDies, WorkerAt
  <2> QED
    BY <1>i, <2>1 DEF HandoverOK, HasOrg
<1>23. ASSUME BackoffElapses
      PROVE  HandoverOK'
  BY <1>i, <1>23 DEF BackoffElapses, HandoverOK, HandingOver, HasOrg
<1>24. ASSUME UNCHANGED vars
      PROVE  HandoverOK'
  BY <1>i, <1>24 DEF vars, HandoverOK, HandingOver, HasOrg
<1> QED
  BY <1>1, <1>2, <1>3, <1>4, <1>5, <1>6, <1>7, <1>8, <1>9, <1>10, <1>11, <1>12, <1>13, <1>14,
      <1>15, <1>16, <1>17, <1>18, <1>19, <1>20, <1>21, <1>22, <1>23, <1>24 DEF Next, Progress,
      WorkerProgress

\* While the plan has not lapsed, the limits do not shrink.
LEMMA PlanMoves ==
  ASSUME IInv, [Next]_vars
  PROVE  lapsed' \/ (~lapsed /\ ShopLimit <= ShopLimit' /\ SeatLimit <= SeatLimit')
<1>i. TypeOK
  BY DEF IInv
<1>1. UNCHANGED planVars \/ ChangePlan
  <2>1. ASSUME NEW r \in Requests, BeginAny(r) PROVE UNCHANGED planVars
    <3>1. ASSUME NEW c, NEW allowed, Begin(r, c, allowed) PROVE UNCHANGED planVars
      BY <3>1 DEF Begin
    <3> QED
      BY <2>1, <3>1 DEF BeginAny, BeginAddShop, BeginTransfer, BeginInvite, BeginUpdate
  <2>2. ASSUME NEW r \in Requests, Progress(r) \/ Rollback(r) PROVE UNCHANGED planVars
    <3>1. ASSUME NEW step, Proceed(r, step) PROVE UNCHANGED planVars
      BY <3>1 DEF Proceed
    <3>2. ASSUME Finish(r) PROVE UNCHANGED planVars
      BY <3>2 DEF Finish
    <3> QED
      BY <2>2, <3>1, <3>2
      DEF Progress, Rollback, GrantShop, GrantSeat, LockMember, LockOrganization, LockTarget,
          CommitUpdate, CommitTransfer, CommitAddShop, CommitInvite
  <2>3. ASSUME NEW i \in Invitations, Accept(i) \/ Withdraw(i) PROVE UNCHANGED planVars
    BY <2>3 DEF Accept, Withdraw
  <2>4. ASSUME NEW u \in Users, FoundOrganization(u) PROVE UNCHANGED planVars
    BY <2>4 DEF FoundOrganization
  <2>5. ASSUME ClaimTransfer \/ WorkerProgress \/ WorkerFails \/ WorkerDies \/ BackoffElapses
        PROVE  UNCHANGED planVars
    BY <2>5
    DEF ClaimTransfer, WorkerProgress, CancelRenewal, CheckTransfer, LockRows, HandOver,
        WorkerFails, WorkerDies, BackoffElapses, WorkerAt
  <2>6. ASSUME UNCHANGED vars PROVE UNCHANGED planVars
    BY <2>6 DEF vars
  <2> QED
    BY <2>1, <2>2, <2>3, <2>4, <2>5, <2>6 DEF Next
<1>2. CASE UNCHANGED planVars
  <2>1. ShopLimit' = ShopLimit /\ SeatLimit' = SeatLimit /\ lapsed' = lapsed
    BY <1>2 DEF planVars, ShopLimit, SeatLimit
  <2> QED
    BY <1>i, <2>1, LimitFacts
<1>3. CASE ChangePlan
  <2>1. CASE plan = "pro"
    BY <1>3, <2>1 DEF ChangePlan
  <2>2. CASE plan = "free"
    <3>1. plan' = "pro" /\ ~lapsed
      BY <1>3, <2>2 DEF ChangePlan
    <3>2. /\ ShopLimit = FreeShops /\ ShopLimit' = ProShops
          /\ SeatLimit = FreeSeats /\ SeatLimit' = ProSeats
      BY <2>2, <3>1 DEF ShopLimit, SeatLimit
    <3> QED
      BY <1>i, <3>1, <3>2, LimitFacts
  <2> QED
    BY <1>i, <2>1, <2>2 DEF TypeOK
<1> QED
  BY <1>1, <1>2, <1>3

\* The steps that change who is a member or invited, and in how many shops.
LEMMA PeopleMoves ==
  ASSUME [Next]_vars
  PROVE  \/ UNCHANGED <<open, late, live, invitation>>
         \/ \E r \in Requests :
              \/ CommitUpdate(r)
              \/ \E s \in Shops : CommitAddShop(r, s)
              \/ \E i \in Invitations : CommitInvite(r, i)
         \/ \E i \in Invitations : Accept(i) \/ Withdraw(i)
         \/ HandOver
<1> USE DEF orgVars, memberVars
<1>1. ASSUME UNCHANGED vars PROVE UNCHANGED <<open, late, live, invitation>>
  BY <1>1 DEF vars
<1>2. ASSUME NEW r \in Requests, BeginAny(r) PROVE UNCHANGED <<open, late, live, invitation>>
  <2>1. ASSUME NEW c, NEW allowed, Begin(r, c, allowed)
        PROVE  UNCHANGED <<open, late, live, invitation>>
    BY <2>1 DEF Begin
  <2> QED
    BY <1>2, <2>1 DEF BeginAny, BeginAddShop, BeginTransfer, BeginInvite, BeginUpdate
<1>3. ASSUME NEW r \in Requests,
             \/ GrantShop(r) \/ GrantSeat(r) \/ LockMember(r) \/ LockOrganization(r)
             \/ LockTarget(r)
      PROVE  UNCHANGED <<open, late, live, invitation>>
  <2>1. ASSUME NEW step, Proceed(r, step) PROVE UNCHANGED <<open, late, live, invitation>>
    BY <2>1 DEF Proceed
  <2> QED
    BY <1>3, <2>1 DEF GrantShop, GrantSeat, LockMember, LockOrganization, LockTarget
<1>4. ASSUME NEW r \in Requests, CommitTransfer(r) \/ Rollback(r)
      PROVE  UNCHANGED <<open, late, live, invitation>>
  BY <1>4 DEF CommitTransfer, Rollback
<1>5. ASSUME NEW u \in Users, FoundOrganization(u)
      PROVE  UNCHANGED <<open, late, live, invitation>>
  BY <1>5 DEF FoundOrganization
<1>6. ASSUME ChangePlan \/ ClaimTransfer \/ CancelRenewal \/ CheckTransfer \/ LockRows
             \/ WorkerFails \/ WorkerDies \/ BackoffElapses
      PROVE  UNCHANGED <<open, late, live, invitation>>
  BY <1>6
  DEF ChangePlan, ClaimTransfer, CancelRenewal, CheckTransfer, LockRows, WorkerFails,
      WorkerDies, BackoffElapses, WorkerAt
<1> QED
  BY <1>1, <1>2, <1>3, <1>4, <1>5, <1>6 DEF Next, Progress, WorkerProgress

\* Nobody joins the team but with a seat, or with a shop, or as the new owner.
SeatTaken(r) ==
  /\ Seated(r) /\ orgLock = r /\ pc'[r] = "idle"
  /\ call[r].op # "add_shop" /\ call[r].user \in Users
  /\ Team' \subseteq Team \cup {call[r].user}
  /\ UNCHANGED <<open, late>>
ShopAdded(r, s) ==
  /\ orgLock = r /\ pc'[r] = "idle"
  /\ pc[r] = "granted" /\ call[r].op = "add_shop" /\ call[r].actor \in Users
  /\ s \notin open /\ open' = open \cup {s}
  /\ \/ Team' \subseteq Team /\ late' = late
     \/ Team' \subseteq Team \cup {call[r].actor} /\ late' = late \cup {s}
Handed ==
  /\ wpc = "locked" /\ wpc' = "idle"
  /\ Team' \subseteq Team \cup {to}
  /\ UNCHANGED <<open, late>>

LEMMA TeamMoves ==
  ASSUME IInv, [Next]_vars
  PROVE  \/ Team' \subseteq Team /\ UNCHANGED <<open, late>>
         \/ \E r \in Requests : SeatTaken(r) \/ \E s \in Shops : ShopAdded(r, s)
         \/ Handed
<1>i. TypeOK /\ CallsOK /\ OrgLockOK /\ InvitedOK
  BY DEF IInv
<1>0. open \subseteq Shops
  BY <1>i DEF TypeOK
<1>1. CASE UNCHANGED <<open, late, live, invitation>>
  <2>1. Members' = Members /\ Invited' = Invited
    BY <1>1 DEF Members, Invited
  <2> QED
    BY <1>1, <2>1 DEF Team
<1>2. ASSUME NEW r \in Requests, CommitUpdate(r)
      PROVE  (Team' \subseteq Team /\ UNCHANGED <<open, late>>) \/ SeatTaken(r)
  <2>1. /\ pc[r] = "granted" /\ call[r].op = "update" /\ UNCHANGED <<open, late, invitation>>
        /\ call[r].user \in Users /\ Finish(r)
    BY <1>2, <1>i, CallFacts DEF CommitUpdate, orgVars
  <2>2. /\ OnlyRow(Row(call[r])) /\ Invited' = Invited
        /\ live'[Row(call[r])] => live[Row(call[r])] \/ (orgLock = r /\ room[r] > 0)
    BY <1>2, <2>1, UpdateRow DEF Invited
  <2>3. ASSUME NEW u \in Members', u \notin Members
        PROVE  u = call[r].user /\ orgLock = r /\ room[r] > 0
    <3>1. u \in Users /\ \E s \in open : live'[<<s, u>>] /\ ~live[<<s, u>>]
      BY <2>1, <2>3 DEF Members
    <3>2. PICK s \in open : live'[<<s, u>>] /\ ~live[<<s, u>>]
      BY <3>1
    <3>3. <<s, u>> \in Shops \X Users
      BY <1>0, <3>1
    <3>4. <<s, u>> = Row(call[r])
      BY <2>2, <3>2, <3>3 DEF OnlyRow
    <3> QED
      BY <2>2, <3>2, <3>4 DEF Row
  <2>4. CASE Members' \subseteq Members
    BY <2>1, <2>2, <2>4 DEF Team
  <2>5. CASE ~(Members' \subseteq Members)
    <3>1. orgLock = r /\ room[r] > 0 /\ Members' \subseteq Members \cup {call[r].user}
      BY <2>3, <2>5
    <3>2. pc'[r] = "idle"
      BY <1>i, <2>1 DEF Finish, TypeOK
    <3> QED
      BY <2>1, <2>2, <3>1, <3>2 DEF SeatTaken, Seated, Team
  <2> QED
    BY <2>4, <2>5
<1>3. ASSUME NEW r \in Requests, NEW s \in Shops, CommitAddShop(r, s)
      PROVE  ShopAdded(r, s)
  <2>1. /\ OnlyRow(NewRow(r, s)) /\ call[r].actor \in Users
        /\ s \notin open /\ open' = open \cup {s}
        /\ \/ live[<<call[r].shop, call[r].actor>>] /\ late' = late
           \/ late' = late \cup {s}
        /\ call[r].shop \in open
        /\ orgLock = r /\ pc[r] = "granted" /\ call[r].op = "add_shop"
    BY <1>3, ShopRow
  <2>2. Finish(r) /\ Invited' = Invited
    BY <1>3 DEF CommitAddShop, Invited
  <2>3. pc'[r] = "idle"
    BY <1>i, <2>2 DEF Finish, TypeOK
  <2>4. ASSUME NEW u \in Members', u # call[r].actor
        PROVE  u \in Members
    <3>1. PICK t \in open' : live'[<<t, u>>]
      BY <2>4 DEF Members
    <3>2. u \in Users /\ t \in Shops
      BY <1>0, <2>1, <2>4 DEF Members
    <3>3. <<t, u>> \in Shops \X Users /\ <<t, u>> # NewRow(r, s)
      BY <2>4, <3>2 DEF NewRow
    <3>4. live[<<t, u>>]
      BY <2>1, <3>1, <3>3 DEF OnlyRow
    <3>5. t \in open
      <4>1. <<t, u>>[1] = t /\ RolesOK
        BY DEF IInv
      <4> QED
        BY <3>3, <3>4, <4>1 DEF RolesOK
    <3> QED
      BY <3>2, <3>4, <3>5 DEF Members
  <2>5. Team' \subseteq Team \cup {call[r].actor}
    BY <2>2, <2>4 DEF Team
  <2>6. live[<<call[r].shop, call[r].actor>>] => call[r].actor \in Team
    BY <2>1 DEF Members, Team
  <2> QED
    BY <2>1, <2>3, <2>5, <2>6 DEF ShopAdded
<1>4. ASSUME NEW r \in Requests, NEW i \in Invitations, CommitInvite(r, i)
      PROVE  SeatTaken(r)
  <2>1. /\ pc[r] = "granted" /\ call[r].op = "invite" /\ UNCHANGED <<open, late, live>>
        /\ call[r].user \in Users /\ Finish(r)
    BY <1>4, <1>i, CallFacts DEF CommitInvite, orgVars, memberVars
  <2>2. invitation' = [invitation EXCEPT
                         ![i] = [shop |-> call[r].shop, user |-> call[r].user,
                                 role |-> call[r].grant]]
    BY <1>4 DEF CommitInvite
  <2>3. ASSUME NEW u \in Invited' PROVE u \in Invited \cup {call[r].user}
    <3>1. PICK j \in Invitations : invitation'[j] # None /\ u = invitation'[j].user
      BY DEF Invited
    <3>2. CASE j = i
      BY <1>i, <2>2, <3>1, <3>2 DEF TypeOK
    <3>3. CASE j # i
      <4>1. invitation'[j] = invitation[j]
        BY <1>i, <2>2, <3>3 DEF TypeOK
      <4> QED
        BY <3>1, <4>1 DEF Invited
    <3> QED
      BY <3>2, <3>3
  <2>4. Members' = Members
    BY <2>1 DEF Members
  <2>5. room[r] > 0 /\ orgLock = r
    BY <1>i, <2>1 DEF OrgLockOK, Seated
  <2>6. pc'[r] = "idle"
    BY <1>i, <2>1 DEF Finish, TypeOK
  <2> QED
    BY <2>1, <2>3, <2>4, <2>5, <2>6 DEF SeatTaken, Seated, Team
<1>5. ASSUME NEW i \in Invitations, Accept(i) \/ Withdraw(i)
      PROVE  Team' \subseteq Team /\ UNCHANGED <<open, late>>
  <2>1. /\ invitation[i] # None /\ invitation' = [invitation EXCEPT ![i] = None]
        /\ UNCHANGED <<open, late>>
    BY <1>5 DEF Accept, Withdraw, orgVars
  <2>2. Invited' \subseteq Invited
    <3>1. ASSUME NEW j \in Invitations, invitation'[j] # None
          PROVE  invitation'[j] = invitation[j]
      BY <1>i, <2>1, <3>1 DEF TypeOK
    <3> QED
      BY <3>1 DEF Invited
  <2>3. invitation[i].user \in Invited
    BY <2>1 DEF Invited
  <2>4. Members' \subseteq Members \cup {invitation[i].user}
    <3>1. CASE Withdraw(i)
      <4>1. live' = live
        BY <3>1 DEF Withdraw, memberVars
      <4> QED
        BY <2>1, <4>1 DEF Members
    <3>2. CASE Accept(i) /\ UNCHANGED memberVars
      BY <2>1, <3>2 DEF Members, memberVars
    <3>3. CASE Accept(i) /\ OnlyRow(Place(i))
      <4>1. ASSUME NEW u \in Members', u # invitation[i].user
            PROVE  u \in Members
        <5>1. PICK s \in open : live'[<<s, u>>]
          BY <2>1 DEF Members
        <5>2. u \in Users /\ <<s, u>> \in Shops \X Users /\ <<s, u>> # Place(i)
          BY <1>0, <4>1 DEF Members, Place
        <5>3. live[<<s, u>>]
          BY <3>3, <5>1, <5>2 DEF OnlyRow
        <5> QED
          BY <5>2, <5>3 DEF Members
      <4> QED
        BY <4>1
    <3> QED
      BY <1>5, <3>1, <3>2, <3>3, JoinRow
  <2> QED
    BY <2>1, <2>2, <2>3, <2>4 DEF Team
<1>6. CASE HandOver
  <2>1. /\ wpc = "locked" /\ wpc' = "idle" /\ UNCHANGED <<open, late, invitation>>
    BY <1>6 DEF HandOver, WorkerAt
  <2>2. Invited' = Invited
    BY <2>1 DEF Invited
  <2>3. ASSUME NEW u \in Members', u # to
        PROVE  u \in Members
    <3>1. PICK s \in open : live'[<<s, u>>]
      BY <2>1 DEF Members
    <3>2. u \in Users /\ <<s, u>> \in Shops \X Users /\ <<s, u>>[2] # to
      BY <1>0, <2>3 DEF Members
    <3>3. live[<<s, u>>]
      BY <1>6, <3>1, <3>2, HandRows
    <3> QED
      BY <3>2, <3>3 DEF Members
  <2> QED
    BY <2>1, <2>2, <2>3 DEF Handed, Team
<1> QED
  BY <1>1, <1>2, <1>3, <1>4, <1>5, <1>6, PeopleMoves

\* A grant is new, or it was there before with the same room.
Kept(q) ==
  pc'[q] = "granted" /\ room'[q] > 0 =>
    pc[q] = "granted" /\ room'[q] = room[q] /\ call'[q] = call[q]

LEMMA GrantMoves ==
  ASSUME IInv, [Next]_vars
  PROVE  \A q \in Requests : Kept(q) \/ GrantShop(q) \/ GrantSeat(q)
<1>i. TypeOK /\ CallsOK /\ OrgLockOK
  BY DEF IInv
<1> USE DEF orgVars, memberVars, planVars, transferVars, workerVars, requestVars, lockVars,
    boundVars
<1>1. ASSUME NEW r \in Requests, BeginAny(r)
      PROVE  \A q \in Requests : Kept(q) \/ GrantShop(q) \/ GrantSeat(q)
  <2> PICK c : Asking(c) /\ Begun(r, c)
    BY <1>i, <1>1, BeginFacts
  <2> QED
    BY <1>i DEF Begun, TypeOK, Kept
<1>2. ASSUME NEW r \in Requests, GrantShop(r)
      PROVE  \A q \in Requests : Kept(q) \/ GrantShop(q) \/ GrantSeat(q)
  <2>1. \A q \in Requests \ {r} : pc'[q] = pc[q] /\ room'[q] = room[q]
    BY <1>i, <1>2 DEF GrantShop, Proceed, TypeOK
  <2> QED
    BY <1>2, <2>1 DEF GrantShop, Proceed, Kept
<1>3. ASSUME NEW r \in Requests, GrantSeat(r)
      PROVE  \A q \in Requests : Kept(q) \/ GrantShop(q) \/ GrantSeat(q)
  <2>1. \A q \in Requests \ {r} : pc'[q] = pc[q] /\ room'[q] = room[q]
    BY <1>i, <1>3 DEF GrantSeat, Proceed, TypeOK
  <2> QED
    BY <1>3, <2>1 DEF GrantSeat, Proceed, Kept
<1>4. ASSUME NEW r \in Requests, LockMember(r)
      PROVE  \A q \in Requests : Kept(q) \/ GrantShop(q) \/ GrantSeat(q)
  <2>1. pc[r] # "granted" => room[r] = 0
    BY <1>i DEF OrgLockOK
  <2> QED
    BY <1>i, <1>4, <2>1 DEF LockMember, Proceed, TypeOK, Kept
<1>5. ASSUME NEW r \in Requests, LockOrganization(r)
      PROVE  \A q \in Requests : Kept(q) \/ GrantShop(q) \/ GrantSeat(q)
  <2>1. pc[r] # "granted" => room[r] = 0
    BY <1>i DEF OrgLockOK
  <2> QED
    BY <1>i, <1>5, <2>1 DEF LockOrganization, Proceed, TypeOK, Kept
<1>6. ASSUME NEW r \in Requests, LockTarget(r)
      PROVE  \A q \in Requests : Kept(q) \/ GrantShop(q) \/ GrantSeat(q)
  <2>1. pc[r] # "granted" => room[r] = 0
    BY <1>i DEF OrgLockOK
  <2> QED
    BY <1>i, <1>6, <2>1 DEF LockTarget, Proceed, TypeOK, Kept
<1>7. ASSUME NEW r \in Requests, CommitUpdate(r)
      PROVE  \A q \in Requests : Kept(q) \/ GrantShop(q) \/ GrantSeat(q)
  <2>2. Finished(r)
    BY <1>i, <1>7, FinishFacts DEF CommitUpdate
  <2> QED
    BY <1>i, <2>2 DEF Finished, TypeOK, Kept
<1>8. ASSUME NEW r \in Requests, CommitTransfer(r)
      PROVE  \A q \in Requests : Kept(q) \/ GrantShop(q) \/ GrantSeat(q)
  <2>2. Finished(r)
    BY <1>i, <1>8, FinishFacts DEF CommitTransfer
  <2> QED
    BY <1>i, <2>2 DEF Finished, TypeOK, Kept
<1>9. ASSUME NEW r \in Requests, NEW s \in Shops, CommitAddShop(r, s)
      PROVE  \A q \in Requests : Kept(q) \/ GrantShop(q) \/ GrantSeat(q)
  <2>2. Finished(r)
    BY <1>i, <1>9, FinishFacts DEF CommitAddShop
  <2> QED
    BY <1>i, <2>2 DEF Finished, TypeOK, Kept
<1>10. ASSUME NEW r \in Requests, NEW i \in Invitations, CommitInvite(r, i)
      PROVE  \A q \in Requests : Kept(q) \/ GrantShop(q) \/ GrantSeat(q)
  <2>2. Finished(r)
    BY <1>i, <1>10, FinishFacts DEF CommitInvite
  <2> QED
    BY <1>i, <2>2 DEF Finished, TypeOK, Kept
<1>11. ASSUME NEW r \in Requests, Rollback(r)
      PROVE  \A q \in Requests : Kept(q) \/ GrantShop(q) \/ GrantSeat(q)
  <2>2. Finished(r)
    BY <1>i, <1>11, FinishFacts DEF Rollback
  <2> QED
    BY <1>i, <2>2 DEF Finished, TypeOK, Kept
<1>12. ASSUME NEW i \in Invitations, Accept(i)
      PROVE  \A q \in Requests : Kept(q) \/ GrantShop(q) \/ GrantSeat(q)
  BY <1>12 DEF Accept, Kept
<1>13. ASSUME NEW i \in Invitations, Withdraw(i)
      PROVE  \A q \in Requests : Kept(q) \/ GrantShop(q) \/ GrantSeat(q)
  BY <1>13 DEF Withdraw, Kept
<1>14. ASSUME NEW u \in Users, FoundOrganization(u)
      PROVE  \A q \in Requests : Kept(q) \/ GrantShop(q) \/ GrantSeat(q)
  BY <1>14 DEF FoundOrganization, Kept
<1>15. ASSUME ChangePlan
      PROVE  \A q \in Requests : Kept(q) \/ GrantShop(q) \/ GrantSeat(q)
  BY <1>15 DEF ChangePlan, Kept
<1>16. ASSUME ClaimTransfer
      PROVE  \A q \in Requests : Kept(q) \/ GrantShop(q) \/ GrantSeat(q)
  BY <1>16 DEF ClaimTransfer, WorkerAt, Kept
<1>17. ASSUME CancelRenewal
      PROVE  \A q \in Requests : Kept(q) \/ GrantShop(q) \/ GrantSeat(q)
  BY <1>17 DEF CancelRenewal, WorkerAt, Kept
<1>18. ASSUME CheckTransfer
      PROVE  \A q \in Requests : Kept(q) \/ GrantShop(q) \/ GrantSeat(q)
  BY <1>18 DEF CheckTransfer, WorkerAt, Kept
<1>19. ASSUME LockRows
      PROVE  \A q \in Requests : Kept(q) \/ GrantShop(q) \/ GrantSeat(q)
  BY <1>19 DEF LockRows, WorkerAt, Kept
<1>20. ASSUME HandOver
      PROVE  \A q \in Requests : Kept(q) \/ GrantShop(q) \/ GrantSeat(q)
  BY <1>20 DEF HandOver, WorkerAt, Kept
<1>21. ASSUME WorkerFails
      PROVE  \A q \in Requests : Kept(q) \/ GrantShop(q) \/ GrantSeat(q)
  BY <1>21 DEF WorkerFails, WorkerAt, Kept
<1>22. ASSUME WorkerDies
      PROVE  \A q \in Requests : Kept(q) \/ GrantShop(q) \/ GrantSeat(q)
  BY <1>22 DEF WorkerDies, WorkerAt, Kept
<1>23. ASSUME BackoffElapses
      PROVE  \A q \in Requests : Kept(q) \/ GrantShop(q) \/ GrantSeat(q)
  BY <1>23 DEF BackoffElapses, Kept
<1>24. ASSUME UNCHANGED vars
      PROVE  \A q \in Requests : Kept(q) \/ GrantShop(q) \/ GrantSeat(q)
  BY <1>24 DEF vars, Kept
<1> QED
  BY <1>1, <1>2, <1>3, <1>4, <1>5, <1>6, <1>7, <1>8, <1>9, <1>10, <1>11, <1>12, <1>13, <1>14,
      <1>15, <1>16, <1>17, <1>18, <1>19, <1>20, <1>21, <1>22, <1>23, <1>24 DEF Next, Progress,
      WorkerProgress

\* The worker gets the organization by its check, and what it hands over stays the same.
LEMMA WorkerMoves ==
  ASSUME IInv, [Next]_vars
  PROVE  HasOrg' => CheckTransfer \/ (HasOrg /\ to' = to)
<1>i. TypeOK /\ OrgLockOK /\ HandoverOK
  BY DEF IInv
<1> USE DEF orgVars, memberVars, planVars, transferVars, workerVars, requestVars, lockVars,
    boundVars
<1>1. ASSUME NEW r \in Requests, BeginAny(r)
      PROVE  HasOrg' => CheckTransfer \/ (HasOrg /\ to' = to)
  <2> PICK c : Asking(c) /\ Begun(r, c)
    BY <1>i, <1>1, BeginFacts
  <2> QED
    BY DEF Begun, HasOrg
<1>2. ASSUME NEW r \in Requests, GrantShop(r)
      PROVE  HasOrg' => CheckTransfer \/ (HasOrg /\ to' = to)
  BY <1>2 DEF GrantShop, Proceed, HasOrg
<1>3. ASSUME NEW r \in Requests, GrantSeat(r)
      PROVE  HasOrg' => CheckTransfer \/ (HasOrg /\ to' = to)
  BY <1>3 DEF GrantSeat, Proceed, HasOrg
<1>4. ASSUME NEW r \in Requests, LockMember(r)
      PROVE  HasOrg' => CheckTransfer \/ (HasOrg /\ to' = to)
  BY <1>4 DEF LockMember, Proceed, HasOrg
<1>5. ASSUME NEW r \in Requests, LockOrganization(r)
      PROVE  HasOrg' => CheckTransfer \/ (HasOrg /\ to' = to)
  BY <1>5 DEF LockOrganization, Proceed, HasOrg
<1>6. ASSUME NEW r \in Requests, LockTarget(r)
      PROVE  HasOrg' => CheckTransfer \/ (HasOrg /\ to' = to)
  BY <1>6 DEF LockTarget, Proceed, HasOrg
<1>7. ASSUME NEW r \in Requests, CommitUpdate(r)
      PROVE  HasOrg' => CheckTransfer \/ (HasOrg /\ to' = to)
  BY <1>7 DEF CommitUpdate, Finish, HasOrg
<1>8. ASSUME NEW r \in Requests, CommitTransfer(r)
      PROVE  HasOrg' => CheckTransfer \/ (HasOrg /\ to' = to)
  <2>1. orgLock = r
    BY <1>i, <1>8 DEF CommitTransfer, OrgLockOK
  <2>2. ~HasOrg /\ wpc' = wpc
    BY <1>i, <1>8, <2>1, ConstantsAssumption
    DEF CommitTransfer, Finish, HandoverOK, HandingOver
  <2> QED
    BY <2>2 DEF HasOrg
<1>9. ASSUME NEW r \in Requests, NEW s \in Shops, CommitAddShop(r, s)
      PROVE  HasOrg' => CheckTransfer \/ (HasOrg /\ to' = to)
  BY <1>9 DEF CommitAddShop, Finish, HasOrg
<1>10. ASSUME NEW r \in Requests, NEW i \in Invitations, CommitInvite(r, i)
      PROVE  HasOrg' => CheckTransfer \/ (HasOrg /\ to' = to)
  BY <1>10 DEF CommitInvite, Finish, HasOrg
<1>11. ASSUME NEW r \in Requests, Rollback(r)
      PROVE  HasOrg' => CheckTransfer \/ (HasOrg /\ to' = to)
  BY <1>11 DEF Rollback, Finish, HasOrg
<1>12. ASSUME NEW i \in Invitations, Accept(i)
      PROVE  HasOrg' => CheckTransfer \/ (HasOrg /\ to' = to)
  BY <1>12 DEF Accept, HasOrg
<1>13. ASSUME NEW i \in Invitations, Withdraw(i)
      PROVE  HasOrg' => CheckTransfer \/ (HasOrg /\ to' = to)
  BY <1>13 DEF Withdraw, HasOrg
<1>14. ASSUME NEW u \in Users, FoundOrganization(u)
      PROVE  HasOrg' => CheckTransfer \/ (HasOrg /\ to' = to)
  BY <1>14 DEF FoundOrganization, HasOrg
<1>15. ASSUME ChangePlan
      PROVE  HasOrg' => CheckTransfer \/ (HasOrg /\ to' = to)
  BY <1>15 DEF ChangePlan, HasOrg
<1>16. ASSUME ClaimTransfer
      PROVE  HasOrg' => CheckTransfer \/ (HasOrg /\ to' = to)
  BY <1>16 DEF ClaimTransfer, WorkerAt, HasOrg
<1>17. ASSUME CancelRenewal
      PROVE  HasOrg' => CheckTransfer \/ (HasOrg /\ to' = to)
  BY <1>17 DEF CancelRenewal, WorkerAt, HasOrg
<1>18. ASSUME CheckTransfer
      PROVE  HasOrg' => CheckTransfer \/ (HasOrg /\ to' = to)
  BY <1>18
<1>19. ASSUME LockRows
      PROVE  HasOrg' => CheckTransfer \/ (HasOrg /\ to' = to)
  BY <1>19 DEF LockRows, WorkerAt, HasOrg
<1>20. ASSUME HandOver
      PROVE  HasOrg' => CheckTransfer \/ (HasOrg /\ to' = to)
  BY <1>20 DEF HandOver, WorkerAt, HasOrg
<1>21. ASSUME WorkerFails
      PROVE  HasOrg' => CheckTransfer \/ (HasOrg /\ to' = to)
  BY <1>21 DEF WorkerFails, WorkerAt, HasOrg
<1>22. ASSUME WorkerDies
      PROVE  HasOrg' => CheckTransfer \/ (HasOrg /\ to' = to)
  BY <1>22 DEF WorkerDies, WorkerAt, HasOrg
<1>23. ASSUME BackoffElapses
      PROVE  HasOrg' => CheckTransfer \/ (HasOrg /\ to' = to)
  BY <1>23 DEF BackoffElapses, HasOrg
<1>24. ASSUME UNCHANGED vars
      PROVE  HasOrg' => CheckTransfer \/ (HasOrg /\ to' = to)
  BY <1>24 DEF vars, HasOrg
<1> QED
  BY <1>1, <1>2, <1>3, <1>4, <1>5, <1>6, <1>7, <1>8, <1>9, <1>10, <1>11, <1>12, <1>13, <1>14,
      <1>15, <1>16, <1>17, <1>18, <1>19, <1>20, <1>21, <1>22, <1>23, <1>24 DEF Next, Progress,
      WorkerProgress

\* The seats do not get fewer while the plan has not lapsed; a late shop adds one.
LEMMA SeatsGrow ==
  ASSUME TypeOK, SeatLimit \in Nat, SeatLimit' \in Nat, SeatLimit <= SeatLimit',
         NEW s \in Shops, s \notin late
  PROVE  /\ late' = late => Seats <= Seats'
         /\ late' = late \cup {s} => Seats + 1 <= Seats'
         /\ Seats \in Nat
<1>1. /\ late \in SUBSET Shops /\ IsFiniteSet(Shops)
      /\ Cardinality(late) \in Nat
  BY TeamFacts, ConstantsAssumption DEF TypeOK
<1>2. Cardinality(late \cup {s}) = Cardinality(late) + 1
  BY <1>1, Counting
<1>3. CASE late' = late
  <2>1. late' # late \cup {s}
    BY <1>3
  <2> QED
    BY <1>1, <1>3, <2>1 DEF Seats
<1>4. CASE late' = late \cup {s}
  BY <1>1, <1>2, <1>4 DEF Seats
<1>5. Seats \in Nat
  BY <1>1 DEF Seats
<1> QED
  BY <1>3, <1>4, <1>5

\* As long as the plan has not lapsed, shops and seats are within it.
LEMMA WithinStep == IInv /\ [Next]_vars => WithinOK'
<1> SUFFICES ASSUME IInv, [Next]_vars, ~lapsed'
             PROVE  Cardinality(open)' <= ShopLimit' /\ Cardinality(Team)' <= Seats'
  BY DEF WithinOK
<1>i. TypeOK /\ WithinOK /\ GrantsOK /\ HandoverOK /\ TargetOK /\ OrgLockOK
  BY DEF IInv
<1>t. TypeOK'
  BY TypeStep
<1>1. /\ ~lapsed /\ ShopLimit <= ShopLimit' /\ SeatLimit <= SeatLimit'
      /\ ShopLimit \in Nat /\ ShopLimit' \in Nat /\ SeatLimit \in Nat /\ SeatLimit' \in Nat
  <2>1. ShopLimit' \in Nat /\ SeatLimit' \in Nat
    BY <1>t, ConstantsAssumption DEF TypeOK, ShopLimit, SeatLimit
  <2> QED
    BY <1>i, <2>1, PlanMoves, LimitFacts
<1>2. Cardinality(open) <= ShopLimit /\ Cardinality(Team) <= Seats
  BY <1>i, <1>1 DEF WithinOK
<1>3. /\ Team \in SUBSET Users /\ Team' \in SUBSET Users /\ IsFiniteSet(Users)
      /\ open \in SUBSET Shops /\ IsFiniteSet(Shops) /\ late \subseteq open
  <2>1. Team' \subseteq Users
    BY <1>t, ConstantsAssumption DEF TypeOK, Team, Members, Invited
  <2> QED
    BY <1>i, <2>1, TeamFacts, ConstantsAssumption DEF TypeOK
<1>4. /\ Cardinality(Team) \in Nat /\ Cardinality(open) \in Nat /\ Seats \in Nat
  BY <1>i, <1>1, TeamFacts DEF Seats
<1>5. late' = late => Seats <= Seats' /\ Seats' \in Nat
  BY <1>i, <1>1, TeamFacts DEF Seats
<1>c. Cardinality(Team)' = Cardinality(Team') /\ Cardinality(open)' = Cardinality(open')
  OBVIOUS
<1>6. CASE Team' \subseteq Team /\ UNCHANGED <<open, late>>
  <2>1. Cardinality(Team') <= Cardinality(Team) /\ Cardinality(Team') \in Nat
    BY <1>3, <1>6, Counting, ConstantsAssumption
  <2> QED
    BY <1>1, <1>2, <1>4, <1>5, <1>6, <1>c, <2>1
<1>7. ASSUME NEW r \in Requests, SeatTaken(r)
      PROVE  Cardinality(open)' <= ShopLimit' /\ Cardinality(Team)' <= Seats'
  <2>1. /\ Seated(r) /\ call[r].op # "add_shop" /\ call[r].user \in Users
        /\ Team' \subseteq Team \cup {call[r].user} /\ UNCHANGED <<open, late>>
    BY <1>7 DEF SeatTaken
  <2>2. /\ Cardinality(Team) <= room[r] /\ room[r] \in Nat
        /\ call[r].user \in Team \/ Cardinality(Team) < room[r]
        /\ room[r] <= Seats
    BY <1>i, <1>1, <2>1 DEF GrantsOK, SeatGrantOK, TypeOK
  <2>3. /\ Cardinality(Team') <= Cardinality(Team) + 1 /\ Cardinality(Team') \in Nat
        /\ call[r].user \in Team => Cardinality(Team') <= Cardinality(Team)
    <3>1. /\ Team' \subseteq Team \cup {call[r].user} /\ call[r].user \in Users
          /\ Team' \in SUBSET Users /\ Team \in SUBSET Users /\ IsFiniteSet(Users)
      BY <1>3, <2>1
    <3>2. call[r].user \in Team => Team' \subseteq Team
      BY <3>1
    <3>3. /\ Cardinality(Team') <= Cardinality(Team) + 1 /\ Cardinality(Team') \in Nat
          /\ Team' \subseteq Team => Cardinality(Team') <= Cardinality(Team)
      BY <3>1, Counting
    <3> QED
      BY <3>2, <3>3
  <2> QED
    BY <1>1, <1>2, <1>4, <1>5, <1>c, <2>1, <2>2, <2>3
<1>8. ASSUME NEW r \in Requests, NEW s \in Shops, ShopAdded(r, s)
      PROVE  Cardinality(open)' <= ShopLimit' /\ Cardinality(Team)' <= Seats'
  <2>1. /\ pc[r] = "granted" /\ call[r].op = "add_shop" /\ call[r].actor \in Users
        /\ s \notin open /\ open' = open \cup {s}
        /\ \/ Team' \subseteq Team /\ late' = late
           \/ Team' \subseteq Team \cup {call[r].actor} /\ late' = late \cup {s}
    BY <1>8 DEF ShopAdded
  <2>2. Cardinality(open) < room[r] /\ room[r] <= ShopLimit /\ room[r] \in Nat
    BY <1>i, <1>1, <2>1 DEF GrantsOK, ShopGrantOK, TypeOK
  <2>3. Cardinality(open') = Cardinality(open) + 1
    BY <1>3, <2>1, Counting
  <2>4. /\ Cardinality(Team') <= Cardinality(Team) + 1 /\ Cardinality(Team') \in Nat
        /\ Team' \subseteq Team => Cardinality(Team') <= Cardinality(Team)
    <3>1. /\ Team' \subseteq Team \cup {call[r].actor} /\ call[r].actor \in Users
          /\ Team' \in SUBSET Users /\ Team \in SUBSET Users /\ IsFiniteSet(Users)
      BY <1>3, <2>1
    <3>2. Cardinality(Team') \in Nat /\ Cardinality(Team') <= Cardinality(Team) + 1
      BY <3>1, Counting
    <3>3. Team' \subseteq Team => Cardinality(Team') <= Cardinality(Team)
      BY <3>1, Counting, ZenonT(30)
    <3> QED
      BY <3>2, <3>3
  <2>5. /\ late' = late => Seats <= Seats'
        /\ late' = late \cup {s} => Seats + 1 <= Seats'
    BY <1>i, <1>1, <1>3, <2>1, SeatsGrow
  <2>6. Seats' \in Nat
    <3>1. IsFiniteSet(late')
      BY <1>t, ConstantsAssumption, FS_Subset DEF TypeOK
    <3>2. Cardinality(late') \in Nat
      BY <3>1, FS_CardinalityType
    <3> QED
      BY <1>1, <3>2 DEF Seats
  <2> QED
    BY <1>1, <1>2, <1>4, <1>c, <2>1, <2>2, <2>3, <2>4, <2>5, <2>6
<1>9. CASE Handed
  <2>1. /\ wpc = "locked" /\ Team' \subseteq Team \cup {to} /\ UNCHANGED <<open, late>>
    BY <1>9 DEF Handed
  <2>2. Cardinality(Team \cup {to}) <= Seats /\ to \in Users
    BY <1>1, <2>1 DEF IInv, TargetOK, HasOrg, TransferOK, InProgress
  <2>3. /\ Cardinality(Team') <= Cardinality(Team \cup {to}) /\ Cardinality(Team') \in Nat
        /\ Cardinality(Team \cup {to}) \in Nat
    <3>1. Team' \in SUBSET Users /\ Team \cup {to} \in SUBSET Users
      BY <1>3, <2>2
    <3>2. Team' \subseteq Team \cup {to}
      BY <2>1
    <3> QED
      BY <1>3, <2>2, <3>1, <3>2, Counting
  <2> QED
    BY <1>1, <1>2, <1>4, <1>5, <1>c, <2>1, <2>2, <2>3
<1> QED
  BY <1>6, <1>7, <1>8, <1>9, TeamMoves

\* What was granted still fits, whatever commits in between.
LEMMA GrantsStep == IInv /\ [Next]_vars => GrantsOK'
<1> SUFFICES ASSUME IInv, [Next]_vars, NEW q \in Requests
             PROVE  ShopGrantOK(q)' /\ SeatGrantOK(q)'
  BY DEF GrantsOK
<1>i. TypeOK /\ WithinOK /\ GrantsOK /\ HandoverOK /\ OrgLockOK
  BY DEF IInv
<1>t. TypeOK' /\ OrgLockOK'
  BY TypeStep, OrgLockStep
<1>1. /\ lapsed' \/ (~lapsed /\ ShopLimit <= ShopLimit' /\ SeatLimit <= SeatLimit')
      /\ ShopLimit \in Nat \ {0} /\ ShopLimit' \in Nat
      /\ SeatLimit \in Nat \ {0} /\ SeatLimit' \in Nat
  <2>1. ShopLimit' \in Nat /\ SeatLimit' \in Nat
    BY <1>t, ConstantsAssumption DEF TypeOK, ShopLimit, SeatLimit
  <2> QED
    BY <1>i, <2>1, PlanMoves, LimitFacts
<1>3. /\ Team \in SUBSET Users /\ Team' \in SUBSET Users /\ IsFiniteSet(Users)
      /\ Cardinality(Team) \in Nat /\ Cardinality(open) \in Nat /\ Cardinality(late) \in Nat
  <2>1. Team' \subseteq Users
    BY <1>t, ConstantsAssumption DEF TypeOK, Team, Members, Invited
  <2> QED
    BY <1>i, <2>1, TeamFacts, ConstantsAssumption DEF TypeOK
<1>c. Cardinality(Team)' = Cardinality(Team') /\ Cardinality(open)' = Cardinality(open')
  OBVIOUS
<1>g. ASSUME pc'[q] = "granted", call'[q].op = "add_shop"
      PROVE  room'[q] > 0
  BY <1>t, <1>g DEF OrgLockOK
<1>4. CASE GrantShop(q)
  <2>1. /\ Cardinality(open) < ShopLimit /\ room'[q] = ShopLimit /\ call' = call
        /\ call[q].op = "add_shop" /\ UNCHANGED <<open, plan, lapsed>>
    BY <1>4, <1>i DEF GrantShop, Proceed, orgVars, planVars, TypeOK
  <2>2. ShopLimit' = ShopLimit
    BY <2>1 DEF ShopLimit
  <2> QED
    BY <1>1, <1>c, <2>1, <2>2 DEF ShopGrantOK, SeatGrantOK
<1>5. CASE GrantSeat(q)
  <2>1. /\ HasSeat(call[q].user) /\ room'[q] = Larger(SeatLimit, Cardinality(Team))
        /\ call' = call
        /\ UNCHANGED <<open, late, live, invitation, plan, lapsed>>
    BY <1>5, <1>i DEF GrantSeat, Proceed, orgVars, memberVars, planVars, TypeOK
  <2>2. Team' = Team /\ Seats' = Seats
    BY <2>1 DEF Team, Members, Invited, Seats, SeatLimit
  <2>3. call[q].op # "add_shop"
    BY <1>5 DEF IInv, GrantSeat, CallsOK, CallOK
  <2>4. /\ SeatLimit <= room'[q] /\ Cardinality(Team) <= room'[q] /\ room'[q] \in Nat
        /\ room'[q] \in {SeatLimit, Cardinality(Team)}
    BY <1>1, <1>3, <2>1 DEF Larger
  <2>5. lapsed \/ room'[q] <= Seats
    BY <1>i, <1>1, <1>3, <2>4 DEF WithinOK, Seats
  <2>6. call[q].user \in Team \/ Cardinality(Team) < room'[q]
    BY <1>1, <1>3, <2>1, <2>4 DEF HasSeat
  <2> QED
    BY <1>c, <2>1, <2>2, <2>3, <2>4, <2>5, <2>6 DEF ShopGrantOK, SeatGrantOK
<1>6. CASE Kept(q)
  <2> SUFFICES ASSUME pc'[q] = "granted", room'[q] > 0
               PROVE  ShopGrantOK(q)' /\ SeatGrantOK(q)'
    BY <1>g DEF ShopGrantOK, SeatGrantOK, Seated
  <2>1. pc[q] = "granted" /\ room'[q] = room[q] /\ call'[q] = call[q] /\ room[q] \in Nat
    BY <1>6, <1>i DEF Kept, TypeOK
  <2>2. Seated(q) /\ orgLock = q
    BY <1>i, <2>1 DEF OrgLockOK, Seated
  <2>3. Team' \subseteq Team /\ UNCHANGED <<open, late>>
    <3>1. ASSUME NEW r \in Requests, SeatTaken(r) PROVE FALSE
      BY <2>2, <3>1 DEF SeatTaken
    <3>2. ASSUME NEW r \in Requests, NEW s \in Shops, ShopAdded(r, s) PROVE FALSE
      BY <2>2, <3>2 DEF ShopAdded
    <3>3. ASSUME Handed PROVE FALSE
      BY <1>i, <2>2, <3>3, ConstantsAssumption DEF Handed, HandoverOK, HasOrg, HandingOver
    <3> QED
      BY <3>1, <3>2, <3>3, TeamMoves
  <2>4. ShopGrantOK(q)'
    BY <1>i, <1>1, <1>c, <2>1, <2>3 DEF GrantsOK, ShopGrantOK
  <2>5. SeatGrantOK(q)'
    <3> SUFFICES ASSUME call[q].op # "add_shop"
                 PROVE  /\ Cardinality(Team') <= room[q]
                        /\ call[q].user \in Team' \/ Cardinality(Team') < room[q]
                        /\ lapsed' \/ room[q] <= Seats'
      BY <1>c, <2>1 DEF SeatGrantOK
    <3>1. /\ Cardinality(Team) <= room[q]
          /\ call[q].user \in Team \/ Cardinality(Team) < room[q]
          /\ lapsed \/ room[q] <= Seats
      BY <1>i, <2>2 DEF GrantsOK, SeatGrantOK
    <3>2. lapsed' \/ room[q] <= Seats'
      BY <1>1, <1>3, <2>1, <2>3, <3>1 DEF Seats
    <3>3. Cardinality(Team') <= Cardinality(Team) /\ Cardinality(Team') \in Nat
      BY <1>3, <2>3, Counting, ConstantsAssumption
    <3>4. call[q].user \in Team \ Team' => Cardinality(Team') < Cardinality(Team)
      BY <1>3, <2>3, Counting
    <3> QED
      BY <1>3, <2>1, <3>1, <3>2, <3>3, <3>4
  <2> QED
    BY <2>4, <2>5
<1> QED
  BY <1>4, <1>5, <1>6, GrantMoves

\* The target of a handover was a member when it was checked, and keeps its seat.
LEMMA TargetStep == IInv /\ [Next]_vars => TargetOK'
<1> SUFFICES ASSUME IInv, [Next]_vars, HasOrg', ~lapsed'
             PROVE  Cardinality(Team' \cup {to'}) <= Seats'
  BY DEF TargetOK
<1>i. TypeOK /\ WithinOK /\ TargetOK /\ HandoverOK /\ OrgLockOK /\ TransferOK
  BY DEF IInv
<1>t. TypeOK'
  BY TypeStep
<1>1. ~lapsed /\ SeatLimit <= SeatLimit' /\ SeatLimit \in Nat /\ SeatLimit' \in Nat
  <2>1. SeatLimit' \in Nat
    BY <1>t, ConstantsAssumption DEF TypeOK, SeatLimit
  <2> QED
    BY <1>i, <2>1, PlanMoves, LimitFacts
<1>3. /\ Team \in SUBSET Users /\ IsFiniteSet(Users)
      /\ Cardinality(Team) \in Nat /\ Cardinality(late) \in Nat
  BY <1>i, TeamFacts, ConstantsAssumption
<1>4. CASE CheckTransfer
  <2>1. /\ \E s \in Shops : MayReceive(s)
        /\ UNCHANGED <<open, late, live, invitation, plan, to>>
    BY <1>4 DEF CheckTransfer, HasOrg, WorkerAt, orgVars, memberVars, planVars
  <2>2. to \in Users
    BY <1>4, <1>i DEF CheckTransfer, TransferOK, InProgress
  <2>3. to \in Team
    BY <2>1, <2>2 DEF MayReceive, Team, Members
  <2>4. Team' = Team /\ Seats' = Seats
    BY <2>1 DEF Team, Members, Invited, Seats, SeatLimit
  <2>5. Team' \cup {to'} = Team
    BY <2>1, <2>3, <2>4
  <2> QED
    BY <1>i, <1>1, <2>4, <2>5 DEF WithinOK
<1>5. CASE HasOrg /\ to' = to
  <2>1. HandingOver /\ Cardinality(Team \cup {to}) <= Seats /\ to \in Users
    BY <1>i, <1>1, <1>5 DEF TargetOK, HandoverOK, TransferOK, InProgress, HasOrg
  <2>2. Team' \subseteq Team /\ late' = late
    <3>1. ASSUME NEW r \in Requests, SeatTaken(r) PROVE FALSE
      BY <2>1, <3>1, ConstantsAssumption DEF SeatTaken, HandingOver
    <3>2. ASSUME NEW r \in Requests, NEW s \in Shops, ShopAdded(r, s) PROVE FALSE
      BY <2>1, <3>2, ConstantsAssumption DEF ShopAdded, HandingOver
    <3>3. ASSUME Handed PROVE FALSE
      BY <3>3 DEF Handed, HasOrg
    <3> QED
      BY <3>1, <3>2, <3>3, TeamMoves
  <2>3. /\ Cardinality(Team' \cup {to}) <= Cardinality(Team \cup {to})
        /\ Cardinality(Team \cup {to}) \in Nat /\ Cardinality(Team' \cup {to}) \in Nat
    BY <1>3, <2>1, <2>2, Counting
  <2>4. Seats <= Seats' /\ Seats \in Nat /\ Seats' \in Nat
    BY <1>1, <1>3, <2>2 DEF Seats
  <2> QED
    BY <1>5, <2>1, <2>3, <2>4
<1> QED
  BY <1>4, <1>5, WorkerMoves

LEMMA InitIInv == Init => IInv
<1> SUFFICES ASSUME Init PROVE IInv
  OBVIOUS
<1>a. /\ FreeShops \in Nat \ {0} /\ ProShops \in Nat \ {0} /\ MaxAttempts \in Nat \ {0}
      /\ MaxArrivals \in Nat /\ MaxFaults \in Nat
      /\ Founder \in Users /\ Home \in Shops /\ None \notin Requests
      /\ Staff \in [Users -> Roles] /\ \A u \in Users : Staff[u] = "OWNER" <=> u = Founder
  BY ConstantsAssumption
<1>1. Members \subseteq Users
  BY DEF Members
<1>2. TypeOK
  <2>1. role \in [Shops \X Users -> Roles]
    BY <1>a DEF Init, Roles
  <2>2. live \in [Shops \X Users -> BOOLEAN]
    BY DEF Init
  <2>3. /\ owner \in Users /\ elsewhere \subseteq Users
        /\ open \subseteq Shops /\ late \subseteq open
        /\ plan \in {"free", "pro"} /\ lapsed \in BOOLEAN
    BY <1>a DEF Init
  <2>4. /\ transfer \in {"none", "pending", "processing", "completed", "failed"}
        /\ from \in Users \cup {None} /\ to \in Users \cup {None}
        /\ attempts \in 0..MaxAttempts /\ due \in BOOLEAN
        /\ wpc = "idle" /\ loaded \in Shops \cup {None}
        /\ arrivals \in 0..MaxArrivals /\ faults \in 0..MaxFaults
    BY <1>a, <1>1 DEF Init
  <2>5. /\ invitation \in [Invitations -> [shop : Shops, user : Users, role : Granted] \cup {None}]
        /\ pc \in [Requests -> {"idle", "begun", "member", "owner", "granted"}]
        /\ room \in [Requests -> Nat]
        /\ orgLock \in Requests \cup {None}
        /\ memberLock \in [Shops \X Users -> Requests \cup {None}]
    BY DEF Init
  <2> QED
    BY <2>1, <2>2, <2>3, <2>4, <2>5 DEF TypeOK
<1>3. CallsOK /\ OrgLockOK /\ UpdatesOK
  <2>1. Idle \in Calls
    BY IdleCall
  <2>2. \A r \in Requests : pc[r] = "idle" /\ call[r] = Idle /\ room[r] = 0 /\ orgLock # r
    BY <1>a DEF Init
  <2>3. call \in [Requests -> Calls]
    BY <2>1 DEF Init
  <2>4. Idle.op = "none"
    BY DEF Idle
  <2> QED
    BY <2>2, <2>3, <2>4 DEF CallsOK, CallOK, OrgLockOK, Seated, UpdatesOK, UpdateOK
<1>4. RolesOK /\ OwnerRunsEveryShop
  <2>1. \A s \in Shops, u \in Users :
          role[<<s, u>>] = IF s = Home THEN Staff[u] ELSE "none"
    BY DEF Init
  <2>2. \A s \in Shops, u \in Users :
          live[<<s, u>>] => s = Home /\ Staff[u] # "none"
    BY DEF Init
  <2>3. open = {Home} /\ late = {} /\ owner = Founder
    BY DEF Init
  <2>4. RolesOK
    <3> SUFFICES ASSUME NEW m \in Shops \X Users
                 PROVE  /\ live[m] => role[m] # "none"
                        /\ m[1] \notin open => role[m] = "none"
      BY <2>3 DEF RolesOK
    <3> PICK s \in Shops, u \in Users : m = <<s, u>>
      OBVIOUS
    <3> QED
      BY <2>1, <2>2, <2>3
  <2> QED
    BY <1>a, <2>1, <2>3, <2>4 DEF OwnerRunsEveryShop
<1>5. InvitedOK /\ HandoverOK /\ ElsewhereOK /\ TargetOK
  BY DEF Init, InvitedOK, HandoverOK, HasOrg, ElsewhereOK, TargetOK
<1>6. TransferOK
  BY <1>a, <1>1 DEF Init, TransferOK, InProgress
<1>7. WithinOK
  <2>1. Invited = {}
    BY DEF Init, Invited
  <2>2. Team = Members
    BY <2>1 DEF Team
  <2>3. Cardinality(open) = 1 /\ Cardinality(late) = 0
    BY FS_Singleton, FS_EmptySet DEF Init
  <2>4. 1 <= ShopLimit
    BY <1>a DEF ShopLimit
  <2>5. SeatLimit + 0 = SeatLimit
    BY <1>2, LimitFacts
  <2> QED
    BY <2>2, <2>3, <2>4, <2>5 DEF Init, WithinOK, Seats
<1>8. GrantsOK
  BY DEF Init, GrantsOK, ShopGrantOK, SeatGrantOK, Seated
<1> QED
  BY <1>2, <1>3, <1>4, <1>5, <1>6, <1>7, <1>8 DEF IInv

LEMMA IInvHolds == Spec => []IInv
<1>1. IInv /\ [Next]_vars => IInv'
  BY TypeStep, CallsStep, OrgLockStep, UpdatesStep, RolesStep, InvitedStep, TransferStep,
     HandoverStep, OwnerStep, ElsewhereStep, WithinStep, GrantsStep, TargetStep
  DEF IInv
<1> QED
  BY <1>1, InitIInv, PTL DEF Spec

-----------------------------------------------------------------------------
\* For any organization, any numbers of requests, invitations and limits: what an
\* operation was granted under the lock of the organization still fits when it commits,
\* and until the plan lapses there are no more shops than it allows, nor more people
\* than it has seats, but for those whom a shop added late brings back.
THEOREM SeatsAndShopsHold == Spec => []SeatsAndShops
<1>1. IInv => SeatsAndShops
  <2> SUFFICES ASSUME IInv PROVE SeatsAndShops
    OBVIOUS
  <2>i. TypeOK /\ OrgLockOK /\ WithinOK /\ GrantsOK
    BY DEF IInv
  <2>1. GrantStillFits
    <3> SUFFICES ASSUME NEW r \in Requests, pc[r] = "granted"
                 PROVE  /\ call[r].op = "add_shop" => Cardinality(open) < room[r]
                        /\ call[r].op # "add_shop" /\ room[r] > 0 =>
                             call[r].user \in Team \/ Cardinality(Team) < room[r]
      BY DEF GrantStillFits
    <3> QED
      BY <2>i DEF GrantsOK, ShopGrantOK, SeatGrantOK, Seated
  <2>2. WithinPlan
    BY <2>i DEF WithinOK, WithinPlan, Team, Seats
  <2> QED
    BY <2>i, <2>1, <2>2 DEF SeatsAndShops
<1> QED
  BY <1>1, IInvHolds, PTL

\* The owner is the OWNER of every shop and nobody else is, through handovers, requests
\* that they overtake and deaths of the worker; whoever owns two organizations had left
\* a shop of this one.
THEOREM OwnershipHolds == Spec => []Ownership
<1>1. IInv => Ownership
  <2> SUFFICES ASSUME IInv PROVE Ownership
    OBVIOUS
  <2>1. OwnerRunsEveryShop /\ ElsewhereOK
    BY DEF IInv
  <2>2. OwnersOwnOne
    BY <2>1 DEF ElsewhereOK, OwnersOwnOne
  <2> QED
    BY <2>1, <2>2 DEF Ownership
<1> QED
  BY <1>1, IInvHolds, PTL
=============================================================================
