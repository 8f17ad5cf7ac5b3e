-------------------------- MODULE OrganizationTeam --------------------------
(***************************************************************************)
(* One organization: its shops, memberships and invitations                *)
(* (app/modules/shops, auth/routes.py), the limits its plan sets on shops  *)
(* and on distinct people (subscriptions/service.py), and the worker that  *)
(* hands it to another owner (app/jobs/ownership_transfers.py).            *)
(*                                                                         *)
(* A step is one locking statement or the commit of one transaction, one   *)
(* call of Google Play, or the death of the worker.  A request knows its   *)
(* caller's role and the organization's owner from before any lock, when   *)
(* get_shop_context loaded them; the ORM does not read a row again that it *)
(* has already loaded, even when a later statement locks the row.          *)
(*                                                                         *)
(* Definitions whose name ends in _Mutant are plausible bugs of the one    *)
(* that follows them; the runs' properties are shown to reject them.       *)
(***************************************************************************)
EXTENDS Naturals, FiniteSets

CONSTANTS
  Users, Shops, Requests, Invitations,
  None,         \* Python's None
  Founder,      \* who registered the organization
  Home,         \* its primary shop
  Staff,        \* the roles of the users in the primary shop at the start
  FreeShops, ProShops, FreeSeats, ProSeats,  \* the limits in the settings
  MaxAttempts,  \* MAX_TRANSFER_ATTEMPTS
  MaxArrivals,  \* bound: requests in a behaviour
  MaxFaults     \* bound: deaths of the worker in a behaviour

Granted == {"ADMIN", "STAFF"}  \* MANAGER and CASHIER are alike here
Roles == {"OWNER", "none"} \cup Granted

ASSUME ConstantsAssumption ==
  /\ IsFiniteSet(Users) /\ IsFiniteSet(Shops)
  /\ Founder \in Users /\ Home \in Shops
  /\ None \notin Users \cup Shops \cup Requests
  /\ Staff \in [Users -> Roles]
  /\ \A u \in Users : Staff[u] = "OWNER" <=> u = Founder
  /\ {FreeShops, ProShops, FreeSeats, ProSeats, MaxAttempts} \subseteq Nat \ {0}
  /\ FreeShops <= ProShops /\ FreeSeats <= ProSeats
  /\ {MaxArrivals, MaxFaults} \subseteq Nat

VARIABLES
  \* Organization.owner_user_id; its shops; those added by a request whose copy
  \* of the owner, or of its own membership, was outdated (a history variable);
  \* owners of another one
  owner, open, late, elsewhere,
  \* ShopMembership.role and .is_active
  role, live,
  \* open invitations: shop, e-mail and role
  invitation,
  \* the plan in force; it has lapsed before (a history variable)
  plan, lapsed,
  \* the latest OrganizationOwnershipTransfer
  transfer, from, to, attempts, due,
  \* the worker: its next step; the shop of the membership it has loaded
  wpc, loaded,
  \* running requests: next step, what is asked and was read, seats left over
  pc, call, room,
  \* row locks of requests
  orgLock, memberLock,
  arrivals, faults

orgVars == <<owner, open, late, elsewhere>>
memberVars == <<role, live>>
planVars == <<plan, lapsed>>
transferVars == <<transfer, from, to, attempts, due>>
workerVars == <<wpc, loaded>>
requestVars == <<pc, call, room>>
lockVars == <<orgLock, memberLock>>
boundVars == <<arrivals, faults>>
vars == <<orgVars, memberVars, invitation, planVars, transferVars, workerVars,
          requestVars, lockVars, boundVars>>

Larger(m, n) == IF m >= n THEN m ELSE n

\* resolve_entitlement
ShopLimit == IF plan = "pro" THEN ProShops ELSE FreeShops
SeatLimit == IF plan = "pro" THEN ProSeats ELSE FreeSeats

Members == {u \in Users : \E s \in open : live[<<s, u>>]}
Invited == {invitation[i].user : i \in {j \in Invitations : invitation[j] # None}}

Team_Mutant == Members  \* a pending invitation does not reserve its seat

\* organization_team_emails
Team == Members \cup Invited

Idle == [op |-> "none", actor |-> None, shop |-> None, role |-> "none", owner |-> None,
         user |-> None, grant |-> "none", active |-> "same"]

InProgress == {"pending", "processing"}

-----------------------------------------------------------------------------
\* Some of the staff may have left, and the owner may have asked for a transfer.
Init ==
  /\ owner = Founder
  /\ open = {Home}
  /\ late = {} /\ elsewhere = {}
  /\ role = [m \in Shops \X Users |-> IF m[1] = Home THEN Staff[m[2]] ELSE "none"]
  /\ \E left \in SUBSET {u \in Users : Staff[u] \in Granted} :
       live = [m \in Shops \X Users |->
                 m[1] = Home /\ Staff[m[2]] # "none" /\ m[2] \notin left]
  /\ invitation = [i \in Invitations |-> None]
  /\ plan \in {"free", "pro"}
  /\ Cardinality(Members) <= SeatLimit
  /\ lapsed = FALSE
  /\ \/ transfer = "none" /\ from = None /\ to = None
     \/ transfer = "pending" /\ from = Founder /\ to \in Members \ {Founder}
  /\ attempts = 0 /\ due = TRUE
  /\ wpc = "idle" /\ loaded = None
  /\ pc = [r \in Requests |-> "idle"]
  /\ call = [r \in Requests |-> Idle]
  /\ room = [r \in Requests |-> 0]
  /\ orgLock = None
  /\ memberLock = [m \in Shops \X Users |-> None]
  /\ arrivals = 0 /\ faults = 0

-----------------------------------------------------------------------------
(* Requests.                                                                *)

\* The caller is admitted to the shop, with a role that the route allows.
Begin(r, c, allowed) ==
  /\ pc[r] = "idle"
  /\ arrivals < MaxArrivals
  /\ c.shop \in open /\ live[<<c.shop, c.actor>>]
  /\ c.role = role[<<c.shop, c.actor>>] /\ c.role \in allowed
  /\ c.owner = owner
  /\ pc' = [pc EXCEPT ![r] = "begun"]
  /\ call' = [call EXCEPT ![r] = c]
  /\ arrivals' = arrivals + 1
  /\ UNCHANGED <<room, faults>>
  /\ UNCHANGED <<orgVars, memberVars, invitation, planVars, transferVars, workerVars,
                 lockVars>>

Asks(op, u, s) ==
  [Idle EXCEPT !.op = op, !.actor = u, !.shop = s, !.role = role[<<s, u>>], !.owner = owner]

BeginAddShop(r, u, s) ==
  owner = u /\ Begin(r, Asks("add_shop", u, s), {"OWNER"})

BeginUpdate(r, u, s, user, grant, active) ==
  /\ <<grant, active>> # <<"none", "same">>
  /\ Begin(r, [Asks("update", u, s) EXCEPT !.user = user, !.grant = grant, !.active = active],
           {"OWNER", "ADMIN"})

\* Not for somebody who is or was a member; an administrator only by an owner.
BeginInvite(r, u, s, user, grant) ==
  /\ grant \in Granted
  /\ grant = "ADMIN" => role[<<s, u>>] = "OWNER"
  /\ role[<<s, user>>] = "none"
  /\ Begin(r, [Asks("invite", u, s) EXCEPT !.user = user, !.grant = grant], {"OWNER", "ADMIN"})

BeginTransfer(r, u, s, user) ==
  /\ user # u
  /\ Begin(r, [Asks("transfer", u, s) EXCEPT !.user = user], {"OWNER"})

OrgFree == orgLock = None /\ wpc \notin {"checked", "locked"}

Proceed(r, step) ==
  pc' = [pc EXCEPT ![r] = step] /\ UNCHANGED <<call, orgVars, memberVars, invitation,
    planVars, transferVars, workerVars, boundVars>>

\* enforce_shop_creation_limit
GrantShop(r) ==
  /\ pc[r] = "begun" /\ call[r].op = "add_shop"
  /\ OrgFree
  /\ Cardinality(open) < ShopLimit
  /\ orgLock' = r
  /\ room' = [room EXCEPT ![r] = ShopLimit]
  /\ Proceed(r, "granted")
  /\ UNCHANGED memberLock

HasSeat(user) == user \in Team \/ Cardinality(Team) < SeatLimit

GrantSeat_Mutant(r) ==  \* the organization is not locked
  /\ \/ pc[r] = "begun" /\ call[r].op = "invite"
     \/ pc[r] = "member"
  /\ HasSeat(call[r].user)
  /\ room' = [room EXCEPT ![r] = Larger(SeatLimit, Cardinality(Team))]
  /\ Proceed(r, "granted")
  /\ UNCHANGED <<orgLock, memberLock>>

\* enforce_team_seat_limit
GrantSeat(r) ==
  /\ \/ pc[r] = "begun" /\ call[r].op = "invite"
     \/ pc[r] = "member"
  /\ OrgFree
  /\ HasSeat(call[r].user)
  /\ orgLock' = r
  /\ room' = [room EXCEPT ![r] = Larger(SeatLimit, Cardinality(Team))]
  /\ Proceed(r, "granted")
  /\ UNCHANGED memberLock

\* Nobody's own membership: that row is the copy, and its role refuses both.
MayUpdate(c) ==
  /\ role[<<c.shop, c.user>>] \notin {"none", "OWNER"}
  /\ c.user # c.actor
  /\ c.role # "OWNER" => role[<<c.shop, c.user>>] # "ADMIN" /\ c.grant # "ADMIN"

LockMember_Mutant(r) ==  \* the membership is read without a lock
  LET c == call[r] IN
  /\ pc[r] = "begun" /\ c.op = "update"
  /\ MayUpdate(c)
  /\ Proceed(r, IF c.active = "on" /\ ~live[<<c.shop, c.user>>] THEN "member" ELSE "granted")
  /\ UNCHANGED <<orgLock, memberLock, room>>

\* update_member locks the membership; a reactivation goes on to ask for a seat.
LockMember(r) ==
  LET c == call[r] IN
  /\ pc[r] = "begun" /\ c.op = "update"
  /\ memberLock[<<c.shop, c.user>>] = None /\ wpc # "locked"
  /\ MayUpdate(c)
  /\ memberLock' = [memberLock EXCEPT ![<<c.shop, c.user>>] = r]
  /\ Proceed(r, IF c.active = "on" /\ ~live[<<c.shop, c.user>>] THEN "member" ELSE "granted")
  /\ UNCHANGED <<orgLock, room>>

\* _request_ownership_transfer: the owner compared is the copy.
LockOrganization(r) ==
  /\ pc[r] = "begun" /\ call[r].op = "transfer"
  /\ OrgFree
  /\ call[r].owner = call[r].actor
  /\ orgLock' = r
  /\ Proceed(r, "owner")
  /\ UNCHANGED <<memberLock, room>>

\* A unique index refuses what the query for pending transfers does not see.
MayBeTarget(c) ==
  live[<<c.shop, c.user>>] /\ c.user \notin elsewhere /\ transfer \notin InProgress

LockTarget(r) ==
  LET c == call[r] IN
  /\ pc[r] = "owner"
  /\ memberLock[<<c.shop, c.user>>] = None
  /\ MayBeTarget(c)
  /\ memberLock' = [memberLock EXCEPT ![<<c.shop, c.user>>] = r]
  /\ Proceed(r, "granted")
  /\ UNCHANGED <<orgLock, room>>

Release(r) ==
  /\ orgLock' = IF orgLock = r THEN None ELSE orgLock
  /\ memberLock' = [m \in Shops \X Users |-> IF memberLock[m] = r THEN None ELSE memberLock[m]]

Finish_Mutant(r) ==  \* the organization stays locked
  /\ pc' = [pc EXCEPT ![r] = "idle"]
  /\ call' = [call EXCEPT ![r] = Idle]
  /\ room' = [room EXCEPT ![r] = 0]
  /\ memberLock' = [m \in Shops \X Users |-> IF memberLock[m] = r THEN None ELSE memberLock[m]]
  /\ UNCHANGED orgLock
  /\ UNCHANGED <<planVars, workerVars, boundVars>>

Finish(r) ==
  /\ pc' = [pc EXCEPT ![r] = "idle"]
  /\ call' = [call EXCEPT ![r] = Idle]
  /\ room' = [room EXCEPT ![r] = 0]
  /\ Release(r)
  /\ UNCHANGED <<planVars, workerVars, boundVars>>

\* create_shop
CommitAddShop(r, s) ==
  LET c == call[r] IN
  /\ pc[r] = "granted" /\ c.op = "add_shop"
  /\ s \notin open
  /\ open' = open \cup {s}
  /\ late' = IF c.owner # owner \/ ~live[<<c.shop, c.actor>>] THEN late \cup {s} ELSE late
  /\ role' = [role EXCEPT ![<<s, c.actor>>] = "OWNER"]
  /\ live' = [live EXCEPT ![<<s, c.actor>>] = TRUE]
  /\ Finish(r)
  /\ UNCHANGED <<owner, elsewhere, invitation, transferVars>>

CommitUpdate(r) ==
  LET c == call[r] IN
  /\ pc[r] = "granted" /\ c.op = "update"
  /\ role' = [role EXCEPT ![<<c.shop, c.user>>] = IF c.grant = "none" THEN @ ELSE c.grant]
  /\ live' = [live EXCEPT ![<<c.shop, c.user>>] = IF c.active = "same" THEN @ ELSE c.active = "on"]
  /\ Finish(r)
  /\ UNCHANGED <<orgVars, invitation, transferVars>>

CommitInvite(r, i) ==
  LET c == call[r] IN
  /\ pc[r] = "granted" /\ c.op = "invite"
  /\ invitation[i] = None
  /\ invitation' = [invitation EXCEPT ![i] = [shop |-> c.shop, user |-> c.user, role |-> c.grant]]
  /\ Finish(r)
  /\ UNCHANGED <<orgVars, memberVars, transferVars>>

CommitTransfer(r) ==
  LET c == call[r] IN
  /\ pc[r] = "granted" /\ c.op = "transfer"
  /\ transfer' = "pending" /\ from' = c.actor /\ to' = c.user
  /\ attempts' = 0 /\ due' = TRUE
  /\ Finish(r)
  /\ UNCHANGED <<orgVars, memberVars, invitation>>

\* An error, a refusal, a timeout, a client that is gone, a deadlock's victim.
Rollback(r) ==
  /\ pc[r] # "idle"
  /\ Finish(r)
  /\ UNCHANGED <<orgVars, memberVars, invitation, transferVars>>

\* _accept_invitation: an existing membership stays as it is.  The new row waits
\* for a handover that has locked the shop.
Accept(i) ==
  LET a == invitation[i] IN
  /\ a # None
  /\ \/ /\ role[<<a.shop, a.user>>] = "none" /\ wpc # "locked"
        /\ role' = [role EXCEPT ![<<a.shop, a.user>>] = a.role]
        /\ live' = [live EXCEPT ![<<a.shop, a.user>>] = TRUE]
     \/ /\ role[<<a.shop, a.user>>] # "none"
        /\ UNCHANGED memberVars
  /\ invitation' = [invitation EXCEPT ![i] = None]
  /\ UNCHANGED <<orgVars, planVars, transferVars, workerVars, requestVars, lockVars, boundVars>>

\* It is revoked, or seven days have passed.
Withdraw(i) ==
  /\ invitation[i] # None
  /\ invitation' = [invitation EXCEPT ![i] = None]
  /\ UNCHANGED <<orgVars, memberVars, planVars, transferVars, workerVars, requestVars,
                 lockVars, boundVars>>

\* google_auth: somebody who has left, without an active membership, opens a shop.
FoundOrganization(u) ==
  /\ u \notin Members \cup elsewhere
  /\ \E s \in open : role[<<s, u>>] # "none"
  /\ elsewhere' = elsewhere \cup {u}
  /\ UNCHANGED <<owner, open, late, memberVars, invitation, planVars, transferVars, workerVars,
                 requestVars, lockVars, boundVars>>

\* A purchase, or its end, which is followed no further.
ChangePlan ==
  /\ ~lapsed
  /\ plan' = IF plan = "pro" THEN "free" ELSE "pro"
  /\ lapsed' = (plan = "pro")
  /\ UNCHANGED <<orgVars, memberVars, invitation, transferVars, workerVars, requestVars,
                 lockVars, boundVars>>

-----------------------------------------------------------------------------
(* The worker, which claims a transfer without a lease.                     *)

WorkerAt(step) ==
  wpc' = step /\ UNCHANGED <<invitation, planVars, requestVars, lockVars>>

ClaimTransfer ==
  /\ wpc = "idle"
  /\ transfer = "pending" /\ due
  /\ transfer' = "processing"
  /\ attempts' = attempts + 1
  /\ WorkerAt("claimed")
  /\ UNCHANGED <<orgVars, memberVars, from, to, due, loaded, boundVars>>

\* Google Play stops renewing the subscriptions that are active.
CancelRenewal ==
  /\ wpc = "claimed"
  /\ WorkerAt("cancelled")
  /\ UNCHANGED <<orgVars, memberVars, transferVars, loaded, boundVars>>

MayReceive_Mutant(s) ==  \* the other organization is only looked for on request
  owner = from /\ s \in open /\ live[<<s, to>>]

MayReceive(s) ==
  owner = from /\ s \in open /\ live[<<s, to>>] /\ to \notin elsewhere

\* _complete_transfer locks the organization and loads one active membership of
\* the target, or gives up.
CheckTransfer ==
  /\ wpc = "cancelled" /\ OrgFree
  /\ \/ \E s \in Shops :
          /\ MayReceive(s)
          /\ loaded' = s
          /\ WorkerAt("checked")
          /\ UNCHANGED transfer
     \/ /\ ~\E s \in Shops : MayReceive(s)
        /\ transfer' = "failed"
        /\ WorkerAt("idle")
        /\ UNCHANGED loaded
  /\ UNCHANGED <<orgVars, memberVars, from, to, attempts, due, boundVars>>

\* All shops and memberships are locked.
LockRows ==
  /\ wpc = "checked"
  /\ \A s \in open, u \in Users : memberLock[<<s, u>>] = None
  /\ WorkerAt("locked")
  /\ UNCHANGED <<orgVars, memberVars, transferVars, loaded, boundVars>>

\* The membership loaded before the locks is taken for active: is_active is not
\* written to it.
HandOver ==
  /\ wpc = "locked"
  /\ role' = [m \in Shops \X Users |->
                CASE m[1] \notin open -> role[m]
                  [] m[1] \in open /\ m[2] = to -> "OWNER"
                  [] m[1] \in open /\ m[2] = from /\ role[m] = "OWNER" -> "ADMIN"
                  [] OTHER -> role[m]]
  /\ live' = [m \in Shops \X Users |->
                live[m] \/ (m[1] \in open \ {loaded} /\ m[2] = to)]
  /\ owner' = to
  /\ transfer' = "completed"
  /\ loaded' = None
  /\ WorkerAt("idle")
  /\ UNCHANGED <<open, late, elsewhere, from, to, attempts, due, boundVars>>

WorkerFails_Mutant ==  \* the last attempt is counted one too late
  /\ wpc # "idle"
  /\ transfer' = IF attempts > MaxAttempts THEN "failed" ELSE "pending"
  /\ due' = (attempts > MaxAttempts)
  /\ loaded' = None
  /\ WorkerAt("idle")
  /\ UNCHANGED <<orgVars, memberVars, from, to, attempts, boundVars>>

Forgotten_Mutant ==  \* the error is logged and nothing else
  /\ wpc # "idle"
  /\ loaded' = None
  /\ WorkerAt("idle")
  /\ UNCHANGED <<orgVars, memberVars, transferVars, boundVars>>

\* Google Play or the database fails: _retry_or_fail.
WorkerFails ==
  /\ wpc # "idle"
  /\ transfer' = IF attempts >= MaxAttempts THEN "failed" ELSE "pending"
  /\ due' = (attempts >= MaxAttempts)
  /\ loaded' = None
  /\ WorkerAt("idle")
  /\ UNCHANGED <<orgVars, memberVars, from, to, attempts, boundVars>>

\* Nothing claims the transfer again.
WorkerDies ==
  /\ wpc # "idle"
  /\ faults < MaxFaults
  /\ faults' = faults + 1
  /\ loaded' = None
  /\ WorkerAt("idle")
  /\ UNCHANGED <<orgVars, memberVars, transferVars, arrivals>>

BackoffElapses ==
  /\ transfer = "pending" /\ ~due
  /\ due' = TRUE
  /\ UNCHANGED <<transfer, from, to, attempts>>
  /\ UNCHANGED <<orgVars, memberVars, invitation, planVars, workerVars, requestVars,
                 lockVars, boundVars>>

-----------------------------------------------------------------------------
BeginAny(r) ==
  \E u \in Users, s \in open :
    \/ BeginAddShop(r, u, s)
    \/ \E user \in Users :
         \/ BeginTransfer(r, u, s, user)
         \/ \E grant \in Granted : BeginInvite(r, u, s, user, grant)
         \/ \E grant \in Granted \cup {"none"}, active \in {"same", "on", "off"} :
              BeginUpdate(r, u, s, user, grant, active)

Progress(r) ==
  \/ GrantShop(r) \/ GrantSeat(r) \/ LockMember(r) \/ LockOrganization(r) \/ LockTarget(r)
  \/ CommitUpdate(r) \/ CommitTransfer(r)
  \/ \E s \in Shops : CommitAddShop(r, s)
  \/ \E i \in Invitations : CommitInvite(r, i)

WorkerProgress == CancelRenewal \/ CheckTransfer \/ LockRows \/ HandOver

Next ==
  \/ \E r \in Requests : BeginAny(r) \/ Progress(r) \/ Rollback(r)
  \/ \E i \in Invitations : Accept(i) \/ Withdraw(i)
  \/ \E u \in Users : FoundOrganization(u)
  \/ ChangePlan
  \/ ClaimTransfer \/ WorkerProgress \/ WorkerFails \/ WorkerDies \/ BackoffElapses

Spec == Init /\ [][Next]_vars

\* A check fails, or the instance has no row left to create.
Refused(r) ==
  LET c == call[r]
      memberFree == memberLock[<<c.shop, c.user>>] = None /\ wpc # "locked"
  IN
  \/ /\ pc[r] = "begun" /\ c.op = "add_shop"
     /\ OrgFree /\ Cardinality(open) >= ShopLimit
  \/ /\ pc[r] = "member" \/ (pc[r] = "begun" /\ c.op = "invite")
     /\ OrgFree /\ ~HasSeat(c.user)
  \/ pc[r] = "begun" /\ c.op = "update" /\ memberFree /\ ~MayUpdate(c)
  \/ pc[r] = "begun" /\ c.op = "transfer" /\ OrgFree /\ c.owner # c.actor
  \/ pc[r] = "owner" /\ memberFree /\ ~MayBeTarget(c)
  \/ pc[r] = "granted" /\ c.op = "add_shop" /\ open = Shops
  \/ pc[r] = "granted" /\ c.op = "invite" /\ \A i \in Invitations : invitation[i] # None

\* It waits for the organization and holds a row that the organization's holder
\* waits for.
Deadlocked(r) ==
  /\ pc[r] = "member"
  /\ \/ wpc = "checked"
     \/ \E q \in Requests :
          pc[q] = "owner" /\ memberLock[<<call[q].shop, call[q].user>>] = r

\* Coroutines and the worker run on, locks are granted, time passes, and a
\* transaction that is refused or is part of a lock cycle is rolled back.
Fairness ==
  /\ \A r \in Requests :
       WF_vars(Progress(r) \/ ((Refused(r) \/ Deadlocked(r)) /\ Rollback(r)))
  /\ WF_vars(ClaimTransfer) /\ WF_vars(WorkerProgress) /\ WF_vars(BackoffElapses)

FairSpec == Spec /\ Fairness

-----------------------------------------------------------------------------
TypeOK ==
  /\ owner \in Users /\ open \subseteq Shops /\ late \subseteq open /\ elsewhere \subseteq Users
  /\ role \in [Shops \X Users -> Roles]
  /\ live \in [Shops \X Users -> BOOLEAN]
  /\ invitation \in [Invitations -> [shop : Shops, user : Users, role : Granted] \cup {None}]
  /\ plan \in {"free", "pro"} /\ lapsed \in BOOLEAN
  /\ transfer \in {"none", "pending", "processing", "completed", "failed"}
  /\ from \in Users \cup {None} /\ to \in Users \cup {None}
  /\ attempts \in 0..MaxAttempts /\ due \in BOOLEAN
  /\ wpc \in {"idle", "claimed", "cancelled", "checked", "locked"}
  /\ loaded \in Shops \cup {None}
  /\ pc \in [Requests -> {"idle", "begun", "member", "owner", "granted"}]
  /\ room \in [Requests -> Nat]
  /\ orgLock \in Requests \cup {None}
  /\ memberLock \in [Shops \X Users -> Requests \cup {None}]
  /\ arrivals \in 0..MaxArrivals /\ faults \in 0..MaxFaults

\* The organization's owner is the OWNER of each of its shops and nobody else
\* is, whatever updates, invitations and new shops a handover overlaps with.
\* Only a shop added by a request that the handover overtook keeps the old one.
OwnerRunsEveryShop ==
  \A s \in open \ late, u \in Users : role[<<s, u>>] = "OWNER" <=> u = owner

\* A seat or a shop that was granted is still there at the commit: nothing that
\* commits in between takes it.
GrantStillFits ==
  \A r \in Requests :
    pc[r] = "granted" =>
      IF call[r].op = "add_shop" THEN Cardinality(open) < room[r]
      ELSE room[r] > 0 => call[r].user \in Team \/ Cardinality(Team) < room[r]

\* As long as the plan has not lapsed, the organization has no more shops than
\* the plan allows, and no more people, counting each once over all shops and
\* counting those who are only invited.  A shop added late can bring back one who
\* had left, and whose seat was given away: no other step exceeds the seats.
WithinPlan ==
  \/ lapsed
  \/ /\ Cardinality(open) <= ShopLimit
     /\ Cardinality(Members \cup Invited) <= SeatLimit + Cardinality(late)

\* Nobody becomes the owner of a second organization, unless they lost their
\* last membership, and founded one, while the handover to them was running.
OwnersOwnOne ==
  owner \in elsewhere => \E s \in open : ~live[<<s, owner>>]

\* A transfer ends, completed or failed; only the death of the worker during an
\* attempt leaves it in progress.
TransferSettles ==
  transfer = "pending" ~>
    \/ transfer \in {"completed", "failed"}
    \/ transfer = "processing" /\ wpc = "idle" /\ faults > 0

\* No lock order, refusal or handover keeps a request waiting for ever.
RequestsEnd ==
  \A r \in Requests : pc[r] # "idle" ~> pc[r] = "idle"

\* docs/PERMISSIONS.md: "An Owner membership cannot be edited or deactivated."
OwnerMembershipIsActive ==
  \A s \in open : role[<<s, owner>>] = "OWNER" => live[<<s, owner>>]

\* README.md: "Aurum Cloud Pro supports up to 3 shops and 10 distinct organization
\* seats".  A shop added late brings back an owner who has left meanwhile.
SeatsWithinPlan ==
  lapsed \/ Cardinality(Members \cup Invited) <= SeatLimit
-----------------------------------------------------------------------------
(* The properties as the run checks them.                                   *)

\* Shops and seats: types, grants that still fit when they commit, and an organization
\* within its plan.
SeatsAndShops == TypeOK /\ GrantStillFits /\ WithinPlan

\* Ownership: one owner, the same in every shop, of one organization.
Ownership == OwnerRunsEveryShop /\ OwnersOwnOne

\* Progress of the transfer and of the requests.
Settles == TransferSettles /\ RequestsEnd
=============================================================================
