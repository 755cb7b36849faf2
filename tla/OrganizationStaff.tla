---------------------------- MODULE OrganizationStaff ----------------------------
(***************************************************************************)
(* The members of one business (apps/api/src/tenancy): invitations by      *)
(* e-mail, their acceptance, suspension, reinstatement and removal.  No    *)
(* step of these handlers runs in a transaction: the controller reads the  *)
(* actor's membership, the service reads what it checks, and each write is *)
(* an update of its own.  A user stands for his normalised e-mail address, *)
(* and the audit rows, which nothing reads back, are left out.             *)
(***************************************************************************)
EXTENDS Naturals, FiniteSets

CONSTANTS
  User,        \* users, one e-mail address each
  Invitation,  \* rows of staff_invitations that may come to exist
  Handler,     \* API requests in flight at one time
  None         \* NULL

ASSUME StaffAssumption == None \notin User /\ User # {}

VARIABLES
  founder,  \* the user who created the business
  role,     \* business_memberships.role, "NONE" where there is no row
  status,   \* business_memberships.status
  state,    \* staff_invitations.status, "NONE" before the insert
  letter,   \* email, role and invitedById of an invitation
  expired,  \* invitations whose expiresAt has passed
  mem       \* what each handler in flight remembers

memberVars == <<role, status>>
invitationVars == <<state, letter, expired>>
vars == <<founder, memberVars, invitationVars, mem>>

Role == {"OWNER", "MANAGER", "STAFF"}
Status == {"ACTIVE", "SUSPENDED"}
State == {"NONE", "PENDING", "ACCEPTED", "REVOKED"}
Letter == [to : User, role : Role, by : User]

Idle == [at |-> "idle"]
ActorMem  == [at : {"authorized"}, actor : User, role : Role]
TargetMem == [at : {"countOwners", "write"}, op : {"suspend", "reinstate", "remove"},
              target : User, by : Role]
InviteMem == [at : {"revokePending", "createInvitation"}, letter : Letter]
AcceptMem == [at : {"upsert", "markAccepted"}, invitation : Invitation, user : User]

TypeOK ==
  /\ founder \in User
  /\ role \in [User -> Role \cup {"NONE"}]
  /\ status \in [User -> Status]
  /\ state \in [Invitation -> State]
  /\ letter \in [Invitation -> Letter \cup {None}]
  /\ expired \subseteq Invitation
  /\ mem \in [Handler -> {Idle} \cup ActorMem \cup TargetMem \cup InviteMem \cup AcceptMem]

---------------------------------------------------------------------------
Remember(h, r) == mem' = [mem EXCEPT ![h] = r]
Finish(h) == Remember(h, Idle)

IsActive(u) == role[u] # "NONE" /\ status[u] = "ACTIVE"
ActiveOwners == {u \in User : role[u] = "OWNER" /\ status[u] = "ACTIVE"}
Pending(u) == {i \in Invitation : state[i] = "PENDING" /\ letter[i].to = u}

(* createBusiness: the business and its owner's membership in one insert.  *)
Init ==
  /\ founder \in User
  /\ role = [u \in User |-> IF u = founder THEN "OWNER" ELSE "NONE"]
  /\ status = [u \in User |-> "ACTIVE"]
  /\ state = [i \in Invitation |-> "NONE"]
  /\ letter = [i \in Invitation |-> None]
  /\ expired = {}
  /\ mem = [h \in Handler |-> Idle]

(* assertRole: an active owner or manager.                                 *)
AssertRole(u) == IsActive(u) /\ role[u] \in {"OWNER", "MANAGER"}

(* requireManager of the controller: the role is read here and passed on.  *)
Authorize(h, u) ==
  /\ mem[h] = Idle
  /\ AssertRole(u)
  /\ Remember(h, [at |-> "authorized", actor |-> u, role |-> role[u]])
  /\ UNCHANGED <<founder, memberVars, invitationVars>>

---------------------------------------------------------------------------
(* Members *)

(* requireManageableTarget: owners and managers are for the owner only.    *)
MayManage(actorRole, t) ==
  /\ role[t] # "NONE"
  /\ role[t] \in {"OWNER", "MANAGER"} => actorRole = "OWNER"

(* The first read of suspendMembership, reinstateMembership and            *)
(* removeMembership; the last owner is protected from the first and last.  *)
CheckTarget(h, op, t) ==
  /\ mem[h].at = "authorized"
  /\ MayManage(mem[h].role, t)
  /\ Remember(h, [at |-> IF role[t] = "OWNER" /\ op # "reinstate" THEN "countOwners" ELSE "write",
                  op |-> op, target |-> t, by |-> mem[h].role])
  /\ UNCHANGED <<founder, memberVars, invitationVars>>

(* Mutant: the last owner may go.                                          *)
CountNoOwners(h) ==
  /\ mem[h].at = "countOwners"
  /\ IF Cardinality(ActiveOwners) < 1
     THEN Finish(h)
     ELSE Remember(h, [mem[h] EXCEPT !.at = "write"])
  /\ UNCHANGED <<founder, memberVars, invitationVars>>

(* assertNotLastOwner *)
CountOwners(h) ==
  /\ mem[h].at = "countOwners"
  /\ IF Cardinality(ActiveOwners) <= 1
     THEN Finish(h)
     ELSE Remember(h, [mem[h] EXCEPT !.at = "write"])
  /\ UNCHANGED <<founder, memberVars, invitationVars>>

(* setMembershipStatus: an update by key, an error once the row is gone.   *)
SetMembershipStatus(h) ==
  /\ mem[h].at = "write" /\ mem[h].op # "remove"
  /\ status' = [status EXCEPT ![mem[h].target] =
                  IF role[mem[h].target] = "NONE" THEN @
                  ELSE IF mem[h].op = "suspend" THEN "SUSPENDED" ELSE "ACTIVE"]
  /\ Finish(h)
  /\ UNCHANGED <<founder, role, invitationVars>>

(* removeMembership: the row goes; a later one starts ACTIVE again.        *)
RemoveMembership(h) ==
  /\ mem[h].at = "write" /\ mem[h].op = "remove"
  /\ role' = [role EXCEPT ![mem[h].target] = "NONE"]
  /\ status' = [status EXCEPT ![mem[h].target] = "ACTIVE"]
  /\ Finish(h)
  /\ UNCHANGED <<founder, invitationVars>>

---------------------------------------------------------------------------
(* Invitations *)

(* The checks of inviteStaff.                                              *)
MayInvite(actorRole, u, r) ==
  /\ r # "OWNER"
  /\ r = "MANAGER" => actorRole = "OWNER"
  /\ ~IsActive(u)

CheckInvitee(h, u, r) ==
  /\ mem[h].at = "authorized"
  /\ MayInvite(mem[h].role, u, r)
  /\ Remember(h, [at |-> "revokePending",
                  letter |-> [to |-> u, role |-> r, by |-> mem[h].actor]])
  /\ UNCHANGED <<founder, memberVars, invitationVars>>

RevokePendingInvitations(h) ==
  /\ mem[h].at = "revokePending"
  /\ state' = [i \in Invitation |-> IF i \in Pending(mem[h].letter.to) THEN "REVOKED" ELSE state[i]]
  /\ Remember(h, [mem[h] EXCEPT !.at = "createInvitation"])
  /\ UNCHANGED <<founder, memberVars, letter, expired>>

CreateInvitation(h, i) ==
  /\ mem[h].at = "createInvitation"
  /\ state[i] = "NONE"
  /\ state' = [state EXCEPT ![i] = "PENDING"]
  /\ letter' = [letter EXCEPT ![i] = mem[h].letter]
  /\ Finish(h)
  /\ UNCHANGED <<founder, memberVars, expired>>

(* revokeInvitation: one update, conditional on PENDING.                   *)
RevokeInvitation(h, i) ==
  /\ mem[h].at = "authorized"
  /\ state[i] = "PENDING"
  /\ state' = [state EXCEPT ![i] = "REVOKED"]
  /\ Finish(h)
  /\ UNCHANGED <<founder, memberVars, letter, expired>>

(* Mutant: a token answers to whoever holds it.                            *)
FindInvitationOfAnyone(h, u, i) ==
  /\ mem[h] = Idle
  /\ state[i] = "PENDING" /\ i \notin expired
  /\ Remember(h, [at |-> "upsert", invitation |-> i, user |-> u])
  /\ UNCHANGED <<founder, memberVars, invitationVars>>

(* acceptInvitation reads the invitation and compares the e-mail address.  *)
FindInvitation(h, u, i) ==
  /\ mem[h] = Idle
  /\ state[i] = "PENDING" /\ i \notin expired
  /\ letter[i].to = u
  /\ Remember(h, [at |-> "upsert", invitation |-> i, user |-> u])
  /\ UNCHANGED <<founder, memberVars, invitationVars>>

(* upsertMembership overwrites the role and the status of a membership.    *)
UpsertMembership(h) ==
  /\ mem[h].at = "upsert"
  /\ role' = [role EXCEPT ![mem[h].user] = letter[mem[h].invitation].role]
  /\ status' = [status EXCEPT ![mem[h].user] = "ACTIVE"]
  /\ Remember(h, [mem[h] EXCEPT !.at = "markAccepted"])
  /\ UNCHANGED <<founder, invitationVars>>

(* markInvitationAccepted: by id, over a revocation if there was one.      *)
MarkInvitationAccepted(h) ==
  /\ mem[h].at = "markAccepted"
  /\ state' = [state EXCEPT ![mem[h].invitation] = "ACCEPTED"]
  /\ Finish(h)
  /\ UNCHANGED <<founder, memberVars, letter, expired>>

---------------------------------------------------------------------------
(* INVITATION_TTL_MS passes. *)
Expire(i) ==
  /\ state[i] = "PENDING" /\ i \notin expired
  /\ expired' = expired \cup {i}
  /\ UNCHANGED <<founder, memberVars, state, letter, mem>>

(* A later check refuses, the client gives up, or the process dies.        *)
Abort(h) ==
  /\ mem[h] # Idle
  /\ Finish(h)
  /\ UNCHANGED <<founder, memberVars, invitationVars>>

Step(h) ==
  \/ \E u \in User : Authorize(h, u)
  \/ \E op \in {"suspend", "reinstate", "remove"}, t \in User : CheckTarget(h, op, t)
  \/ CountOwners(h)
  \/ SetMembershipStatus(h)
  \/ RemoveMembership(h)
  \/ \E u \in User, r \in Role : CheckInvitee(h, u, r)
  \/ RevokePendingInvitations(h)
  \/ \E i \in Invitation : CreateInvitation(h, i)
  \/ \E i \in Invitation : RevokeInvitation(h, i)
  \/ \E u \in User, i \in Invitation : FindInvitation(h, u, i)
  \/ UpsertMembership(h)
  \/ MarkInvitationAccepted(h)
  \/ Abort(h)

Next ==
  \/ \E h \in Handler : Step(h)
  \/ \E i \in Invitation : Expire(i)

Spec == Init /\ [][Next]_vars

---------------------------------------------------------------------------
(* Whatever its members do at the same time, the business keeps its        *)
(* founder as its active owner, and has no other: an invitation makes      *)
(* nobody an owner, and an upsert never overwrites the owner's row.        *)
FounderOwns ==
  /\ founder \in ActiveOwners
  /\ \A u \in User : role[u] = "OWNER" => u = founder

(* A manager was made one by the owner: there is an invitation from the    *)
(* founder that names this user and that role, although a manager may      *)
(* invite, act on a role read long before, and be suspended meanwhile.     *)
ManagersAreTheOwnersChoice ==
  \A u \in User : role[u] = "MANAGER" =>
    \E i \in Invitation :
      letter[i] = [to |-> u, role |-> "MANAGER", by |-> founder]

(* The role a member has is the role of an invitation sent to that member  *)
(* and to nobody else, so a revoked or expired token never moves to        *)
(* another user.                                                           *)
MembersWereInvited ==
  \A u \in User \ {founder} : role[u] # "NONE" =>
    \E i \in Invitation : state[i] # "NONE" /\ letter[i].to = u /\ letter[i].role = role[u]

(* Nobody gets a role but by an invitation that gave it, and nobody gives  *)
(* the role of a manager but the owner.                                    *)
RolesComeFromInvitations == ManagersAreTheOwnersChoice /\ MembersWereInvited

=============================================================================
