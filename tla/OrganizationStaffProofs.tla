------------------------- MODULE OrganizationStaffProofs -------------------------
(* Proofs about OrganizationStaff for every value of its constants.        *)
EXTENDS OrganizationStaff, FiniteSetTheorems, TLAPS

(* What the checks of inviteStaff make true of every letter sent.          *)
Fair(l) ==
  /\ l.to # founder
  /\ l.role # "OWNER"
  /\ l.role = "MANAGER" => l.by = founder

LettersAreFair ==
  \A i \in Invitation : state[i] # "NONE" => letter[i] \in Letter /\ Fair(letter[i])

(* What the handlers in flight hold on to.                                 *)
ReadsAreSound ==
  \A h \in Handler :
    /\ mem[h] \in ActorMem /\ mem[h].role = "OWNER" => mem[h].actor = founder
    /\ mem[h] \in InviteMem => Fair(mem[h].letter)
    /\ mem[h] \in AcceptMem => /\ state[mem[h].invitation] # "NONE"
                              /\ letter[mem[h].invitation].to = mem[h].user
    /\ mem[h] \in TargetMem /\ mem[h].at = "write" /\ mem[h].op # "reinstate"
         => mem[h].target # founder

IInv == TypeOK /\ LettersAreFair /\ ReadsAreSound /\ FounderOwns /\ MembersWereInvited

LEMMA InitTypeOK == Init => TypeOK
BY DEF Init, TypeOK, Role, Status, State

LEMMA StepTypeOK == TypeOK /\ LettersAreFair /\ ReadsAreSound /\ [Next]_vars => TypeOK'
<1> SUFFICES ASSUME TypeOK, LettersAreFair, ReadsAreSound, [Next]_vars
             PROVE  TypeOK'
  OBVIOUS
<1> USE DEF TypeOK, Remember, Finish, memberVars, invitationVars
<1>1. ASSUME NEW h \in Handler, NEW u \in User, Authorize(h, u)
      PROVE  TypeOK'
  BY <1>1 DEF Authorize, AssertRole, ActorMem, Role
<1>2. ASSUME NEW h \in Handler, NEW op \in {"suspend", "reinstate", "remove"}, NEW t \in User,
             CheckTarget(h, op, t)
      PROVE  TypeOK'
  <2>1. mem[h] \in ActorMem
    BY <1>2 DEF CheckTarget, Idle, TargetMem, InviteMem, AcceptMem
  <2>2. QED
    BY <1>2, <2>1 DEF CheckTarget, ActorMem, TargetMem
<1>3. ASSUME NEW h \in Handler, CountOwners(h)
      PROVE  TypeOK'
  <2>1. mem[h] \in TargetMem
    BY <1>3 DEF CountOwners, Idle, ActorMem, InviteMem, AcceptMem
  <2>2. [mem[h] EXCEPT !.at = "write"] \in TargetMem
    BY <2>1 DEF TargetMem
  <2>3. QED
    BY <1>3, <2>2 DEF CountOwners
<1>4. ASSUME NEW h \in Handler, SetMembershipStatus(h)
      PROVE  TypeOK'
  <2>1. mem[h] \in TargetMem
    BY <1>4 DEF SetMembershipStatus, Idle, ActorMem, InviteMem, AcceptMem
  <2>2. QED
    BY <1>4, <2>1 DEF SetMembershipStatus, TargetMem, Status
<1>5. ASSUME NEW h \in Handler, RemoveMembership(h)
      PROVE  TypeOK'
  BY <1>5 DEF RemoveMembership, Status
<1>6. ASSUME NEW h \in Handler, NEW u \in User, NEW r \in Role, CheckInvitee(h, u, r)
      PROVE  TypeOK'
  <2>1. mem[h] \in ActorMem
    BY <1>6 DEF CheckInvitee, Idle, TargetMem, InviteMem, AcceptMem
  <2>2. QED
    BY <1>6, <2>1 DEF CheckInvitee, ActorMem, InviteMem, Letter
<1>7. ASSUME NEW h \in Handler, RevokePendingInvitations(h)
      PROVE  TypeOK'
  <2>1. mem[h] \in InviteMem
    BY <1>7 DEF RevokePendingInvitations, Idle, ActorMem, TargetMem, AcceptMem
  <2>2. [mem[h] EXCEPT !.at = "createInvitation"] \in InviteMem
    BY <2>1 DEF InviteMem
  <2>3. QED
    BY <1>7, <2>2 DEF RevokePendingInvitations, State
<1>8. ASSUME NEW h \in Handler, NEW i \in Invitation, CreateInvitation(h, i)
      PROVE  TypeOK'
  <2>1. mem[h] \in InviteMem
    BY <1>8 DEF CreateInvitation, Idle, ActorMem, TargetMem, AcceptMem
  <2>2. QED
    BY <1>8, <2>1 DEF CreateInvitation, InviteMem, State
<1>9. ASSUME NEW h \in Handler, NEW i \in Invitation, RevokeInvitation(h, i)
      PROVE  TypeOK'
  BY <1>9 DEF RevokeInvitation, State
<1>10. ASSUME NEW h \in Handler, NEW u \in User, NEW i \in Invitation, FindInvitation(h, u, i)
       PROVE  TypeOK'
  BY <1>10 DEF FindInvitation, AcceptMem
<1>11. ASSUME NEW h \in Handler, UpsertMembership(h)
       PROVE  TypeOK'
  <2>1. mem[h] \in AcceptMem
    BY <1>11 DEF UpsertMembership, Idle, ActorMem, TargetMem, InviteMem
  <2>2. [mem[h] EXCEPT !.at = "markAccepted"] \in AcceptMem
    BY <2>1 DEF AcceptMem
  <2>3. mem' \in [Handler -> {Idle} \cup ActorMem \cup TargetMem \cup InviteMem \cup AcceptMem]
    BY <1>11, <2>2 DEF UpsertMembership
  <2>4. letter[mem[h].invitation] \in Letter
    BY <2>1 DEF LettersAreFair, ReadsAreSound, AcceptMem
  <2>5. QED
    BY <1>11, <2>1, <2>3, <2>4 DEF UpsertMembership, Status, AcceptMem, Letter
<1>12. ASSUME NEW h \in Handler, MarkInvitationAccepted(h)
       PROVE  TypeOK'
  <2>1. mem[h] \in AcceptMem
    BY <1>12 DEF MarkInvitationAccepted, Idle, ActorMem, TargetMem, InviteMem
  <2>2. QED
    BY <1>12, <2>1 DEF MarkInvitationAccepted, State
<1>13. ASSUME NEW i \in Invitation, Expire(i)
       PROVE  TypeOK'
  BY <1>13 DEF Expire
<1>14. ASSUME NEW h \in Handler, Abort(h)
       PROVE  TypeOK'
  BY <1>14 DEF Abort
<1>15. CASE UNCHANGED vars
  BY <1>15 DEF vars
<1> HIDE DEF TypeOK, Remember, Finish, memberVars, invitationVars
<1>16. QED
  BY <1>1, <1>2, <1>3, <1>4, <1>5, <1>6, <1>7, <1>8, <1>9, <1>10, <1>11, <1>12, <1>13,
     <1>14, <1>15 DEF Next, Step

(* Only the founder owns, so the count of assertNotLastOwner is one.       *)
LEMMA OneOwner == FounderOwns => Cardinality(ActiveOwners) = 1
<1> SUFFICES ASSUME FounderOwns PROVE Cardinality(ActiveOwners) = 1
  OBVIOUS
<1>1. ActiveOwners = {founder}
  BY DEF FounderOwns, ActiveOwners
<1>2. QED
  BY <1>1, FS_Singleton

(* The writes to the memberships keep the owner and the members' letters.  *)
LEMMA StepMembers ==
  IInv /\ [Next]_vars => FounderOwns' /\ MembersWereInvited'
<1> SUFFICES ASSUME IInv, [Next]_vars
             PROVE  FounderOwns' /\ MembersWereInvited'
  OBVIOUS
<1>a. TypeOK /\ LettersAreFair /\ ReadsAreSound /\ FounderOwns /\ MembersWereInvited
  BY DEF IInv
<1> USE DEF FounderOwns, ActiveOwners, MembersWereInvited
<1>1. ASSUME UNCHANGED <<founder, memberVars, invitationVars>>
      PROVE  FounderOwns' /\ MembersWereInvited'
  BY <1>1, <1>a DEF memberVars, invitationVars
<1>2. ASSUME UNCHANGED <<founder, memberVars>>, letter \in [Invitation -> Letter \cup {None}],
             \A i \in Invitation : state[i] # "NONE" => state'[i] # "NONE" /\ letter'[i] = letter[i]
      PROVE  FounderOwns' /\ MembersWereInvited'
  BY <1>2, <1>a DEF memberVars
<1>3. ASSUME NEW h \in Handler, SetMembershipStatus(h)
      PROVE  FounderOwns' /\ MembersWereInvited'
  <2>1. mem[h] \in TargetMem
    BY <1>3, <1>a DEF SetMembershipStatus, TypeOK, Idle, ActorMem, InviteMem, AcceptMem
  <2>2. mem[h].target # founder \/ mem[h].op = "reinstate"
    BY <1>3, <1>a, <2>1 DEF SetMembershipStatus, ReadsAreSound
  <2>3. status'[founder] = "ACTIVE"
    BY <1>3, <1>a, <2>1, <2>2 DEF SetMembershipStatus, TypeOK
  <2>4. UNCHANGED <<founder, role, invitationVars>>
    BY <1>3 DEF SetMembershipStatus
  <2>5. QED
    BY <1>a, <2>3, <2>4 DEF invitationVars
<1>4. ASSUME NEW h \in Handler, RemoveMembership(h)
      PROVE  FounderOwns' /\ MembersWereInvited'
  <2>1. mem[h] \in TargetMem
    BY <1>4, <1>a DEF RemoveMembership, TypeOK, Idle, ActorMem, InviteMem, AcceptMem
  <2>2. mem[h].target # founder
    BY <1>4, <1>a, <2>1 DEF RemoveMembership, ReadsAreSound
  <2>3. \A u \in User : role'[u] = role[u] \/ role'[u] = "NONE"
    BY <1>4, <1>a DEF RemoveMembership, TypeOK
  <2>4. role'[founder] = "OWNER" /\ status'[founder] = "ACTIVE"
    BY <1>4, <1>a, <2>1, <2>2 DEF RemoveMembership, TypeOK
  <2>5. UNCHANGED <<founder, invitationVars>>
    BY <1>4 DEF RemoveMembership
  <2>6. QED
    BY <1>a, <2>3, <2>4, <2>5 DEF invitationVars
<1>5. ASSUME NEW h \in Handler, UpsertMembership(h)
      PROVE  FounderOwns' /\ MembersWereInvited'
  <2> DEFINE i == mem[h].invitation  v == mem[h].user
  <2>1. mem[h] \in AcceptMem /\ i \in Invitation /\ v \in User
    BY <1>5, <1>a DEF UpsertMembership, TypeOK, Idle, ActorMem, TargetMem, InviteMem, AcceptMem
  <2>2. state[i] # "NONE" /\ letter[i].to = v /\ Fair(letter[i])
    BY <1>a, <2>1 DEF ReadsAreSound, LettersAreFair
  <2>3. v # founder /\ letter[i].role # "OWNER"
    BY <2>2 DEF Fair
  <2>4. /\ role' = [role EXCEPT ![v] = letter[i].role]
        /\ status' = [status EXCEPT ![v] = "ACTIVE"]
        /\ UNCHANGED <<founder, state, letter>>
    BY <1>5 DEF UpsertMembership, invitationVars
  <2> HIDE DEF i, v
  <2>5. FounderOwns'
    BY <1>a, <2>1, <2>3, <2>4 DEF TypeOK
  <2>6. MembersWereInvited'
    <3> SUFFICES ASSUME NEW u \in User \ {founder}, role'[u] # "NONE"
                 PROVE  \E j \in Invitation :
                          state[j] # "NONE" /\ letter[j].to = u /\ letter[j].role = role'[u]
      BY <2>4
    <3>1. CASE u = v
      BY <1>a, <2>1, <2>2, <2>4, <3>1 DEF TypeOK
    <3>2. CASE u # v
      BY <1>a, <2>1, <2>4, <3>2 DEF TypeOK
    <3>3. QED
      BY <3>1, <3>2
  <2>7. QED
    BY <2>5, <2>6
<1>6. ASSUME NEW h \in Handler,
             \/ \E u \in User : Authorize(h, u)
             \/ \E op \in {"suspend", "reinstate", "remove"}, t \in User : CheckTarget(h, op, t)
             \/ CountOwners(h)
             \/ \E u \in User, r \in Role : CheckInvitee(h, u, r)
             \/ \E u \in User, j \in Invitation : FindInvitation(h, u, j)
             \/ Abort(h)
      PROVE  UNCHANGED <<founder, memberVars, invitationVars>>
  BY <1>6 DEF Authorize, CheckTarget, CountOwners, CheckInvitee, FindInvitation, Abort
<1>7. ASSUME NEW h \in Handler,
             \/ RevokePendingInvitations(h)
             \/ \E j \in Invitation : CreateInvitation(h, j) \/ RevokeInvitation(h, j)
             \/ MarkInvitationAccepted(h)
      PROVE  FounderOwns' /\ MembersWereInvited'
  <2>1. \A j \in Invitation : state[j] # "NONE" => state'[j] # "NONE" /\ letter'[j] = letter[j]
    BY <1>7, <1>a DEF RevokePendingInvitations, CreateInvitation, RevokeInvitation,
       MarkInvitationAccepted, TypeOK
  <2>2. UNCHANGED <<founder, memberVars>>
    BY <1>7 DEF RevokePendingInvitations, CreateInvitation, RevokeInvitation, MarkInvitationAccepted
  <2>3. QED
    BY <1>2, <1>a, <2>1, <2>2 DEF TypeOK
<1>8. ASSUME NEW j \in Invitation, Expire(j)
      PROVE  FounderOwns' /\ MembersWereInvited'
  BY <1>8, <1>2, <1>a DEF Expire, TypeOK
<1>9. ASSUME UNCHANGED vars
      PROVE  FounderOwns' /\ MembersWereInvited'
  BY <1>9, <1>1 DEF vars
<1> HIDE DEF FounderOwns, ActiveOwners, MembersWereInvited
<1>10. QED
  BY <1>1, <1>3, <1>4, <1>5, <1>6, <1>7, <1>8, <1>9 DEF Next, Step

(* Invitations keep the letter they were created with.                     *)
LEMMA StepLetters == IInv /\ [Next]_vars => LettersAreFair'
<1> SUFFICES ASSUME IInv, [Next]_vars
             PROVE  LettersAreFair'
  OBVIOUS
<1>a. TypeOK /\ LettersAreFair /\ ReadsAreSound
  BY DEF IInv
<1> USE DEF LettersAreFair, Fair
<1>1. ASSUME UNCHANGED <<founder, invitationVars>>
      PROVE  LettersAreFair'
  BY <1>1, <1>a DEF invitationVars
<1>2. ASSUME UNCHANGED <<founder, letter>>,
             \A i \in Invitation : state'[i] # "NONE" => state[i] # "NONE"
      PROVE  LettersAreFair'
  BY <1>2, <1>a
<1>3. ASSUME NEW h \in Handler, NEW j \in Invitation, CreateInvitation(h, j)
      PROVE  LettersAreFair'
  <2>1. mem[h] \in InviteMem
    BY <1>3, <1>a DEF CreateInvitation, TypeOK, Idle, ActorMem, TargetMem, AcceptMem
  <2>2. mem[h].letter \in Letter /\ Fair(mem[h].letter)
    BY <1>a, <2>1 DEF ReadsAreSound, InviteMem
  <2>3. QED
    BY <1>3, <1>a, <2>2 DEF CreateInvitation, TypeOK
<1>4. ASSUME NEW h \in Handler,
             \/ RevokePendingInvitations(h)
             \/ \E j \in Invitation : RevokeInvitation(h, j)
      PROVE  LettersAreFair'
  <2>1. \A i \in Invitation : state'[i] # "NONE" => state[i] # "NONE"
    BY <1>4, <1>a DEF RevokePendingInvitations, RevokeInvitation, TypeOK, Pending
  <2>2. QED
    BY <1>2, <1>4, <2>1 DEF RevokePendingInvitations, RevokeInvitation
<1>5. ASSUME NEW h \in Handler, MarkInvitationAccepted(h)
      PROVE  LettersAreFair'
  <2>1. mem[h] \in AcceptMem
    BY <1>5, <1>a DEF MarkInvitationAccepted, TypeOK, Idle, ActorMem, TargetMem, InviteMem
  <2>2. state[mem[h].invitation] # "NONE"
    BY <1>a, <2>1 DEF ReadsAreSound
  <2>3. QED
    BY <1>2, <1>5, <1>a, <2>2 DEF MarkInvitationAccepted, TypeOK
<1>6. ASSUME NEW j \in Invitation, Expire(j)
      PROVE  LettersAreFair'
  BY <1>2, <1>6 DEF Expire
<1>7. ASSUME NEW h \in Handler,
             \/ \E u \in User : Authorize(h, u)
             \/ \E op \in {"suspend", "reinstate", "remove"}, t \in User : CheckTarget(h, op, t)
             \/ CountOwners(h) \/ SetMembershipStatus(h) \/ RemoveMembership(h)
             \/ \E u \in User, r \in Role : CheckInvitee(h, u, r)
             \/ \E u \in User, j \in Invitation : FindInvitation(h, u, j)
             \/ UpsertMembership(h) \/ Abort(h)
      PROVE  UNCHANGED <<founder, invitationVars>>
  BY <1>7 DEF Authorize, CheckTarget, CountOwners, SetMembershipStatus, RemoveMembership,
     CheckInvitee, FindInvitation, UpsertMembership, Abort
<1> HIDE DEF LettersAreFair, Fair
<1>8. ASSUME UNCHANGED vars
      PROVE  LettersAreFair'
  BY <1>1, <1>8 DEF vars
<1>9. QED
  BY <1>1, <1>3, <1>4, <1>5, <1>6, <1>7, <1>8 DEF Next, Step

(* ReadsAreSound for one handler.                                          *)
Sound(m) ==
  /\ m \in ActorMem /\ m.role = "OWNER" => m.actor = founder
  /\ m \in InviteMem => Fair(m.letter)
  /\ m \in AcceptMem => state[m.invitation] # "NONE" /\ letter[m.invitation].to = m.user
  /\ m \in TargetMem /\ m.at = "write" /\ m.op # "reinstate" => m.target # founder

(* It survives every step, for nothing it looks at is ever taken back.     *)
LEMMA SoundSurvives ==
  ASSUME TypeOK, UNCHANGED founder, NEW m, Sound(m),
         \A i \in Invitation : state[i] # "NONE" => state'[i] # "NONE" /\ letter'[i] = letter[i]
  PROVE  Sound(m)'
BY DEF Sound, Fair, AcceptMem

LEMMA SoundStart == Sound(Idle)
BY DEF Sound, Idle, ActorMem, TargetMem, InviteMem, AcceptMem

LEMMA StepReads == IInv /\ [Next]_vars => ReadsAreSound'
<1> SUFFICES ASSUME IInv, [Next]_vars
             PROVE  ReadsAreSound'
  OBVIOUS
<1>a. TypeOK /\ LettersAreFair /\ ReadsAreSound /\ FounderOwns
  BY DEF IInv
<1>b. \A h \in Handler : Sound(mem[h])
  BY <1>a DEF ReadsAreSound, Sound
<1>1. ASSUME UNCHANGED <<founder>>,
             \A i \in Invitation : state[i] # "NONE" => state'[i] # "NONE" /\ letter'[i] = letter[i],
             NEW h \in Handler, NEW m, Sound(m)', mem' = [mem EXCEPT ![h] = m]
      PROVE  ReadsAreSound'
  <2>1. \A g \in Handler : Sound(mem[g])'
    <3> SUFFICES ASSUME NEW g \in Handler PROVE Sound(mem[g])'
      OBVIOUS
    <3>1. CASE g = h
      BY <1>1, <1>a, <3>1 DEF TypeOK
    <3>2. CASE g # h
      <4>1. mem'[g] = mem[g]
        BY <1>1, <1>a, <3>2 DEF TypeOK
      <4>2. PICK n : n = mem[g]
        OBVIOUS
      <4>3. Sound(n)'
        BY <1>1, <1>a, <1>b, <4>2, SoundSurvives
      <4>4. QED
        BY <4>1, <4>2, <4>3
    <3>3. QED
      BY <3>1, <3>2
  <2>2. QED
    BY <2>1 DEF ReadsAreSound, Sound
<1>2. ASSUME UNCHANGED <<founder, state, letter>>, NEW h \in Handler, NEW m, Sound(m),
             mem' = [mem EXCEPT ![h] = m]
      PROVE  ReadsAreSound'
  <2>1. Sound(m)'
    BY <1>2, <1>a, SoundSurvives
  <2>2. QED
    BY <1>1, <1>2, <2>1
<1>3. ASSUME NEW h \in Handler, NEW u \in User, Authorize(h, u)
      PROVE  ReadsAreSound'
  <2> DEFINE m == [at |-> "authorized", actor |-> u, role |-> role[u]]
  <2>1. Sound(m)
    BY <1>3, <1>a DEF Authorize, Sound, FounderOwns, InviteMem, AcceptMem, TargetMem
  <2>2. QED
    BY <1>2, <1>3, <2>1 DEF Authorize, Remember, invitationVars
<1>4. ASSUME NEW h \in Handler, NEW op \in {"suspend", "reinstate", "remove"}, NEW t \in User,
             CheckTarget(h, op, t)
      PROVE  ReadsAreSound'
  <2> DEFINE m == [at |-> IF role[t] = "OWNER" /\ op # "reinstate" THEN "countOwners" ELSE "write",
                   op |-> op, target |-> t, by |-> mem[h].role]
  <2>1. t = founder => role[t] = "OWNER"
    BY <1>a DEF FounderOwns, ActiveOwners
  <2>2. Sound(m)
    BY <2>1 DEF Sound, ActorMem, InviteMem, AcceptMem
  <2>3. QED
    BY <1>2, <1>4, <2>2 DEF CheckTarget, Remember, invitationVars
<1>5. ASSUME NEW h \in Handler, CountOwners(h)
      PROVE  ReadsAreSound'
  <2>1. mem' = [mem EXCEPT ![h] = Idle]
    BY <1>5, <1>a, OneOwner DEF CountOwners, Finish, Remember
  <2>2. QED
    BY <1>2, <1>5, <2>1, SoundStart DEF CountOwners, invitationVars
<1>6. ASSUME NEW h \in Handler,
             \/ SetMembershipStatus(h) \/ RemoveMembership(h) \/ Abort(h)
      PROVE  ReadsAreSound'
  <2>1. mem' = [mem EXCEPT ![h] = Idle] /\ UNCHANGED <<founder, state, letter>>
    BY <1>6 DEF SetMembershipStatus, RemoveMembership, Abort, Finish, Remember, invitationVars
  <2>2. QED
    BY <1>2, <2>1, SoundStart
<1>7. ASSUME NEW h \in Handler, NEW u \in User, NEW r \in Role, CheckInvitee(h, u, r)
      PROVE  ReadsAreSound'
  <2> DEFINE l == [to |-> u, role |-> r, by |-> mem[h].actor]
             m == [at |-> "revokePending", letter |-> l]
  <2>1. mem[h] \in ActorMem
    BY <1>7, <1>a DEF CheckInvitee, TypeOK, Idle, TargetMem, InviteMem, AcceptMem
  <2>2. r # "OWNER" /\ (r = "MANAGER" => mem[h].role = "OWNER") /\ u # founder
    BY <1>7, <1>a DEF CheckInvitee, MayInvite, IsActive, FounderOwns, ActiveOwners
  <2>3. Fair(l)
    BY <1>a, <2>1, <2>2 DEF Fair, ReadsAreSound
  <2>4. Sound(m)
    BY <2>3 DEF Sound, ActorMem, TargetMem, AcceptMem
  <2>5. QED
    BY <1>2, <1>7, <2>4 DEF CheckInvitee, Remember, invitationVars
<1>8. ASSUME NEW h \in Handler, RevokePendingInvitations(h)
      PROVE  ReadsAreSound'
  <2> DEFINE m == [mem[h] EXCEPT !.at = "createInvitation"]
  <2>1. mem[h] \in InviteMem
    BY <1>8, <1>a DEF RevokePendingInvitations, TypeOK, Idle, ActorMem, TargetMem, AcceptMem
  <2>2. m = [at |-> "createInvitation", letter |-> mem[h].letter]
    BY <2>1 DEF InviteMem
  <2>3. Fair(mem[h].letter)
    BY <1>a, <2>1 DEF ReadsAreSound
  <2>5. Sound(m)
    BY <2>2, <2>3 DEF Sound, ActorMem, TargetMem, AcceptMem
  <2>6. \A i \in Invitation : state[i] # "NONE" => state'[i] # "NONE" /\ letter'[i] = letter[i]
    BY <1>8 DEF RevokePendingInvitations
  <2>7. UNCHANGED founder /\ mem' = [mem EXCEPT ![h] = m]
    BY <1>8 DEF RevokePendingInvitations, Remember
  <2>8. PICK n : n = m
    OBVIOUS
  <2> HIDE DEF m
  <2>9. Sound(n)'
    BY <1>a, <2>5, <2>6, <2>7, <2>8, SoundSurvives
  <2>10. QED
    BY <1>1, <2>6, <2>7, <2>8, <2>9
<1>9. ASSUME NEW h \in Handler,
             \/ \E j \in Invitation : CreateInvitation(h, j) \/ RevokeInvitation(h, j)
             \/ MarkInvitationAccepted(h)
      PROVE  ReadsAreSound'
  <2>1. \A i \in Invitation : state[i] # "NONE" => state'[i] # "NONE" /\ letter'[i] = letter[i]
    BY <1>9, <1>a DEF CreateInvitation, RevokeInvitation, MarkInvitationAccepted, TypeOK
  <2>2. UNCHANGED founder /\ mem' = [mem EXCEPT ![h] = Idle]
    BY <1>9 DEF CreateInvitation, RevokeInvitation, MarkInvitationAccepted, Finish, Remember
  <2>3. Sound(Idle)'
    BY <1>a, <2>1, <2>2, SoundStart, SoundSurvives
  <2>4. QED
    BY <1>1, <2>1, <2>2, <2>3
<1>10. ASSUME NEW h \in Handler, NEW u \in User, NEW i \in Invitation, FindInvitation(h, u, i)
       PROVE  ReadsAreSound'
  <2> DEFINE m == [at |-> "upsert", invitation |-> i, user |-> u]
  <2>1. Sound(m)
    BY <1>10 DEF FindInvitation, Sound, ActorMem, TargetMem, InviteMem
  <2>2. QED
    BY <1>2, <1>10, <2>1 DEF FindInvitation, Remember, invitationVars
<1>11. ASSUME NEW h \in Handler, UpsertMembership(h)
       PROVE  ReadsAreSound'
  <2> DEFINE m == [mem[h] EXCEPT !.at = "markAccepted"]
  <2>1. mem[h] \in AcceptMem
    BY <1>11, <1>a DEF UpsertMembership, TypeOK, Idle, ActorMem, TargetMem, InviteMem
  <2>2. m = [at |-> "markAccepted", invitation |-> mem[h].invitation, user |-> mem[h].user]
    BY <2>1 DEF AcceptMem
  <2>3. Sound(m)
    BY <1>a, <2>1, <2>2 DEF Sound, ReadsAreSound, ActorMem, TargetMem, InviteMem
  <2>4. QED
    BY <1>2, <1>11, <2>3 DEF UpsertMembership, Remember, invitationVars
<1>12. ASSUME NEW i \in Invitation, Expire(i)
       PROVE  ReadsAreSound'
  BY <1>12, <1>a DEF Expire, ReadsAreSound, Fair
<1>13. CASE UNCHANGED vars
  BY <1>13, <1>a DEF vars, invitationVars, ReadsAreSound, Fair
<1>14. QED
  BY <1>3, <1>4, <1>5, <1>6, <1>7, <1>8, <1>9, <1>10, <1>11, <1>12, <1>13 DEF Next, Step

LEMMA InitIInv == Init => IInv
<1> SUFFICES ASSUME Init PROVE IInv
  OBVIOUS
<1>1. TypeOK
  BY InitTypeOK
<1>2. LettersAreFair /\ FounderOwns /\ MembersWereInvited
  BY DEF Init, LettersAreFair, FounderOwns, ActiveOwners, MembersWereInvited
<1>3. ReadsAreSound
  BY SoundStart DEF Init, ReadsAreSound, Sound
<1>4. QED
  BY <1>1, <1>2, <1>3 DEF IInv

LEMMA StepIInv == IInv /\ [Next]_vars => IInv'
BY StepTypeOK, StepLetters, StepReads, StepMembers DEF IInv

LEMMA Inductive == Spec => []IInv
BY InitIInv, StepIInv, PTL DEF Spec

(* The rows and the handlers of the tenancy service keep their types.      *)
THEOREM TypeCorrect == Spec => []TypeOK
<1>1. IInv => TypeOK
  BY DEF IInv
<1>2. QED
  BY <1>1, Inductive, PTL

(* For any number of members, invitations and requests in flight, the      *)
(* founder stays the business's one active owner.                          *)
THEOREM FounderStaysOwner == Spec => []FounderOwns
<1>1. IInv => FounderOwns
  BY DEF IInv
<1>2. QED
  BY <1>1, Inductive, PTL

(* Every manager was invited as one by the founder.                        *)
LEMMA OwnerChoosesManagers == Spec => []ManagersAreTheOwnersChoice
<1>1. IInv => ManagersAreTheOwnersChoice
  <2> SUFFICES ASSUME IInv, NEW u \in User, role[u] = "MANAGER"
               PROVE  \E i \in Invitation :
                        letter[i] = [to |-> u, role |-> "MANAGER", by |-> founder]
    BY DEF ManagersAreTheOwnersChoice
  <2>1. u # founder
    BY DEF IInv, FounderOwns, ActiveOwners
  <2>2. PICK i \in Invitation : state[i] # "NONE" /\ letter[i].to = u /\ letter[i].role = role[u]
    BY <2>1 DEF IInv, MembersWereInvited
  <2>3. letter[i] \in Letter /\ Fair(letter[i])
    BY <2>2 DEF IInv, LettersAreFair
  <2>4. letter[i].by = founder
    BY <2>2, <2>3 DEF Fair
  <2>5. letter[i] = [to |-> u, role |-> "MANAGER", by |-> founder]
    BY <2>2, <2>3, <2>4 DEF Letter
  <2>6. QED
    BY <2>5
<1>2. QED
  BY <1>1, Inductive, PTL

(* Every member but the founder holds an invitation sent to that member    *)
(* for that role, and a manager one of the founder's: no order of          *)
(* invitations, acceptances, suspensions and stale reads makes a member.   *)
THEOREM NobodyJoinsUninvited == Spec => []RolesComeFromInvitations
<1>1. IInv => MembersWereInvited
  BY DEF IInv
<1>2. RolesComeFromInvitations <=> ManagersAreTheOwnersChoice /\ MembersWereInvited
  BY DEF RolesComeFromInvitations
<1>3. QED
  BY <1>1, <1>2, Inductive, OwnerChoosesManagers, PTL
=============================================================================
