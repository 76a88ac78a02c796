--------------------------- MODULE GroupDBProofs ---------------------------
(***************************************************************************)
(* Theorems about GroupDB, for any number of users, groups, members and    *)
(* requests: the counters, the roles and the counts stay right whatever    *)
(* sequence of requests and restarts the server handles.  Those about the  *)
(* names in members.dat assume ShortNames: delete_group's pass cuts names  *)
(* of more than 44 characters, and is then the one call that breaks them.  *)
(***************************************************************************)
EXTENDS GroupDB, GroupFileLemmas

(* The inductive invariant. *)
IInv ==
  /\ Consistent(groups, members)
  /\ next_group_id = Len(groups) + 1
  /\ RequestsOK(requests, next_join_request_id)
  /\ InvitesOK(invites, next_invite_id)

-----------------------------------------------------------------------------
(* What IInv says, in the words of the specification. *)
LEMMA IInvMeaning ==
  ASSUME IInv
  PROVE  /\ TypeOK
         /\ IdsArePositions
         /\ MemberCountExact
         /\ DeletedGroupIsEmpty
         /\ OnePendingEach
<1>1. /\ groups \in Seq(GroupRecordDB) /\ members \in Seq(MemberRecordDB)
      /\ \A i \in DOMAIN groups : groups[i].group_id = i
  BY DEF IInv, Consistent, Counted
<1>2. /\ requests \in Seq(JoinRequestRecordDB)
      /\ next_join_request_id = Len(requests) + 1
  BY DEF IInv, RequestsOK
<1>3. /\ invites \in Seq(GroupInviteRecordDB)
      /\ next_invite_id = Len(invites) + 1
  BY DEF IInv, InvitesOK
<1>4. TypeOK
  <2>1. /\ next_group_id \in Nat \ {0} /\ next_join_request_id \in Nat \ {0}
        /\ next_invite_id \in Nat \ {0}
    BY <1>1, <1>2, <1>3 DEF IInv
  <2>2. QED BY <1>1, <1>2, <1>3, <2>1 DEF TypeOK
<1>5. IdsArePositions
  BY DEF IInv, Consistent, Counted, RequestsOK, InvitesOK, IdsArePositions
<1>6. MemberCountExact
  BY DEF IInv, Consistent, Counted, MemberCountExact
<1>7. DeletedGroupIsEmpty
  BY DEF IInv, Consistent, Counted, DeletedGroupIsEmpty
<1>8. OnePendingEach
  BY DEF IInv, RequestsOK, InvitesOK, OnePendingEach
<1>9. QED
  BY <1>4, <1>5, <1>6, <1>7, <1>8

LEMMA IInvMeaningOfNames ==
  ASSUME IInv, ShortNames
  PROVE  OneActiveMembership /\ OwnerIsMember /\ OnlyOwnerIsAdmin
<1>1. /\ members \in Seq(MemberRecordDB) /\ Named(groups, members)
      /\ \A i \in DOMAIN groups : groups[i].group_id = i
      /\ \A k \in DOMAIN members : members[k].group_id \in DOMAIN groups
  BY DEF IInv, Consistent, Counted
<1>2. OneActiveMembership
  BY <1>1 DEF Named, OneActiveMembership
<1>3. OwnerIsMember
  <2>1. \A i \in DOMAIN groups : groups[i].is_active =>
          \E k \in ActiveMembers(members, i) : members[k].username = groups[i].owner
    BY <1>1 DEF Named
  <2>2. QED BY <1>1, <2>1, MemberLookup DEF OwnerIsMember
<1>4. OnlyOwnerIsAdmin
  <2>1. SUFFICES ASSUME NEW k \in DOMAIN members,
                        members[k].is_active, members[k].is_admin
                 PROVE  IsGroupOwner(groups, members[k].group_id, members[k].username)
    BY DEF OnlyOwnerIsAdmin
  <2>2. /\ Live(groups, members[k].group_id)
        /\ groups[members[k].group_id].owner = members[k].username
    BY <1>1, <2>1 DEF Named, Live
  <2>3. Consistent(groups, members)
    BY DEF IInv
  <2>4. QED BY <2>2, <2>3, OwnerLookup
<1>5. QED BY <1>2, <1>3, <1>4

LEMMA InitIInv == Init => IInv
<1>1. SUFFICES ASSUME Init PROVE IInv
  OBVIOUS
<1>2. /\ groups = <<>> /\ members = <<>> /\ requests = <<>> /\ invites = <<>>
      /\ next_group_id = 1 /\ next_join_request_id = 1 /\ next_invite_id = 1
  BY <1>1 DEF Init
<1>3. /\ Len(<<>>) = 0 /\ DOMAIN <<>> = {}
      /\ <<>> \in Seq(GroupRecordDB) /\ <<>> \in Seq(MemberRecordDB)
      /\ <<>> \in Seq(JoinRequestRecordDB) /\ <<>> \in Seq(GroupInviteRecordDB)
  OBVIOUS
<1>4. Consistent(groups, members)
  BY <1>2, <1>3 DEF Consistent, Counted, Named
<1>5. RequestsOK(requests, next_join_request_id)
  BY <1>2, <1>3 DEF RequestsOK
<1>6. InvitesOK(invites, next_invite_id)
  BY <1>2, <1>3 DEF InvitesOK
<1>7. QED BY <1>2, <1>3, <1>4, <1>5, <1>6 DEF IInv

-----------------------------------------------------------------------------
(* The updates that several actions share. *)

(* add_member_to_group, and the approvals that call it. *)
LEMMA JoinStep ==
  ASSUME Consistent(groups, members), NEW gid, Live(groups, gid),
         NEW u \in Name, JoinGroup(gid, u)
  PROVE  /\ Consistent(groups', members') /\ Len(groups') = Len(groups)
         /\ CountChanged(groups, gid, 1, groups')
<1>1. gid # 0 /\ ActiveGroupAt(groups, gid) = gid
  <2>1. gid # 0
    BY DEF Consistent, Counted, Live
  <2>2. QED BY <2>1, GroupLookup
<1>2. PICK g, m : g = groups' /\ m = members'
  OBVIOUS
<1>3. JoinEffect(groups, members, gid, u, g, m) /\ ~IsMemberOfGroup(members, gid, u)
  BY <1>1, <1>2 DEF JoinGroup, AddToCount, JoinEffect
<1>4. QED BY <1>2, <1>3, Joined

(* remove_member_from_group and leave_group. *)
LEMMA DropStep ==
  ASSUME Consistent(groups, members), NEW gid, Live(groups, gid),
         NEW u, groups[gid].owner # u, IsMemberOfGroup(members, gid, u),
         DeactivateMember(gid, u), AddToCount(gid, -1)
  PROVE  Consistent(groups', members') /\ Len(groups') = Len(groups)
<1>1. /\ gid # 0 /\ ActiveGroupAt(groups, gid) = gid
      /\ groups[gid].member_count \in Int
  <2>1. groups[gid] \in GroupRecordDB
    BY DEF Consistent, Counted, Live
  <2>2. gid # 0
    BY DEF Consistent, Counted, Live
  <2>3. QED BY <2>1, <2>2, GroupLookup DEF GroupRecordDB
<1>2. PICK g, m : g = groups' /\ m = members'
  OBVIOUS
<1>3. g = [groups EXCEPT ![gid].member_count = @ - 1]
  BY <1>1, <1>2 DEF AddToCount
<1>4. DropEffect(groups, members, gid, u, g, m)
  BY <1>2, <1>3 DEF DeactivateMember, DropEffect
<1>5. QED BY <1>2, <1>4, Dropped

-----------------------------------------------------------------------------
(* Every action keeps the invariant. *)

LEMMA CreateGroupIInv ==
  ASSUME IInv, NEW u \in Account, CreateGroup(u)
  PROVE  IInv'
<1>1. PICK n : n = next_group_id
  OBVIOUS
<1>2. Consistent(groups, members) /\ n = Len(groups) + 1 /\ u \in Name
  BY <1>1, AccountAssumption DEF IInv
<1>3. PICK g, m : g = groups' /\ m = members'
  OBVIOUS
<1>4. CreateEffect(groups, members, n, u, g, m)
  BY <1>1, <1>3 DEF CreateGroup, CreateEffect
<1>5. Consistent(g, m) /\ Len(g) = Len(groups) + 1
  BY <1>2, <1>4, Created
<1>6. /\ UNCHANGED <<requests, invites, next_join_request_id, next_invite_id>>
      /\ next_group_id' = n + 1
  BY <1>1 DEF CreateGroup
<1>7. QED
  BY <1>2, <1>3, <1>5, <1>6 DEF IInv

LEMMA AddMemberIInv ==
  ASSUME IInv, NEW u \in Account, NEW gid, NEW v \in Name, AddMember(u, gid, v)
  PROVE  IInv'
<1>1. Consistent(groups, members) /\ Live(groups, gid)
  BY OwnerLookup DEF IInv, AddMember
<1>2. Consistent(groups', members') /\ Len(groups') = Len(groups)
  BY <1>1, JoinStep DEF AddMember
<1>3. QED BY <1>2 DEF IInv, AddMember, counters

LEMMA RemoveMemberIInv ==
  ASSUME IInv, NEW u \in Account, NEW gid, NEW v \in Name,
         RemoveMember(u, gid, v)
  PROVE  IInv'
<1>1. /\ Consistent(groups, members) /\ Live(groups, gid)
      /\ groups[gid].owner # v
  BY OwnerLookup DEF IInv, RemoveMember
<1>2. Consistent(groups', members') /\ Len(groups') = Len(groups)
  BY <1>1, DropStep DEF RemoveMember
<1>3. QED BY <1>2 DEF IInv, RemoveMember, counters

LEMMA LeaveAsMemberIInv ==
  ASSUME IInv, NEW u \in Account, NEW gid, LeaveAsMember(u, gid)
  PROVE  IInv'
<1>1. /\ Consistent(groups, members)
      /\ IsMemberOfGroup(members, gid, u) /\ DeactivateMember(gid, u)
  BY DEF IInv, LeaveAsMember
<1>2. Live(groups, gid) /\ groups[gid].member_count > 0
  BY <1>1, MembersGroupIsLive
<1>3. groups[gid].owner # u
  BY <1>1, <1>2, OwnerLookup DEF LeaveAsMember
<1>4. ActiveGroupAt(groups, gid) = gid /\ gid # 0
  <2>1. gid # 0
    BY <1>1, <1>2 DEF Consistent, Counted, Live
  <2>2. QED BY <1>1, <1>2, <2>1, GroupLookup
<1>5. AddToCount(gid, -1)
  BY <1>2, <1>4 DEF LeaveAsMember
<1>6. Consistent(groups', members') /\ Len(groups') = Len(groups)
  BY <1>1, <1>2, <1>3, <1>5, DropStep
<1>7. QED BY <1>6 DEF IInv, LeaveAsMember, counters

LEMMA LeaveAsOwnerIInv ==
  ASSUME IInv, NEW u \in Account, NEW gid, LeaveAsOwner(u, gid)
  PROVE  IInv'
<1>1. Consistent(groups, members) /\ Live(groups, gid)
  BY OwnerLookup DEF IInv, LeaveAsOwner
<1>2. ActiveGroupAt(groups, gid) = gid
  BY <1>1, GroupLookup
<1>3. groups[gid].member_count <= 1
  BY <1>2 DEF LeaveAsOwner
<1>4. IsMemberOfGroup(members, gid, groups[gid].owner)
  BY <1>1, OwnerLookup DEF LeaveAsOwner
<1>5. PICK g, m : g = groups' /\ m = members'
  OBVIOUS
<1>6. CloseEffect(groups, members, gid, g, m)
  BY <1>2, <1>5 DEF LeaveAsOwner, DeleteGroup, CloseEffect
<1>7. Consistent(g, m) /\ Len(g) = Len(groups)
  BY <1>1, <1>3, <1>4, <1>6, Closed
<1>8. QED BY <1>5, <1>7 DEF IInv, LeaveAsOwner, counters

LEMMA TransferOwnerIInv ==
  ASSUME IInv, NEW u \in Account, NEW gid, NEW v \in Name,
         TransferOwner(u, gid, v)
  PROVE  IInv'
<1>1. Consistent(groups, members)
  BY DEF IInv
<1>2. Live(groups, gid) /\ groups[gid].owner = u /\ IsMemberOfGroup(members, gid, v)
  BY <1>1, OwnerLookup DEF TransferOwner
<1>3. ActiveGroupAt(groups, gid) = gid
  BY <1>1, <1>2, GroupLookup
<1>4. PICK g, m : g = groups' /\ m = members'
  OBVIOUS
<1>5. TransferEffect(groups, members, gid, u, v, g, m)
  BY <1>3, <1>4 DEF TransferOwner, TransferEffect
<1>6. Consistent(g, m) /\ Len(g) = Len(groups)
  BY <1>1, <1>2, <1>5, HandedOver
<1>7. QED BY <1>4, <1>6 DEF IInv, TransferOwner, counters

LEMMA RequestJoinIInv ==
  ASSUME IInv, NEW u \in Account, NEW gid, RequestJoin(u, gid)
  PROVE  IInv'
<1>1. Consistent(groups, members) /\ groups \in Seq(GroupRecordDB)
  BY DEF IInv, Consistent, Counted
<1>2. gid \in Nat /\ u \in Name
  <2>1. Live(groups, gid)
    BY <1>1, GroupLookup DEF RequestJoin
  <2>2. QED BY <1>1, <2>1, AccountAssumption DEF Live
<1>3. RequestsOK(requests', next_join_request_id + 1)
  BY <1>2, RequestSubmitted DEF IInv, RequestJoin
<1>4. QED BY <1>3 DEF IInv, RequestJoin

LEMMA InviteUserIInv ==
  ASSUME IInv, NEW u \in Account, NEW gid, NEW v \in Name,
         InviteUser(u, gid, v)
  PROVE  IInv'
<1>1. Consistent(groups, members) /\ groups \in Seq(GroupRecordDB)
  BY DEF IInv, Consistent, Counted
<1>2. gid \in Nat /\ u \in Name
  <2>1. Live(groups, gid)
    BY <1>1, OwnerLookup DEF InviteUser
  <2>2. QED BY <1>1, <2>1, AccountAssumption DEF Live
<1>3. InvitesOK(invites', next_invite_id + 1)
  BY <1>2, InviteSubmitted DEF IInv, InviteUser
<1>4. QED BY <1>3 DEF IInv, InviteUser

LEMMA DecideJoinRequestIInv ==
  ASSUME IInv, NEW u \in Account, NEW id, NEW approve \in BOOLEAN,
         DecideJoinRequest(u, id, approve)
  PROVE  IInv'
<1>1. PICK at : at = RequestAt(requests, id)
  OBVIOUS
<1>2. /\ requests \in Seq(JoinRequestRecordDB) /\ at # 0
      /\ requests[at].status = Pending
      /\ IsGroupOwner(groups, requests[at].group_id, u)
      /\ IF approve THEN JoinGroup(requests[at].group_id, requests[at].requester)
                    ELSE UNCHANGED <<groups, members>>
      /\ requests' = Decide(requests, at, approve, u)
      /\ UNCHANGED <<invites, counters>>
  BY <1>1 DEF IInv, RequestsOK, DecideJoinRequest
<1>3. at \in DOMAIN requests
  BY <1>1, <1>2, RequestFound
<1>4. u \in Name /\ requests[at].requester \in Name
  <2>1. requests[at] \in JoinRequestRecordDB
    BY <1>2, <1>3
  <2>2. QED BY <2>1, AccountAssumption DEF JoinRequestRecordDB
<1>5. RequestsOK(requests', next_join_request_id)
  BY <1>2, <1>3, <1>4, RequestDecided DEF IInv
<1>6. Consistent(groups', members') /\ Len(groups') = Len(groups)
  <2>1. CASE approve
    <3>1. Consistent(groups, members) /\ Live(groups, requests[at].group_id)
      BY <1>2, OwnerLookup DEF IInv
    <3>2. QED BY <1>2, <1>4, <2>1, <3>1, JoinStep
  <2>2. CASE ~approve
    BY <1>2, <2>2 DEF IInv
  <2>3. QED BY <2>1, <2>2
<1>7. QED BY <1>2, <1>5, <1>6 DEF IInv, counters

LEMMA DecideInvitationIInv ==
  ASSUME IInv, NEW u \in Account, NEW id, NEW accept \in BOOLEAN,
         DecideInvitation(u, id, accept)
  PROVE  IInv'
<1>1. PICK at : at = InviteAt(invites, id)
  OBVIOUS
<1>2. /\ invites \in Seq(GroupInviteRecordDB) /\ at # 0
      /\ invites[at].status = Pending
      /\ ActiveGroupAt(groups, invites[at].group_id) # 0
      /\ IF accept THEN JoinGroup(invites[at].group_id, u)
                   ELSE UNCHANGED <<groups, members>>
      /\ invites' = Decide(invites, at, accept, u)
      /\ UNCHANGED <<requests, counters>>
  BY <1>1 DEF IInv, InvitesOK, DecideInvitation
<1>3. at \in DOMAIN invites
  BY <1>1, <1>2, InviteFound
<1>4. u \in Name
  BY AccountAssumption
<1>5. InvitesOK(invites', next_invite_id)
  BY <1>2, <1>3, <1>4, InviteDecided DEF IInv
<1>6. Consistent(groups', members') /\ Len(groups') = Len(groups)
  <2>1. CASE accept
    <3>1. Consistent(groups, members) /\ Live(groups, invites[at].group_id)
      BY <1>2, GroupLookup DEF IInv
    <3>2. QED BY <1>2, <1>4, <2>1, <3>1, JoinStep
  <2>2. CASE ~accept
    BY <1>2, <2>2 DEF IInv
  <2>3. QED BY <2>1, <2>2
<1>7. QED BY <1>2, <1>5, <1>6 DEF IInv, counters

(* init_group_db finds the counters where the old process left them. *)
LEMMA RestartIInv ==
  ASSUME IInv, Restart
  PROVE  IInv' /\ UNCHANGED vars
<1>1. /\ Len(groups) \in Nat /\ Len(requests) \in Nat /\ Len(invites) \in Nat
      /\ DOMAIN groups = 1..Len(groups) /\ DOMAIN requests = 1..Len(requests)
      /\ DOMAIN invites = 1..Len(invites)
  BY DEF IInv, Consistent, Counted, RequestsOK, InvitesOK
<1>2. {groups[i].group_id : i \in DOMAIN groups} = 1..Len(groups)
  BY <1>1 DEF IInv, Consistent, Counted
<1>3. {requests[i].request_id : i \in DOMAIN requests} = 1..Len(requests)
  BY <1>1 DEF IInv, RequestsOK
<1>4. {invites[i].invite_id : i \in DOMAIN invites} = 1..Len(invites)
  BY <1>1 DEF IInv, InvitesOK
<1>5. /\ next_group_id' = Len(groups) + 1
      /\ next_join_request_id' = Len(requests) + 1
      /\ next_invite_id' = Len(invites) + 1
  BY <1>1, <1>2, <1>3, <1>4, NextIdFollows DEF Restart
<1>6. UNCHANGED vars
  BY <1>5 DEF IInv, RequestsOK, InvitesOK, Restart, vars, counters
<1>7. QED BY <1>6 DEF IInv, vars, files, counters

LEMMA NextIInv == IInv /\ [Next]_vars => IInv'
<1>1. SUFFICES ASSUME IInv, [Next]_vars PROVE IInv'
  OBVIOUS
<1>2. CASE UNCHANGED vars
  BY <1>1, <1>2 DEF IInv, vars, files, counters
<1>3. CASE Restart
  BY <1>1, <1>3, RestartIInv
<1>4. ASSUME NEW u \in Account, CreateGroup(u) PROVE IInv'
  BY <1>1, <1>4, CreateGroupIInv
<1>5. ASSUME NEW u \in Account, NEW gid \in KnownGroupId, NEW v \in Name,
             \/ AddMember(u, gid, v) \/ RemoveMember(u, gid, v)
             \/ TransferOwner(u, gid, v) \/ InviteUser(u, gid, v)
      PROVE  IInv'
  BY <1>1, <1>5, AddMemberIInv, RemoveMemberIInv, TransferOwnerIInv,
     InviteUserIInv
<1>6. ASSUME NEW u \in Account, NEW gid \in KnownGroupId,
             \/ LeaveAsMember(u, gid) \/ LeaveAsOwner(u, gid)
             \/ RequestJoin(u, gid)
      PROVE  IInv'
  BY <1>1, <1>6, LeaveAsMemberIInv, LeaveAsOwnerIInv, RequestJoinIInv
<1>7. ASSUME NEW u \in Account, NEW b \in BOOLEAN, NEW id,
             DecideJoinRequest(u, id, b) \/ DecideInvitation(u, id, b)
      PROVE  IInv'
  BY <1>1, <1>7, DecideJoinRequestIInv, DecideInvitationIInv
<1>8. QED
  BY <1>1, <1>2, <1>3, <1>4, <1>5, <1>6, <1>7 DEF Next

-----------------------------------------------------------------------------
(* The theorems. *)

(* IInv holds in every state of the server. *)
THEOREM Invariance == Spec => []IInv
<1>1. Init => IInv
  BY InitIInv
<1>2. IInv /\ [Next]_vars => IInv'
  BY NextIInv
<1>3. QED BY <1>1, <1>2, PTL DEF Spec

(* The files always hold whole records, and no counter is ever 0. *)
THEOREM TypeCorrect == Spec => []TypeOK
<1>1. IInv => TypeOK
  BY IInvMeaning
<1>2. QED BY <1>1, Invariance, PTL

(* No id of a group, request or invitation is given out twice, restarts    *)
(* included: ids are positions and the counters follow the last one.       *)
THEOREM IdsNeverReused == Spec => []IdsArePositions
<1>1. IInv => IdsArePositions
  BY IInvMeaning
<1>2. QED BY <1>1, Invariance, PTL

(* member_count is the number of active member records of a live group,    *)
(* along every path by which members come and go.                          *)
THEOREM CountIsExact == Spec => []MemberCountExact
<1>1. IInv => MemberCountExact
  BY IInvMeaning
<1>2. QED BY <1>1, Invariance, PTL

(* Nobody is ever in a group twice, while no name is long. *)
THEOREM NobodyTwice ==
  ASSUME ShortNames
  PROVE  Spec => []OneActiveMembership
<1>1. IInv => OneActiveMembership
  BY IInvMeaningOfNames
<1>2. QED BY <1>1, Invariance, PTL

(* The owner of a live group is one of its members, while no name is long. *)
THEOREM OwnerStaysInside ==
  ASSUME ShortNames
  PROVE  Spec => []OwnerIsMember
<1>1. IInv => OwnerIsMember
  BY IInvMeaningOfNames
<1>2. QED BY <1>1, Invariance, PTL

(* A record with the admin flag of an active member is the owner's, while  *)
(* no name is long.                                                        *)
THEOREM NoStrayAdmin ==
  ASSUME ShortNames
  PROVE  Spec => []OnlyOwnerIsAdmin
<1>1. IInv => OnlyOwnerIsAdmin
  BY IInvMeaningOfNames
<1>2. QED BY <1>1, Invariance, PTL

(* Nobody stays a member of a deleted group, though delete_group           *)
(* deactivates one record only.                                            *)
THEOREM NothingLeftBehind == Spec => []DeletedGroupIsEmpty
<1>1. IInv => DeletedGroupIsEmpty
  BY IInvMeaning
<1>2. QED BY <1>1, Invariance, PTL

(* One user has at most one request and one invitation waiting per group. *)
THEOREM NothingPendingTwice == Spec => []OnePendingEach
<1>1. IInv => OnePendingEach
  BY IInvMeaning
<1>2. QED BY <1>1, Invariance, PTL

(* A decided request or invitation is never changed again. *)
LEMMA NextDecisionsStay == IInv /\ [Next]_vars => [DecisionsStay]_vars
<1>1. SUFFICES ASSUME IInv, Next PROVE DecisionsStay
  OBVIOUS
<1>2. ASSUME NEW u \in Account, NEW id, NEW b \in BOOLEAN,
             DecideJoinRequest(u, id, b)
      PROVE  DecisionsStay
  <2>1. PICK at : at = RequestAt(requests, id)
    OBVIOUS
  <2>2. /\ requests \in Seq(JoinRequestRecordDB) /\ at # 0
        /\ requests[at].status = Pending
        /\ requests' = Decide(requests, at, b, u) /\ invites' = invites
    BY <1>1, <1>2, <2>1 DEF IInv, RequestsOK, DecideJoinRequest
  <2>3. at \in DOMAIN requests /\ u \in Name
    BY <2>1, <2>2, RequestFound, AccountAssumption
  <2>4. \A i \in DOMAIN requests :
          requests[i].status # Pending => requests'[i] = requests[i]
    BY <1>1, <2>2, <2>3, RequestDecided DEF IInv
  <2>5. QED BY <2>2, <2>4 DEF DecisionsStay
<1>3. ASSUME NEW u \in Account, NEW id, NEW b \in BOOLEAN,
             DecideInvitation(u, id, b)
      PROVE  DecisionsStay
  <2>1. PICK at : at = InviteAt(invites, id)
    OBVIOUS
  <2>2. /\ invites \in Seq(GroupInviteRecordDB) /\ at # 0
        /\ invites[at].status = Pending
        /\ invites' = Decide(invites, at, b, u) /\ requests' = requests
    BY <1>1, <1>3, <2>1 DEF IInv, InvitesOK, DecideInvitation
  <2>3. at \in DOMAIN invites /\ u \in Name
    BY <2>1, <2>2, InviteFound, AccountAssumption
  <2>4. \A i \in DOMAIN invites :
          invites[i].status # Pending => invites'[i] = invites[i]
    BY <1>1, <2>2, <2>3, InviteDecided DEF IInv
  <2>5. QED BY <2>2, <2>4 DEF DecisionsStay
<1>4. ASSUME NEW u \in Account, NEW gid, RequestJoin(u, gid)
      PROVE  DecisionsStay
  <2>1. Live(groups, gid)
    BY <1>1, <1>4, GroupLookup DEF IInv, RequestJoin
  <2>2. gid \in Nat /\ u \in Name
    BY <1>1, <2>1, AccountAssumption DEF IInv, Consistent, Counted, Live
  <2>3. \A i \in DOMAIN requests : requests'[i] = requests[i]
    BY <1>1, <1>4, <2>2, RequestSubmitted DEF IInv, RequestJoin
  <2>4. QED BY <1>4, <2>3 DEF RequestJoin, DecisionsStay
<1>5. ASSUME NEW u \in Account, NEW gid, NEW v \in Name, InviteUser(u, gid, v)
      PROVE  DecisionsStay
  <2>1. Live(groups, gid)
    BY <1>1, <1>5, OwnerLookup DEF IInv, InviteUser
  <2>2. gid \in Nat /\ u \in Name
    BY <1>1, <2>1, AccountAssumption DEF IInv, Consistent, Counted, Live
  <2>3. \A i \in DOMAIN invites : invites'[i] = invites[i]
    BY <1>1, <1>5, <2>2, InviteSubmitted DEF IInv, InviteUser
  <2>4. QED BY <1>5, <2>3 DEF InviteUser, DecisionsStay
<1>6. ASSUME UNCHANGED <<requests, invites>>
      PROVE  DecisionsStay
  BY <1>6 DEF DecisionsStay
<1>7. QED
  BY <1>1, <1>2, <1>3, <1>4, <1>5, <1>6
     DEF Next, CreateGroup, AddMember, RemoveMember, LeaveAsMember,
         LeaveAsOwner, TransferOwner, Restart, files

THEOREM DecidedOnce == Spec => DecisionsAreFinal
<1>1. IInv /\ [Next]_vars => [DecisionsStay]_vars
  BY NextDecisionsStay
<1>2. QED
  BY <1>1, Invariance, PTL DEF Spec, DecisionsAreFinal

(* A group is deleted only when its owner is the one member left. *)
LEMMA NextClosesWhenOwnerAlone ==
  IInv /\ [Next]_vars => [ClosesWhenOwnerAlone]_vars
<1>1. SUFFICES ASSUME IInv, Next PROVE ClosesWhenOwnerAlone
  OBVIOUS
<1>2. Consistent(groups, members) /\ groups \in Seq(GroupRecordDB)
  BY <1>1 DEF IInv, Consistent, Counted
<1>3. ASSUME \A i \in DOMAIN groups : groups[i].is_active => groups'[i].is_active
      PROVE  ClosesWhenOwnerAlone
  BY <1>3 DEF ClosesWhenOwnerAlone
<1>4. ASSUME NEW gid, NEW d, CountChanged(groups, gid, d, groups')
      PROVE  ClosesWhenOwnerAlone
  BY <1>3, <1>4 DEF CountChanged
<1>5. ASSUME UNCHANGED groups
      PROVE  ClosesWhenOwnerAlone
  BY <1>3, <1>5
<1>6. ASSUME NEW u \in Account, CreateGroup(u)
      PROVE  ClosesWhenOwnerAlone
  <2>1. u \in Name /\ next_group_id = Len(groups) + 1
    BY <1>1, AccountAssumption DEF IInv
  <2>2. groups' = Append(groups, NewGroup(next_group_id, u))
    BY <1>6 DEF CreateGroup
  <2>3. GroupAppended(groups, next_group_id, u, groups')
    BY <1>2, <2>1, <2>2, NewGroupAppended
  <2>4. QED BY <1>3, <2>3 DEF GroupAppended
<1>7. ASSUME NEW gid, Live(groups, gid), NEW v \in Name, JoinGroup(gid, v)
      PROVE  ClosesWhenOwnerAlone
  BY <1>2, <1>4, <1>7, JoinStep
<1>8. ASSUME NEW u \in Account, NEW gid, NEW v \in Name, AddMember(u, gid, v)
      PROVE  ClosesWhenOwnerAlone
  BY <1>2, <1>7, <1>8, OwnerLookup DEF AddMember
<1>9. ASSUME NEW gid, AddToCount(gid, -1)
      PROVE  ClosesWhenOwnerAlone
  <2>1. CASE Live(groups, gid)
    <3>1. ActiveGroupAt(groups, gid) = gid /\ gid \in DOMAIN groups /\ gid # 0
      BY <1>2, <2>1, GroupLookup DEF Live
    <3>2. PICK d \in Int : d = -1
      OBVIOUS
    <3>3. groups' = [groups EXCEPT ![gid].member_count = @ + d]
      BY <1>9, <3>1, <3>2 DEF AddToCount
    <3>4. CountChanged(groups, gid, d, groups')
      BY <1>2, <3>1, <3>3, CountUpdated, Zenon
    <3>5. QED BY <1>4, <3>4
  <2>2. CASE ~Live(groups, gid)
    <3>1. UNCHANGED groups
      BY <1>2, <1>9, <2>2, GroupLookup DEF AddToCount
    <3>2. QED BY <1>5, <3>1
  <2>3. QED BY <2>1, <2>2
<1>10. ASSUME NEW u \in Account, NEW gid, NEW v \in Name, RemoveMember(u, gid, v)
       PROVE  ClosesWhenOwnerAlone
  BY <1>9, <1>10 DEF RemoveMember
<1>11. ASSUME NEW u \in Account, NEW gid, LeaveAsMember(u, gid)
       PROVE  ClosesWhenOwnerAlone
  BY <1>5, <1>9, <1>11 DEF LeaveAsMember
<1>12. ASSUME NEW u \in Account, NEW gid, LeaveAsOwner(u, gid)
       PROVE  ClosesWhenOwnerAlone
  <2>1. Live(groups, gid)
    BY <1>2, <1>12, OwnerLookup DEF LeaveAsOwner
  <2>2. ActiveGroupAt(groups, gid) = gid /\ gid \in DOMAIN groups
    BY <1>2, <2>1, GroupLookup DEF Live
  <2>3. /\ groups[gid].member_count <= 1
        /\ groups' = [groups EXCEPT ![gid].is_active = FALSE]
        /\ IsMemberOfGroup(members, gid, groups[gid].owner)
    BY <1>2, <1>12, <2>2, OwnerLookup DEF LeaveAsOwner, DeleteGroup
  <2>4. GroupClosed(groups, gid, groups')
    BY <1>2, <2>2, <2>3, GroupDeactivated
  <2>5. PICK k \in DOMAIN members : /\ ActiveMembers(members, gid) = {k}
                                    /\ members[k].username = groups[gid].owner
    BY <1>2, <2>1, <2>3, LastMember
  <2>6. groups[gid].group_id = gid
    BY <1>2, <2>2 DEF Consistent, Counted
  <2>7. SUFFICES ASSUME NEW i \in DOMAIN groups,
                        groups[i].is_active, ~groups'[i].is_active,
                        NEW j \in ActiveMembers(members, groups[i].group_id)
                 PROVE  members[j].username = groups[i].owner
    BY DEF ClosesWhenOwnerAlone
  <2>8. i = gid
    BY <2>4, <2>7 DEF GroupClosed
  <2>9. QED BY <2>5, <2>6, <2>7, <2>8
<1>13. ASSUME NEW u \in Account, NEW gid, NEW v \in Name, TransferOwner(u, gid, v)
       PROVE  ClosesWhenOwnerAlone
  <2>1. Live(groups, gid)
    BY <1>2, <1>13, OwnerLookup DEF TransferOwner
  <2>2. ActiveGroupAt(groups, gid) = gid /\ gid \in DOMAIN groups
    BY <1>2, <2>1, GroupLookup DEF Live
  <2>3. groups' = [groups EXCEPT ![gid].owner = v]
    BY <1>13, <2>2 DEF TransferOwner
  <2>4. OwnerChanged(groups, gid, v, groups')
    BY <1>2, <2>2, <2>3, OwnerUpdated
  <2>5. QED BY <1>3, <2>4 DEF OwnerChanged
<1>14. ASSUME NEW u \in Account, NEW id, NEW b \in BOOLEAN,
              DecideJoinRequest(u, id, b)
       PROVE  ClosesWhenOwnerAlone
  <2>1. PICK at : at = RequestAt(requests, id)
    OBVIOUS
  <2>2. /\ requests \in Seq(JoinRequestRecordDB) /\ at # 0
        /\ IsGroupOwner(groups, requests[at].group_id, u)
        /\ IF b THEN JoinGroup(requests[at].group_id, requests[at].requester)
                ELSE UNCHANGED <<groups, members>>
    BY <1>1, <1>14, <2>1 DEF IInv, RequestsOK, DecideJoinRequest
  <2>3. requests[at] \in JoinRequestRecordDB
    BY <2>1, <2>2, RequestFound
  <2>4. requests[at].requester \in Name /\ Live(groups, requests[at].group_id)
    BY <1>2, <2>2, <2>3, OwnerLookup DEF JoinRequestRecordDB
  <2>5. QED BY <1>5, <1>7, <2>2, <2>4
<1>15. ASSUME NEW u \in Account, NEW id, NEW b \in BOOLEAN,
              DecideInvitation(u, id, b)
       PROVE  ClosesWhenOwnerAlone
  <2>1. PICK at : at = InviteAt(invites, id)
    OBVIOUS
  <2>2. /\ ActiveGroupAt(groups, invites[at].group_id) # 0
        /\ IF b THEN JoinGroup(invites[at].group_id, u)
                ELSE UNCHANGED <<groups, members>>
    BY <1>15, <2>1 DEF DecideInvitation
  <2>3. u \in Name /\ Live(groups, invites[at].group_id)
    BY <1>2, <2>2, GroupLookup, AccountAssumption
  <2>4. QED BY <1>5, <1>7, <2>2, <2>3
<1>16. QED
  BY <1>1, <1>5, <1>6, <1>8, <1>10, <1>11, <1>12, <1>13, <1>14, <1>15
     DEF Next, RequestJoin, InviteUser, Restart, files

THEOREM OwnerIsLastToLeave == Spec => OwnerLeavesLast
<1>1. IInv /\ [Next]_vars => [ClosesWhenOwnerAlone]_vars
  BY NextClosesWhenOwnerAlone
<1>2. QED
  BY <1>1, Invariance, PTL DEF Spec, OwnerLeavesLast

(* A membership that ended stays as it is, while no name is long. *)
LEMMA NextEndedStays ==
  ASSUME ShortNames
  PROVE  IInv /\ [Next]_vars => [EndedStays]_vars
<1>1. SUFFICES ASSUME IInv, Next PROVE EndedStays
  OBVIOUS
<1>2. members \in Seq(MemberRecordDB)
  BY <1>1 DEF IInv, Consistent, Counted
<1>3. ASSUME NEW r, members' = Append(members, r)
      PROVE  EndedStays
  BY <1>2, <1>3 DEF EndedStays
<1>4. ASSUME NEW at \in DOMAIN members, members[at].is_active,
             members' = Deactivate(members, at)
      PROVE  EndedStays
  BY <1>2, <1>4 DEF EndedStays, Deactivate
<1>5. ASSUME UNCHANGED members
      PROVE  EndedStays
  BY <1>5 DEF EndedStays
<1>6. ASSUME NEW gid, NEW u, IsMemberOfGroup(members, gid, u),
             DeactivateMember(gid, u)
      PROVE  EndedStays
  <2>1. PICK at : at = ActiveMemberAt(members, gid, u)
    OBVIOUS
  <2>2. at # 0
    BY <1>6, <2>1 DEF IsMemberOfGroup
  <2>3. at \in DOMAIN members /\ members[at].is_active
    BY <1>2, <2>1, <2>2, ActiveMemberFound
  <2>4. members' = Deactivate(members, at)
    BY <1>6, <2>1 DEF DeactivateMember
  <2>5. QED BY <1>4, <2>3, <2>4
<1>7. ASSUME NEW gid, DeleteGroup(gid)
      PROVE  EndedStays
  <2>1. PICK at : at = FirstActiveMemberAt(members, gid)
    OBVIOUS
  <2>2. PICK m : m = members' /\ m = EndMembers(members, gid)
    BY <1>7 DEF DeleteGroup
  <2>3. CASE at = 0
    BY <1>5, <2>1, <2>2, <2>3 DEF EndMembers
  <2>4. CASE at # 0
    <3>1. at \in ActiveMembers(members, gid)
      BY <1>2, <2>1, <2>4, FirstActiveMemberFound
    <3>2. at \in DOMAIN members /\ members[at].is_active
      BY <3>1 DEF ActiveMembers
    <3>3. Ended(members, at, m)
      BY <1>2, <2>1, <2>2, <3>2, MembersEnded
    <3>4. SUFFICES ASSUME NEW k \in DOMAIN members, ~members[k].is_active
                   PROVE  m[k] = members[k]
      BY <2>2 DEF EndedStays
    <3>5. /\ m[k].group_id = members[k].group_id
          /\ m[k].username = members[k].username
          /\ m[k].is_admin = members[k].is_admin
          /\ m[k].is_active = members[k].is_active
          /\ m[k] \in MemberRecordDB /\ members[k] \in MemberRecordDB
      BY <1>2, <3>2, <3>3, <3>4 DEF Ended
    <3>6. QED BY <3>5 DEF MemberRecordDB
  <2>5. QED BY <2>3, <2>4
<1>8. ASSUME NEW u, NEW gid, NEW v, TransferOwner(u, gid, v)
      PROVE  EndedStays
  <2>1. \A k \in DOMAIN members :
          members'[k] = RoleAfterTransfer(members[k], gid, u, v)
    BY <1>8 DEF TransferOwner
  <2>2. QED BY <2>1 DEF RoleAfterTransfer, EndedStays
<1>9. ASSUME NEW gid, NEW u, JoinGroup(gid, u)
      PROVE  EndedStays
  BY <1>3, <1>9 DEF JoinGroup
<1>10. ASSUME NEW u, NEW id, NEW b, DecideJoinRequest(u, id, b)
       PROVE  EndedStays
  <2>1. \E gid, v : JoinGroup(gid, v) \/ UNCHANGED members
    BY <1>10 DEF DecideJoinRequest
  <2>2. QED BY <1>5, <1>9, <2>1
<1>11. ASSUME NEW u, NEW id, NEW b, DecideInvitation(u, id, b)
       PROVE  EndedStays
  <2>1. \E gid, v : JoinGroup(gid, v) \/ UNCHANGED members
    BY <1>11 DEF DecideInvitation
  <2>2. QED BY <1>5, <1>9, <2>1
<1>12. ASSUME NEW u, NEW gid, LeaveAsOwner(u, gid)
       PROVE  EndedStays
  BY <1>7, <1>12 DEF LeaveAsOwner
<1>13. ASSUME NEW u, CreateGroup(u)
       PROVE  EndedStays
  BY <1>3, <1>13 DEF CreateGroup
<1>14. ASSUME NEW u, NEW gid, NEW v, AddMember(u, gid, v)
       PROVE  EndedStays
  BY <1>9, <1>14 DEF AddMember
<1>15. QED
  BY <1>1, <1>5, <1>6, <1>8, <1>10, <1>11, <1>12, <1>13, <1>14
     DEF Next, RemoveMember, LeaveAsMember, RequestJoin, InviteUser, Restart, files

THEOREM EndedForGood ==
  ASSUME ShortNames
  PROVE  Spec => RemovalIsFinal
<1>1. IInv /\ [Next]_vars => [EndedStays]_vars
  BY NextEndedStays
<1>2. QED
  BY <1>1, Invariance, PTL DEF Spec, RemovalIsFinal
=============================================================================
