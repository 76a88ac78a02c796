------------------------------ MODULE GroupDB ------------------------------
(***************************************************************************)
(* What server/group_db.c promises when its calls do not overlap: every    *)
(* request of server/server.c that changes the group files, together with  *)
(* the handler that checks it, is one atomic step.  A call that the code   *)
(* refuses (its negative return codes) changes no file and is no step.     *)
(*                                                                         *)
(* The server runs one thread per connection, and group_db.c locks only    *)
(* the two request files, so that calls DO overlap.  This module is the    *)
(* specification those overlapping calls are measured against.             *)
(*                                                                         *)
(* A definition with a suffix, such as JoinGroup_NoCount, is the           *)
(* definition it is named after with one plausible mistake in it: the      *)
(* properties are tried against it, and no specification uses it.          *)
(***************************************************************************)
EXTENDS GroupRecords

CONSTANTS
  Account,      (* The names registered in users.dat: who can log in.      *)
  MaxGroups,    (* Bounds of the model on the records of each file.        *)
  MaxMembers,
  MaxRequests,
  MaxInvites

ASSUME AccountAssumption == Account \subseteq Name
ASSUME BoundsAssumption ==
  {MaxGroups, MaxMembers, MaxRequests, MaxInvites} \subseteq Nat

VARIABLES
  groups,                (* data/groups.dat                                *)
  members,               (* data/members.dat                               *)
  requests,              (* data/group_join_requests.dat                   *)
  invites,               (* data/group_invites.dat                         *)
  next_group_id,         (* The counters of the server process.            *)
  next_join_request_id,
  next_invite_id

files    == <<groups, members, requests, invites>>
counters == <<next_group_id, next_join_request_id, next_invite_id>>
vars     == <<files, counters>>

(* The files hold whole records and no counter stands at 0, the id the     *)
(* handlers read as a failure (group_id > 0, req_id > 0, rc > 0).          *)
TypeOK ==
  /\ groups \in Seq(GroupRecordDB)
  /\ members \in Seq(MemberRecordDB)
  /\ requests \in Seq(JoinRequestRecordDB)
  /\ invites \in Seq(GroupInviteRecordDB)
  /\ {next_group_id, next_join_request_id, next_invite_id} \subseteq Nat \ {0}

(* init_group_db on a data directory without files. *)
Init_IdsFromZero ==
  /\ groups = <<>> /\ members = <<>> /\ requests = <<>> /\ invites = <<>>
  /\ next_group_id = 0 /\ next_join_request_id = 0 /\ next_invite_id = 0

Init ==
  /\ groups = <<>> /\ members = <<>> /\ requests = <<>> /\ invites = <<>>
  /\ next_group_id = 1 /\ next_join_request_id = 1 /\ next_invite_id = 1

-----------------------------------------------------------------------------
(* Updates that several calls make. *)

(* member_count of the first active record of the group, plus d. *)
AddToCount(gid, d) ==
  LET at == ActiveGroupAt(groups, gid) IN
  groups' = IF at = 0 THEN groups
            ELSE [groups EXCEPT ![at].member_count = @ + d]

DeactivateMember(gid, u) ==
  members' = Deactivate(members, ActiveMemberAt(members, gid, u))

(* add_member_to_group for a requester who is the owner. *)
JoinGroup_NoDuplicateCheck(gid, u) ==
  /\ Len(members) < MaxMembers
  /\ members' = Append(members, NewMember(gid, u, FALSE))
  /\ AddToCount(gid, 1)

JoinGroup_NoCount(gid, u) ==
  /\ Len(members) < MaxMembers
  /\ ~IsMemberOfGroup(members, gid, u)
  /\ members' = Append(members, NewMember(gid, u, FALSE))
  /\ UNCHANGED groups

JoinGroup(gid, u) ==
  /\ Len(members) < MaxMembers
  /\ ~IsMemberOfGroup(members, gid, u)
  /\ members' = Append(members, NewMember(gid, u, FALSE))
  /\ AddToCount(gid, 1)

-----------------------------------------------------------------------------
(* Groups and members. *)

CreateGroup(u) ==
  /\ Len(groups) < MaxGroups /\ Len(members) < MaxMembers
  /\ groups' = Append(groups, NewGroup(next_group_id, u))
  /\ members' = Append(members, NewMember(next_group_id, u, TRUE))
  /\ next_group_id' = next_group_id + 1
  /\ UNCHANGED <<requests, invites, next_join_request_id, next_invite_id>>

AddMember(requester, gid, u) ==
  /\ IsGroupOwner(groups, gid, requester)
  /\ JoinGroup(gid, u)
  /\ UNCHANGED <<requests, invites, counters>>

RemoveMember_OwnerToo(requester, gid, u) ==
  /\ IsGroupOwner(groups, gid, requester)
  /\ IsMemberOfGroup(members, gid, u)
  /\ DeactivateMember(gid, u)
  /\ AddToCount(gid, -1)
  /\ UNCHANGED <<requests, invites, counters>>

RemoveMember(requester, gid, u) ==
  /\ IsGroupOwner(groups, gid, requester)
  /\ ~IsGroupOwner(groups, gid, u)
  /\ IsMemberOfGroup(members, gid, u)
  /\ DeactivateMember(gid, u)
  /\ AddToCount(gid, -1)
  /\ UNCHANGED <<requests, invites, counters>>

(* leave_group of somebody who is not the owner. *)
LeaveAsMember(u, gid) ==
  /\ IsMemberOfGroup(members, gid, u)
  /\ ~IsGroupOwner(groups, gid, u)
  /\ DeactivateMember(gid, u)
  /\ LET at == ActiveGroupAt(groups, gid) IN
     IF at # 0 /\ groups[at].member_count > 0
     THEN AddToCount(gid, -1)
     ELSE UNCHANGED groups
  /\ UNCHANGED <<requests, invites, counters>>

(* delete_group, whose only caller is leave_group.  *)
DeleteGroup_KeepMembers(gid) ==
  /\ groups' = [groups EXCEPT ![ActiveGroupAt(groups, gid)].is_active = FALSE]
  /\ UNCHANGED members

DeleteGroup(gid) ==
  /\ groups' = [groups EXCEPT ![ActiveGroupAt(groups, gid)].is_active = FALSE]
  /\ members' = EndMembers(members, gid)

(* leave_group of the owner, who must be the last one. *)
LeaveAsOwner_OffByOne(u, gid) ==
  /\ IsMemberOfGroup(members, gid, u)
  /\ IsGroupOwner(groups, gid, u)
  /\ groups[ActiveGroupAt(groups, gid)].member_count <= 2
  /\ DeleteGroup(gid)
  /\ UNCHANGED <<requests, invites, counters>>

LeaveAsOwner(u, gid) ==
  /\ IsMemberOfGroup(members, gid, u)
  /\ IsGroupOwner(groups, gid, u)
  /\ groups[ActiveGroupAt(groups, gid)].member_count <= 1
  /\ DeleteGroup(gid)
  /\ UNCHANGED <<requests, invites, counters>>

TransferOwner(u, gid, new_owner) ==
  /\ IsGroupOwner(groups, gid, u)
  /\ IsMemberOfGroup(members, gid, new_owner)
  /\ groups' = [groups EXCEPT ![ActiveGroupAt(groups, gid)].owner = new_owner]
  /\ members' = [i \in DOMAIN members |->
                   RoleAfterTransfer(members[i], gid, u, new_owner)]
  /\ UNCHANGED <<requests, invites, counters>>

-----------------------------------------------------------------------------
(* Join requests. *)

RequestJoin_Again(u, gid) ==
  /\ Len(requests) < MaxRequests
  /\ ~IsMemberOfGroup(members, gid, u)
  /\ ActiveGroupAt(groups, gid) # 0
  /\ requests' = Append(requests, NewRequest(next_join_request_id, gid, u))
  /\ next_join_request_id' = next_join_request_id + 1
  /\ UNCHANGED <<groups, members, invites, next_group_id, next_invite_id>>

RequestJoin(u, gid) ==
  /\ Len(requests) < MaxRequests
  /\ ~IsMemberOfGroup(members, gid, u)
  /\ ~IsGroupOwner(groups, gid, u)
  /\ ActiveGroupAt(groups, gid) # 0
  /\ ~PendingRequestExists(requests, gid, u)
  /\ requests' = Append(requests, NewRequest(next_join_request_id, gid, u))
  /\ next_join_request_id' = next_join_request_id + 1
  /\ UNCHANGED <<groups, members, invites, next_group_id, next_invite_id>>

DecideJoinRequest_Twice(u, id, approve) ==
  LET at  == RequestAt(requests, id)
      req == requests[at]
  IN /\ at # 0
     /\ IsGroupOwner(groups, req.group_id, u)
     /\ IF approve THEN JoinGroup(req.group_id, req.requester)
                   ELSE UNCHANGED <<groups, members>>
     /\ requests' = Decide(requests, at, approve, u)
     /\ UNCHANGED <<invites, counters>>

(* An approval that add_member_to_group refuses is refused as a whole: the *)
(* request stays pending.                                                  *)
DecideJoinRequest(u, id, approve) ==
  LET at  == RequestAt(requests, id)
      req == requests[at]
  IN /\ at # 0
     /\ IsGroupOwner(groups, req.group_id, u)
     /\ req.status = Pending
     /\ IF approve THEN JoinGroup(req.group_id, req.requester)
                   ELSE UNCHANGED <<groups, members>>
     /\ requests' = Decide(requests, at, approve, u)
     /\ UNCHANGED <<invites, counters>>

-----------------------------------------------------------------------------
(* Invitations. *)

InviteUser(u, gid, invitee) ==
  /\ Len(invites) < MaxInvites
  /\ invitee \in Account \ {u}
  /\ IsGroupOwner(groups, gid, u)
  /\ ~IsMemberOfGroup(members, gid, invitee)
  /\ ~PendingInviteExists(invites, gid, invitee)
  /\ invites' = Append(invites, NewInvite(next_invite_id, gid, u, invitee))
  /\ next_invite_id' = next_invite_id + 1
  /\ UNCHANGED <<groups, members, requests, next_group_id, next_join_request_id>>

(* The invitee joins in the name of whoever owns the group by now. *)
DecideInvitation(u, id, accept) ==
  LET at  == InviteAt(invites, id)
      inv == invites[at]
  IN /\ at # 0
     /\ inv.invitee = u
     /\ inv.status = Pending
     /\ ActiveGroupAt(groups, inv.group_id) # 0
     /\ IF accept THEN JoinGroup(inv.group_id, u)
                  ELSE UNCHANGED <<groups, members>>
     /\ invites' = Decide(invites, at, accept, u)
     /\ UNCHANGED <<requests, counters>>

-----------------------------------------------------------------------------
(* The server stops and starts again: init_group_db sets the counters from *)
(* the ids in the files.                                                   *)
Restart ==
  /\ next_group_id' = NextIdAfter({groups[i].group_id : i \in DOMAIN groups})
  /\ next_join_request_id' =
       NextIdAfter({requests[i].request_id : i \in DOMAIN requests})
  /\ next_invite_id' =
       NextIdAfter({invites[i].invite_id : i \in DOMAIN invites})
  /\ UNCHANGED files

(* The ids a client may send: those given out, decided or deleted since,   *)
(* and one that was not.                                                   *)
KnownGroupId == 1..(Len(groups) + 1)

Next ==
  \/ \E u \in Account :
       \/ CreateGroup(u)
       \/ \E gid \in KnownGroupId :
            \/ \E v \in Name : \/ AddMember(u, gid, v)
                               \/ RemoveMember(u, gid, v)
                               \/ TransferOwner(u, gid, v)
                               \/ InviteUser(u, gid, v)
            \/ LeaveAsMember(u, gid)
            \/ LeaveAsOwner(u, gid)
            \/ RequestJoin(u, gid)
       \/ \E b \in BOOLEAN :
            \/ \E id \in 1..(Len(requests) + 1) : DecideJoinRequest(u, id, b)
            \/ \E id \in 1..(Len(invites) + 1) : DecideInvitation(u, id, b)
  \/ Restart

Spec == Init /\ [][Next]_vars

-----------------------------------------------------------------------------
(* Every id a server assigned stays the position of its record, so that a  *)
(* restart finds the counters where the old process left them and no id is *)
(* ever given out twice (init_group_db, create_group).                     *)
IdsArePositions ==
  /\ \A i \in DOMAIN groups : groups[i].group_id = i
  /\ \A i \in DOMAIN requests : requests[i].request_id = i
  /\ \A i \in DOMAIN invites : invites[i].invite_id = i
  /\ next_group_id = Len(groups) + 1
  /\ next_join_request_id = Len(requests) + 1
  /\ next_invite_id = Len(invites) + 1

(* member_count of a live group is the number of its active member records *)
(* whatever the path by which members came and went: add, approve, accept, *)
(* remove, leave.                                                          *)
MemberCountExact ==
  \A i \in DOMAIN groups :
    groups[i].is_active =>
      groups[i].member_count =
        Cardinality(ActiveMembers(members, groups[i].group_id))

(* Nobody is in a group twice, though three handlers can add the same user *)
(* (add_member_to_group's -2).                                             *)
OneActiveMembership ==
  \A i, j \in DOMAIN members :
    /\ members[i].is_active /\ members[j].is_active
    /\ members[i].group_id = members[j].group_id
    /\ members[i].username = members[j].username
    => i = j

(* The owner of a live group is one of its members: neither a transfer nor *)
(* a removal nor a departure leaves a group to somebody outside it.        *)
OwnerIsMember ==
  \A i \in DOMAIN groups :
    groups[i].is_active =>
      IsMemberOfGroup(members, groups[i].group_id, groups[i].owner)

(* An active member record with the admin flag is the owner's: a transfer  *)
(* leaves no second admin behind.                                          *)
OnlyOwnerIsAdmin ==
  \A i \in DOMAIN members :
    members[i].is_active /\ members[i].is_admin =>
      IsGroupOwner(groups, members[i].group_id, members[i].username)

(* The other direction, as group_db.h says of is_admin: 1 is the owner.    *)
OwnerIsAdmin ==
  \A i \in DOMAIN members :
    /\ members[i].is_active
    /\ IsGroupOwner(groups, members[i].group_id, members[i].username)
    => members[i].is_admin

(* Nobody stays an active member of a deleted group.  delete_group         *)
(* deactivates a single record, so this rests on the owner being alone.    *)
DeletedGroupIsEmpty ==
  \A i \in DOMAIN groups :
    ~groups[i].is_active => ActiveMembers(members, groups[i].group_id) = {}

(* One user has at most one request and one invitation waiting for a       *)
(* group, however often requests were decided and sent again.              *)
OnePendingEach ==
  /\ \A i, j \in DOMAIN requests :
       /\ requests[i].status = Pending /\ requests[j].status = Pending
       /\ requests[i].group_id = requests[j].group_id
       /\ requests[i].requester = requests[j].requester
       => i = j
  /\ \A i, j \in DOMAIN invites :
       /\ invites[i].status = Pending /\ invites[j].status = Pending
       /\ invites[i].group_id = invites[j].group_id
       /\ invites[i].invitee = invites[j].invitee
       => i = j

(* A decision is made once: no later step changes a decided request or     *)
(* invitation (the -3 of decide_join_request and decide_invitation).       *)
DecisionsStay ==
  /\ \A i \in DOMAIN requests :
       requests[i].status # Pending => requests'[i] = requests[i]
  /\ \A i \in DOMAIN invites :
       invites[i].status # Pending => invites'[i] = invites[i]

DecisionsAreFinal == [][DecisionsStay]_vars

(* "The owner leaves only when nobody is left in the group": a group goes  *)
(* from live to deleted only with its owner as the one active member.      *)
ClosesWhenOwnerAlone ==
  \A i \in DOMAIN groups :
    groups[i].is_active /\ ~groups'[i].is_active =>
      \A j \in ActiveMembers(members, groups[i].group_id) :
        members[j].username = groups[i].owner

OwnerLeavesLast == [][ClosesWhenOwnerAlone]_vars

(* A membership that ended is never changed again: whoever comes back gets *)
(* a new record, and a transfer to somebody who left and came back leaves  *)
(* the old record alone.  (transfer_group_owner writes whole records back: *)
(* with calls that overlap, a removal during a transfer is undone.)        *)
EndedStays ==
  \A i \in DOMAIN members : ~members[i].is_active => members'[i] = members[i]

RemovalIsFinal == [][EndedStays]_vars
=============================================================================
