---------------------------- MODULE GroupRecords ----------------------------
(***************************************************************************)
(* The four record files that server/group_db.c keeps under data/, and the *)
(* scans it makes over them.  A file is a sequence of fixed-size records:  *)
(* the code appends at the end, rewrites a record in place, and finds a    *)
(* record by reading from the start to the FIRST match.  A position is an  *)
(* index of the sequence; 0 says that the scan reached the end of file.    *)
(*                                                                         *)
(* Left out of the records: group names and the time stamps, which nothing *)
(* below compares.  A name has at most MAX_USERNAME - 1 = 49 characters,   *)
(* none of them a control character, so that copying it truncates nothing. *)
(* One pass of delete_group does cut names, to their first 44 characters:  *)
(* that is all the model knows of the letters of a name.                   *)
(*                                                                         *)
(* A definition with a suffix, such as NextIdAfter_Strict, is the          *)
(* definition it is named after with one plausible mistake in it: the      *)
(* properties are tried against it, and no specification uses it.          *)
(***************************************************************************)
EXTENDS Integers, FiniteSets, SequencesExt

CONSTANTS
  Name,     (* The user names that appear in requests and in the files.    *)
  NoName,   (* reviewed_by of a record that nobody has decided yet.        *)
  Prefix44  (* The first 44 characters of each name.                       *)

ASSUME NameAssumption == NoName \notin Name

ASSUME PrefixAssumption ==
  /\ Prefix44 \in [Name -> Name]
  /\ \A n \in Name : Prefix44[Prefix44[n]] = Prefix44[n]

(* The names of more than 44 characters, and a server without any. *)
LongName   == {n \in Name : Prefix44[n] # n}
ShortNames == LongName = {}

-----------------------------------------------------------------------------
(* RequestStatus *)
Pending  == "pending"
Approved == "approved"
Rejected == "rejected"
Status   == {Pending, Approved, Rejected}

GroupRecordDB == [group_id : Nat, owner : Name, is_active : BOOLEAN,
                  member_count : Int]

MemberRecordDB == [group_id : Nat, username : Name, is_admin : BOOLEAN,
                   is_active : BOOLEAN]

JoinRequestRecordDB == [request_id : Nat, group_id : Nat, requester : Name,
                        status : Status, reviewed_by : Name \cup {NoName}]

GroupInviteRecordDB == [invite_id : Nat, group_id : Nat, owner : Name,
                        invitee : Name, status : Status,
                        reviewed_by : Name \cup {NoName}]

-----------------------------------------------------------------------------
(* The records the code appends. *)
NewGroup(gid, u) ==
  [group_id |-> gid, owner |-> u, is_active |-> TRUE, member_count |-> 1]

NewMember(gid, u, admin) ==
  [group_id |-> gid, username |-> u, is_admin |-> admin, is_active |-> TRUE]

NewRequest(id, gid, u) ==
  [request_id |-> id, group_id |-> gid, requester |-> u,
   status |-> Pending, reviewed_by |-> NoName]

NewInvite(id, gid, u, invitee) ==
  [invite_id |-> id, group_id |-> gid, owner |-> u, invitee |-> invitee,
   status |-> Pending, reviewed_by |-> NoName]

-----------------------------------------------------------------------------
(* The scans. *)

(* The first active group record with this id: what get_group_info returns *)
(* and what every update of groups.dat rewrites.                           *)
ActiveGroupAt(groups, gid) ==
  SelectInSeq(groups, LAMBDA r : r.group_id = gid /\ r.is_active)

IsGroupOwner(groups, gid, u) ==
  LET at == ActiveGroupAt(groups, gid) IN at # 0 /\ groups[at].owner = u

ActiveMemberAt(members, gid, u) ==
  SelectInSeq(members,
              LAMBDA r : r.group_id = gid /\ r.username = u /\ r.is_active)

IsMemberOfGroup(members, gid, u) == ActiveMemberAt(members, gid, u) # 0

(* The record that delete_group's pass over members.dat deactivates. *)
FirstActiveMemberAt(members, gid) ==
  SelectInSeq(members, LAMBDA r : r.group_id = gid /\ r.is_active)

(* Behind that record the pass is misaligned.  It seeks by                 *)
(* sizeof(MemberRecord), 56 bytes, where a record of the file has          *)
(* sizeof(MemberRecordDB), 80: what it reads next is the end of a record j *)
(* and the beginning of record j + 1, with is_admin of j for the group id  *)
(* and bytes 44 to 47 of the name of j + 1 for the active flag, which are  *)
(* not zero when that name is long.  MisreadAt is the first j, from the    *)
(* record the pass has written, that it takes for an active member of the  *)
(* group; 0 if there is none.  Nothing matches after it: the pass is then  *)
(* off by another 56 bytes, with four bytes of a name for the group id.    *)
MisreadAt(members, gid, from) ==
  LET taken == {j \in from..(Len(members) - 1) :
                  /\ gid = 1 /\ members[j].is_admin
                  /\ members[j + 1].username \in LongName}
  IN IF taken = {} THEN 0 ELSE Min(taken)

(* What it holds after clearing the active flag, as a record whose is_admin *)
(* and is_active are those of j and whose other fields are those of j + 1.  *)
Misread(members, j) ==
  [members[j] EXCEPT !.group_id = members[j + 1].group_id,
                     !.username = Prefix44[members[j + 1].username]]

PendingRequestExists(requests, gid, u) ==
  \E i \in DOMAIN requests : /\ requests[i].group_id = gid
                             /\ requests[i].requester = u
                             /\ requests[i].status = Pending

RequestAt(requests, id) == SelectInSeq(requests, LAMBDA r : r.request_id = id)

PendingInviteExists(invites, gid, u) ==
  \E i \in DOMAIN invites : /\ invites[i].group_id = gid
                            /\ invites[i].invitee = u
                            /\ invites[i].status = Pending

InviteAt(invites, id) == SelectInSeq(invites, LAMBDA r : r.invite_id = id)

(* The next id init_group_db derives from the ids of a file: it starts at  *)
(* 1 and moves past every id it reads.                                     *)
NextIdAfter_Strict(ids) ==
  LET last == Max({0} \cup ids) IN IF last > 1 THEN last + 1 ELSE 1

NextIdAfter(ids) == 1 + Max({0} \cup ids)

-----------------------------------------------------------------------------
(* The in-place updates of one file. *)
Deactivate(members, at) == [members EXCEPT ![at].is_active = FALSE]

StoreMisread(members, j, rec) ==
  [members EXCEPT
     ![j]     = [@ EXCEPT !.is_admin = rec.is_admin, !.is_active = rec.is_active],
     ![j + 1] = [@ EXCEPT !.group_id = rec.group_id, !.username = rec.username]]

(* All that delete_group does to members.dat. *)
EndMembers(members, gid) ==
  LET at    == FirstActiveMemberAt(members, gid)
      ended == Deactivate(members, at)
      j     == MisreadAt(ended, gid, at)
  IN IF at = 0 THEN members
     ELSE IF j = 0 THEN ended
     ELSE StoreMisread(ended, j, Misread(ended, j))

Decide(file, at, approve, u) ==
  [file EXCEPT ![at].status = IF approve THEN Approved ELSE Rejected,
               ![at].reviewed_by = u]

(* The role of a member record after transfer_group_owner: the old owner's *)
(* test comes first, so a transfer to oneself clears the flag.             *)
RoleAfterTransfer_KeepOld(rec, gid, u, new_owner) ==
  IF rec.group_id = gid /\ rec.is_active
  THEN [rec EXCEPT !.is_admin = rec.username = new_owner \/ @]
  ELSE rec

RoleAfterTransfer_EndedToo(rec, gid, u, new_owner) ==
  IF rec.group_id = gid
  THEN [rec EXCEPT !.is_admin =
                     rec.username # u /\ (rec.username = new_owner \/ @)]
  ELSE rec

RoleAfterTransfer(rec, gid, u, new_owner) ==
  IF rec.group_id = gid /\ rec.is_active
  THEN [rec EXCEPT !.is_admin =
                     rec.username # u /\ (rec.username = new_owner \/ @)]
  ELSE rec

(* What the records say of a group, for the properties. *)
ActiveMembers(members, gid) ==
  {i \in DOMAIN members : members[i].group_id = gid /\ members[i].is_active}
=============================================================================
