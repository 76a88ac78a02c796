----------------------------- MODULE SerialProofs -----------------------------
(***************************************************************************)
(* GroupServerSerial implements GroupDB, for any number of threads, names, *)
(* calls and restarts: a call that runs alone, file step by file step, has *)
(* the effect of one atomic step of GroupDB when it returns, or none.      *)
(*                                                                         *)
(* While a call runs, settled is the directory it found.  SerialInv says   *)
(* how far the one running call has got: what it knows of that directory   *)
(* from its checks (Known), which record it has in hand (InHand), and      *)
(* what it has changed so far (Written).                                   *)
(***************************************************************************)
EXTENDS GroupServerSerial, GroupServerProofs

(* The first process starts on a data directory without files. *)
EmptyDirectory == /\ SeedGroups = <<>> /\ SeedMembers = <<>>
                  /\ SeedRequests = <<>> /\ SeedInvites = <<>>

-----------------------------------------------------------------------------
(* What the running call has found out.  g and m are groups.dat and        *)
(* members.dat as they were when it began.                                 *)
ByOwner == {"rm_target", "rm_read", "rm_write", "rm_gread", "rm_gwrite",
            "lv_info", "dg_owner", "dg_read", "dg_write", "dg_mread", "dg_mwrite",
            "dg_next", "dg_cut", "to_member", "to_gread", "to_gwrite", "to_scan", "to_mwrite",
            "iv_member", "iv_lock", "iv_append", "dj_write"}
OnOther  == {"rm_read", "rm_write", "rm_gread", "rm_gwrite",
             "lv_read", "lv_write", "lv_gread", "lv_gwrite"}
OfMember == {"rm_write", "rm_gread", "rm_gwrite",
             "lv_owner", "lv_info", "lv_read", "lv_write", "lv_gread", "lv_gwrite",
             "dg_owner", "dg_read", "dg_write", "dg_mread", "dg_mwrite", "dg_next", "dg_cut",
             "to_gread", "to_gwrite", "to_scan", "to_mwrite"}
OfOutsider == {"am_append", "am_gread", "am_gwrite", "rj_owner", "rj_info", "rj_lock",
               "rj_append", "iv_lock", "iv_append"}
Closing == {"dg_owner", "dg_read", "dg_write", "dg_mread", "dg_mwrite", "dg_next",
            "dg_cut"}

Known(l, c, g, m) ==
  /\ l \in ByOwner => IsGroupOwner(g, c.gid, c.user)
  /\ l \in {"am_member", "am_append", "am_gread", "am_gwrite"} =>
       IsGroupOwner(g, c.gid, c.requester)
  /\ l \in OnOther => ~IsGroupOwner(g, c.gid, c.name)
  /\ l \in OfMember => IsMemberOfGroup(m, c.gid, c.name)
  /\ l \in OfOutsider => ~IsMemberOfGroup(m, c.gid, c.name)
  /\ l \in {"rj_info", "rj_lock", "rj_append"} => ~IsGroupOwner(g, c.gid, c.user)
  /\ l \in {"rj_lock", "rj_append", "di_write"} => Live(g, c.gid)
  /\ l \in Closing => g[c.gid].member_count <= 1

(* Who calls, and for whom. *)
ByOneself == {"lv_member", "lv_owner", "lv_info", "lv_read", "lv_write", "lv_gread",
              "lv_gwrite", "dg_owner", "dg_read", "dg_write", "dg_mread", "dg_mwrite",
              "dg_next", "dg_cut", "rj_member", "rj_owner", "rj_info", "rj_lock", "rj_append"}

Caller(l, c) ==
  /\ c.user \in Account
  /\ c.cmd # "decide_invite" => c.requester = c.user
  /\ l \in ByOneself => c.name = c.user
  /\ l \in Adding /\ c.cmd \in OnEntry => c.approve
  /\ l \in {"iv_owner", "iv_member", "iv_lock", "iv_append"} =>
       c.name \in Account \ {c.user}

(* The record a write is about to put back. *)
CountedBy(r, d) == [r EXCEPT !.member_count = @ + d]
EndedRecord(r)      == [r EXCEPT !.is_active = FALSE]

(* Of a group being deleted: its one member record, ended, and where the   *)
(* misaligned pass reads again behind it.                                  *)
LastEnded(c, m) == Deactivate(m, FirstActiveMemberAt(m, c.gid))
ReadAgainAt(c, m) ==
  MisreadAt(LastEnded(c, m), c.gid, FirstActiveMemberAt(m, c.gid))

CutInHand(c, m) ==
  /\ FirstActiveMemberAt(m, c.gid) # 0
  /\ c.at = ReadAgainAt(c, m) /\ c.at # 0
  /\ c.rec = Misread(LastEnded(c, m), c.at)

InHand(l, c, g, m) ==
  /\ l \in {"am_gwrite", "rm_gwrite", "lv_gwrite", "dg_write", "to_gwrite"} =>
       c.at = c.gid
  /\ l = "am_gwrite" => c.rec = CountedBy(g[c.gid], 1)
  /\ l \in {"rm_gwrite", "lv_gwrite"} => c.rec = CountedBy(g[c.gid], -1)
  /\ l = "dg_write" => c.rec = EndedRecord(g[c.gid])
  /\ l = "to_gwrite" => c.rec = [g[c.gid] EXCEPT !.owner = c.name]
  /\ l \in {"rm_write", "lv_write"} =>
       c.at = ActiveMemberAt(m, c.gid, c.name) /\ c.rec = EndedRecord(m[c.at])
  /\ l = "dg_mwrite" =>
       c.at = FirstActiveMemberAt(m, c.gid) /\ c.at # 0 /\ c.rec = EndedRecord(m[c.at])
  /\ l = "dg_next" => c.at = FirstActiveMemberAt(m, c.gid) /\ c.at # 0
  /\ l = "dg_cut" => CutInHand(c, m)
  /\ l = "to_mwrite" =>
       /\ c.at \in DOMAIN m
       /\ c.rec = RoleAfterTransfer(m[c.at], c.gid, c.user, c.name)

(* The pass of a transfer over the members has come as far as n.  *)
Swept(c, n, m, m2) ==
  /\ m2 \in Seq(MemberRecordDB) /\ DOMAIN m2 = DOMAIN m
  /\ \A k \in DOMAIN m :
       m2[k] = IF k <= n THEN RoleAfterTransfer(m[k], c.gid, c.user, c.name)
                         ELSE m[k]

(* What the call has made of the two files: g2 and m2 are what they are now. *)
Changing == {"cg_member", "am_gread", "am_gwrite", "dj_write", "di_write",
             "rm_gread", "rm_gwrite", "lv_gread", "lv_gwrite", "dg_mread", "dg_mwrite",
             "dg_next", "dg_cut", "to_scan", "to_mwrite"}

MemberAdded1(c, m, m2) == m2 = Append(m, NewMember(c.gid, c.name, FALSE))
GroupCounted(c, g, d, g2) == g2 = [g EXCEPT ![c.gid].member_count = @ + d]
MemberEnded(c, m, m2) == m2 = Deactivate(m, ActiveMemberAt(m, c.gid, c.name))

Written(l, c, g, m, g2, m2) ==
  /\ (l \notin Changing \/ (l \in {"dj_write", "di_write"} /\ ~c.approve)) =>
       g2 = g /\ m2 = m
  /\ l = "cg_member" => g2 = Append(g, NewGroup(c.gid, c.user)) /\ m2 = m
  /\ l \in {"am_gread", "am_gwrite"} => g2 = g /\ MemberAdded1(c, m, m2)
  /\ l \in {"dj_write", "di_write"} /\ c.approve =>
       /\ ~IsMemberOfGroup(m, c.gid, c.name)
       /\ MemberAdded1(c, m, m2) /\ GroupCounted(c, g, 1, g2)
  /\ l \in {"rm_gread", "rm_gwrite", "lv_gread", "lv_gwrite"} =>
       g2 = g /\ MemberEnded(c, m, m2)
  /\ l \in {"dg_mread", "dg_mwrite", "dg_next", "dg_cut"} =>
       g2 = [g EXCEPT ![c.gid].is_active = FALSE]
  /\ l \in {"dg_mread", "dg_mwrite"} => m2 = m
  /\ l \in {"dg_next", "dg_cut"} => m2 = LastEnded(c, m)
  /\ l \in {"to_scan", "to_mwrite"} => g2 = [g EXCEPT ![c.gid].owner = c.name]
  /\ l = "to_scan" => Swept(c, c.at, m, m2)
  /\ l = "to_mwrite" => Swept(c, c.at - 1, m, m2)

(* The id of a group being created, and next_group_id then. *)
Numbered(l, c, n, n2) ==
  /\ l \in {"cg_store", "cg_group", "cg_member"} => c.gid = n
  /\ n2 = IF l \in {"cg_group", "cg_member"} THEN n + 1 ELSE n

Progress(l, c, g, m, n, g2, m2, n2) ==
  /\ Caller(l, c) /\ Known(l, c, g, m) /\ InHand(l, c, g, m)
  /\ Written(l, c, g, m, g2, m2) /\ Numbered(l, c, n, n2)

-----------------------------------------------------------------------------
(* A directory as calls that do not overlap leave it behind, and no larger *)
(* than k calls can have made it.                                          *)
DirectoryOK(g, m, r, v, n1, n2, n3) ==
  /\ Consistent(g, m) /\ n1 = Len(g) + 1
  /\ RequestsOK(r, n2) /\ InvitesOK(v, n3)

SizesOK(g, m, r, v, k) ==
  Len(g) <= k /\ Len(m) <= k /\ Len(r) <= k /\ Len(v) <= k

OneAtATime == \A t, u \in Thread : pc[t] # "idle" /\ pc[u] # "idle" => t = u

SerialInv ==
  /\ OneAtATime
  /\ DirectoryOK(settled[1][1], settled[1][2], settled[1][3], settled[1][4],
                 settled[2][1], settled[2][2], settled[2][3])
  /\ SizesOK(settled[1][1], settled[1][2], settled[1][3], settled[1][4],
             IF Quiet THEN calls ELSE calls - 1)
  /\ calls \in Nat /\ calls <= MaxCalls
  /\ requests = settled[1][3] /\ invites = settled[1][4]
  /\ next_join_request_id = settled[2][2] /\ next_invite_id = settled[2][3]
  /\ Quiet => /\ groups = settled[1][1] /\ members = settled[1][2]
              /\ next_group_id = settled[2][1]
  /\ \A t \in Thread :
       pc[t] # "idle" =>
         Progress(pc[t], loc[t], settled[1][1], settled[1][2], settled[2][1],
                  groups, members, next_group_id)

(* GroupDB's scans of a file are those of this module: DB only renames     *)
(* them.                                                                   *)
LEMMA SameScans ==
  /\ \A g, gid : DB!ActiveGroupAt(g, gid) = ActiveGroupAt(g, gid)
  /\ \A g, gid, u : DB!IsGroupOwner(g, gid, u) <=> IsGroupOwner(g, gid, u)
  /\ \A m, gid, u : DB!ActiveMemberAt(m, gid, u) = ActiveMemberAt(m, gid, u)
  /\ \A m, gid, u : DB!IsMemberOfGroup(m, gid, u) <=> IsMemberOfGroup(m, gid, u)
  /\ \A m, gid : DB!FirstActiveMemberAt(m, gid) = FirstActiveMemberAt(m, gid)
  /\ \A m, gid, at : DB!MisreadAt(m, gid, at) = MisreadAt(m, gid, at)
  /\ \A r, id : DB!RequestAt(r, id) = RequestAt(r, id)
  /\ \A v, id : DB!InviteAt(v, id) = InviteAt(v, id)
<1>1. \A g, gid : DB!ActiveGroupAt(g, gid) = ActiveGroupAt(g, gid)
  BY DEF DB!ActiveGroupAt, ActiveGroupAt, DB!SelectInSeq, SelectInSeq, DB!Min, Min
<1>2. \A g, gid, u : DB!IsGroupOwner(g, gid, u) <=> IsGroupOwner(g, gid, u)
  BY <1>1 DEF DB!IsGroupOwner, IsGroupOwner
<1>3. \A m, gid, u : DB!ActiveMemberAt(m, gid, u) = ActiveMemberAt(m, gid, u)
  BY DEF DB!ActiveMemberAt, ActiveMemberAt, DB!SelectInSeq, SelectInSeq, DB!Min, Min
<1>4. \A m, gid, u : DB!IsMemberOfGroup(m, gid, u) <=> IsMemberOfGroup(m, gid, u)
  BY <1>3 DEF DB!IsMemberOfGroup, IsMemberOfGroup
<1>5. \A m, gid : DB!FirstActiveMemberAt(m, gid) = FirstActiveMemberAt(m, gid)
  BY DEF DB!FirstActiveMemberAt, FirstActiveMemberAt, DB!SelectInSeq, SelectInSeq, DB!Min, Min
<1>6. \A r, id : DB!RequestAt(r, id) = RequestAt(r, id)
  BY DEF DB!RequestAt, RequestAt, DB!SelectInSeq, SelectInSeq, DB!Min, Min
<1>7. \A v, id : DB!InviteAt(v, id) = InviteAt(v, id)
  BY DEF DB!InviteAt, InviteAt, DB!SelectInSeq, SelectInSeq, DB!Min, Min
<1>8. \A m, gid, at : DB!MisreadAt(m, gid, at) = MisreadAt(m, gid, at)
  BY DEF DB!MisreadAt, MisreadAt, DB!LongName, LongName, DB!Min, Min
<1>9. QED BY <1>1, <1>2, <1>3, <1>4, <1>5, <1>6, <1>7, <1>8

(* So are the records it makes and rewrites.                               *)
LEMMA SameRecords ==
  /\ \A gid, u : DB!NewGroup(gid, u) = NewGroup(gid, u)
  /\ \A gid, u, b : DB!NewMember(gid, u, b) = NewMember(gid, u, b)
  /\ \A id, gid, u : DB!NewRequest(id, gid, u) = NewRequest(id, gid, u)
  /\ \A id, gid, u, v : DB!NewInvite(id, gid, u, v) = NewInvite(id, gid, u, v)
  /\ \A m, at : DB!Deactivate(m, at) = Deactivate(m, at)
  /\ \A m, gid : DB!EndMembers(m, gid) = EndMembers(m, gid)
  /\ \A f, at, b, u : DB!Decide(f, at, b, u) = Decide(f, at, b, u)
  /\ \A r, gid, u, v : DB!RoleAfterTransfer(r, gid, u, v) = RoleAfterTransfer(r, gid, u, v)
  /\ \A r, gid, u : DB!PendingRequestExists(r, gid, u) <=> PendingRequestExists(r, gid, u)
  /\ \A v, gid, u : DB!PendingInviteExists(v, gid, u) <=> PendingInviteExists(v, gid, u)
  /\ DB!Pending = Pending
<1>1. DB!Pending = Pending /\ DB!Approved = Approved /\ DB!Rejected = Rejected
  BY DEF DB!Pending, Pending, DB!Approved, Approved, DB!Rejected, Rejected
<1>2. /\ \A gid, u : DB!NewGroup(gid, u) = NewGroup(gid, u)
      /\ \A gid, u, b : DB!NewMember(gid, u, b) = NewMember(gid, u, b)
  BY DEF DB!NewGroup, NewGroup, DB!NewMember, NewMember
<1>3. /\ \A id, gid, u : DB!NewRequest(id, gid, u) = NewRequest(id, gid, u)
      /\ \A id, gid, u, v : DB!NewInvite(id, gid, u, v) = NewInvite(id, gid, u, v)
  BY <1>1 DEF DB!NewRequest, NewRequest, DB!NewInvite, NewInvite
<1>4. \A m, at : DB!Deactivate(m, at) = Deactivate(m, at)
  BY DEF DB!Deactivate, Deactivate
<1>5. \A f, at, b, u : DB!Decide(f, at, b, u) = Decide(f, at, b, u)
  BY <1>1 DEF DB!Decide, Decide
<1>6. \A r, gid, u, v : DB!RoleAfterTransfer(r, gid, u, v) = RoleAfterTransfer(r, gid, u, v)
  BY DEF DB!RoleAfterTransfer, RoleAfterTransfer
<1>7. \A r, gid, u : DB!PendingRequestExists(r, gid, u) <=> PendingRequestExists(r, gid, u)
  BY <1>1 DEF DB!PendingRequestExists, PendingRequestExists
<1>8. \A v, gid, u : DB!PendingInviteExists(v, gid, u) <=> PendingInviteExists(v, gid, u)
  BY <1>1 DEF DB!PendingInviteExists, PendingInviteExists
<1>9. \A m, gid : DB!EndMembers(m, gid) = EndMembers(m, gid)
  <2>1. /\ \A m, j : DB!Misread(m, j) = Misread(m, j)
        /\ \A m, j, rec : DB!StoreMisread(m, j, rec) = StoreMisread(m, j, rec)
    BY DEF DB!Misread, Misread, DB!StoreMisread, StoreMisread
  <2>2. QED BY <1>4, <2>1, SameScans DEF DB!EndMembers, EndMembers
<1>10. QED BY <1>1, <1>2, <1>3, <1>4, <1>5, <1>6, <1>7, <1>8, <1>9

(* requests, invitations and counters *)
RestSettled ==
  /\ settled'[1][3] = settled[1][3] /\ settled'[1][4] = settled[1][4]
  /\ settled'[2][1] = settled[2][1] /\ settled'[2][2] = settled[2][2]
  /\ settled'[2][3] = settled[2][3]

(* GroupDB knows the id of every active group.                             *)
LEMMA KnownIds ==
  ASSUME NEW gid, Consistent(settled[1][1], settled[1][2]), Live(settled[1][1], gid)
  PROVE  gid \in DB!KnownGroupId /\ ActiveGroupAt(settled[1][1], gid) = gid /\ gid # 0
<1>1. gid \in DOMAIN settled[1][1] /\ settled[1][1] \in Seq(GroupRecordDB)
  BY DEF Consistent, Counted, Live
<1>2. gid \in 1..(Len(settled[1][1]) + 1) /\ gid # 0
  BY <1>1
<1>3. ActiveGroupAt(settled[1][1], gid) = gid
  BY GroupLookup
<1>4. QED BY <1>2, <1>3 DEF DB!KnownGroupId

(* A member added and counted is GroupDB's AddMember.                      *)
LEMMA AddHappens ==
  ASSUME NEW u \in Account, NEW gid, NEW v \in Name,
         Consistent(settled[1][1], settled[1][2]), Len(settled[1][2]) < MaxCalls,
         IsGroupOwner(settled[1][1], gid, u), ~IsMemberOfGroup(settled[1][2], gid, v),
         JoinEffect(settled[1][1], settled[1][2], gid, v, settled'[1][1], settled'[1][2]),
         RestSettled
  PROVE  DB!Next
<1>1. Live(settled[1][1], gid)
  BY OwnerLookup
<1>2. gid \in DB!KnownGroupId /\ ActiveGroupAt(settled[1][1], gid) = gid /\ gid # 0
  BY <1>1, KnownIds
<1>3. DB!AddToCount(gid, 1)
  BY <1>2, SameScans DEF DB!AddToCount, JoinEffect
<1>4. DB!JoinGroup(gid, v)
  BY <1>3, SameScans, SameRecords DEF DB!JoinGroup, JoinEffect
<1>5. DB!AddMember(u, gid, v)
  BY <1>4, SameScans DEF DB!AddMember, DB!counters, RestSettled
<1>6. QED BY <1>2, <1>5 DEF DB!Next

(* A group appended with its owner is GroupDB's CreateGroup.               *)
LEMMA CreateHappens ==
  ASSUME NEW u \in Account, NEW n, n = settled[2][1],
         Len(settled[1][1]) < MaxCalls, Len(settled[1][2]) < MaxCalls,
         CreateEffect(settled[1][1], settled[1][2], n, u, settled'[1][1], settled'[1][2]),
         settled'[1][3] = settled[1][3], settled'[1][4] = settled[1][4],
         settled'[2][1] = n + 1,
         settled'[2][2] = settled[2][2], settled'[2][3] = settled[2][3]
  PROVE  DB!Next
<1>1. DB!CreateGroup(u)
  BY SameRecords DEF DB!CreateGroup, CreateEffect
<1>2. QED BY <1>1 DEF DB!Next

(* A member who is gone from both files has left as GroupDB lets members   *)
(* leave.                                                                  *)
LEMMA DropHappens ==
  ASSUME NEW gid, NEW v,
         Consistent(settled[1][1], settled[1][2]),
         IsMemberOfGroup(settled[1][2], gid, v),
         DropEffect(settled[1][1], settled[1][2], gid, v, settled'[1][1], settled'[1][2])
  PROVE  /\ gid \in DB!KnownGroupId
         /\ DB!DeactivateMember(gid, v) /\ DB!AddToCount(gid, -1)
         /\ DB!ActiveGroupAt(settled[1][1], gid) = gid /\ gid # 0
         /\ settled[1][1][gid].member_count > 0
<1>1. Live(settled[1][1], gid) /\ settled[1][1][gid].member_count > 0
  BY MembersGroupIsLive
<1>2. gid \in DB!KnownGroupId /\ ActiveGroupAt(settled[1][1], gid) = gid /\ gid # 0
  BY <1>1, KnownIds
<1>3. settled[1][1][gid].member_count \in Int
  <2>1. settled[1][1][gid] \in GroupRecordDB
    BY <1>1 DEF Consistent, Counted, Live
  <2>2. QED BY <2>1 DEF GroupRecordDB
<1>4. DB!AddToCount(gid, -1)
  BY <1>2, <1>3, SameScans DEF DB!AddToCount, DropEffect
<1>5. DB!DeactivateMember(gid, v)
  BY SameScans, SameRecords DEF DB!DeactivateMember, DropEffect
<1>6. QED BY <1>1, <1>2, <1>4, <1>5, SameScans

(* When the owner sent them away, it is GroupDB's RemoveMember.            *)
LEMMA RemoveHappens ==
  ASSUME NEW u \in Account, NEW gid, NEW v \in Name,
         Consistent(settled[1][1], settled[1][2]),
         IsGroupOwner(settled[1][1], gid, u), ~IsGroupOwner(settled[1][1], gid, v),
         IsMemberOfGroup(settled[1][2], gid, v),
         DropEffect(settled[1][1], settled[1][2], gid, v, settled'[1][1], settled'[1][2]),
         RestSettled
  PROVE  DB!Next
<1>1. /\ gid \in DB!KnownGroupId
      /\ DB!DeactivateMember(gid, v) /\ DB!AddToCount(gid, -1)
  BY DropHappens
<1>2. DB!RemoveMember(u, gid, v)
  BY <1>1, SameScans DEF DB!RemoveMember, DB!counters, RestSettled
<1>3. QED BY <1>1, <1>2 DEF DB!Next

(* When they went themselves, it is GroupDB's LeaveAsMember.               *)
LEMMA LeaveHappens ==
  ASSUME NEW u \in Account, NEW gid,
         Consistent(settled[1][1], settled[1][2]),
         ~IsGroupOwner(settled[1][1], gid, u), IsMemberOfGroup(settled[1][2], gid, u),
         DropEffect(settled[1][1], settled[1][2], gid, u, settled'[1][1], settled'[1][2]),
         RestSettled
  PROVE  DB!Next
<1>1. /\ gid \in DB!KnownGroupId
      /\ DB!DeactivateMember(gid, u) /\ DB!AddToCount(gid, -1)
      /\ DB!ActiveGroupAt(settled[1][1], gid) = gid /\ gid # 0
      /\ settled[1][1][gid].member_count > 0
  BY DropHappens
<1>2. DB!LeaveAsMember(u, gid)
  BY <1>1, SameScans DEF DB!LeaveAsMember, DB!counters, RestSettled
<1>3. QED BY <1>1, <1>2 DEF DB!Next

(* The last owner gone with the group is GroupDB's LeaveAsOwner.           *)
LEMMA CloseHappens ==
  ASSUME NEW u \in Account, NEW gid,
         Consistent(settled[1][1], settled[1][2]),
         IsGroupOwner(settled[1][1], gid, u), IsMemberOfGroup(settled[1][2], gid, u),
         settled[1][1][gid].member_count <= 1,
         CloseEffect(settled[1][1], settled[1][2], gid, settled'[1][1], settled'[1][2]),
         RestSettled
  PROVE  DB!Next
<1>1. Live(settled[1][1], gid)
  BY OwnerLookup
<1>2. gid \in DB!KnownGroupId /\ ActiveGroupAt(settled[1][1], gid) = gid /\ gid # 0
  BY <1>1, KnownIds
<1>3. DB!DeleteGroup(gid)
  BY <1>2, SameScans, SameRecords DEF DB!DeleteGroup, CloseEffect
<1>4. DB!LeaveAsOwner(u, gid)
  BY <1>2, <1>3, SameScans DEF DB!LeaveAsOwner, DB!counters, RestSettled
<1>5. QED BY <1>2, <1>4 DEF DB!Next

(* A new owner with the roles to match is GroupDB's TransferOwner.         *)
LEMMA TransferHappens ==
  ASSUME NEW u \in Account, NEW gid, NEW v \in Name,
         Consistent(settled[1][1], settled[1][2]),
         IsGroupOwner(settled[1][1], gid, u), IsMemberOfGroup(settled[1][2], gid, v),
         TransferEffect(settled[1][1], settled[1][2], gid, u, v,
                        settled'[1][1], settled'[1][2]),
         RestSettled
  PROVE  DB!Next
<1>1. Live(settled[1][1], gid)
  BY OwnerLookup
<1>2. gid \in DB!KnownGroupId /\ ActiveGroupAt(settled[1][1], gid) = gid /\ gid # 0
  BY <1>1, KnownIds
<1>3. DB!TransferOwner(u, gid, v)
  BY <1>2, SameScans, SameRecords
     DEF DB!TransferOwner, DB!counters, TransferEffect, RestSettled
<1>4. QED BY <1>2, <1>3 DEF DB!Next

(* groups.dat and members.dat *)
GroupsSettled ==
  settled'[1][1] = settled[1][1] /\ settled'[1][2] = settled[1][2]

(* A request entered under the next id is GroupDB's RequestJoin.           *)
LEMMA RequestHappens ==
  ASSUME NEW u \in Account, NEW gid, NEW n, n = settled[2][2],
         Consistent(settled[1][1], settled[1][2]), Len(settled[1][3]) < MaxCalls,
         ~IsMemberOfGroup(settled[1][2], gid, u), ~IsGroupOwner(settled[1][1], gid, u),
         Live(settled[1][1], gid), ~PendingRequestExists(settled[1][3], gid, u),
         settled'[1][3] = Append(settled[1][3], NewRequest(n, gid, u)),
         settled'[2][2] = n + 1, GroupsSettled, settled'[1][4] = settled[1][4],
         settled'[2][1] = settled[2][1], settled'[2][3] = settled[2][3]
  PROVE  DB!Next
<1>1. gid \in DB!KnownGroupId /\ ActiveGroupAt(settled[1][1], gid) = gid /\ gid # 0
  BY KnownIds
<1>2. DB!RequestJoin(u, gid)
  BY <1>1, SameScans, SameRecords DEF DB!RequestJoin, GroupsSettled
<1>3. QED BY <1>1, <1>2 DEF DB!Next

(* An invitation entered under the next id is GroupDB's InviteUser.        *)
LEMMA InviteHappens ==
  ASSUME NEW u \in Account, NEW gid, NEW v \in Account \ {u}, NEW n, n = settled[2][3],
         Consistent(settled[1][1], settled[1][2]), Len(settled[1][4]) < MaxCalls,
         IsGroupOwner(settled[1][1], gid, u), ~IsMemberOfGroup(settled[1][2], gid, v),
         ~PendingInviteExists(settled[1][4], gid, v),
         settled'[1][4] = Append(settled[1][4], NewInvite(n, gid, u, v)),
         settled'[2][3] = n + 1, GroupsSettled, settled'[1][3] = settled[1][3],
         settled'[2][1] = settled[2][1], settled'[2][2] = settled[2][2]
  PROVE  DB!Next
<1>1. Live(settled[1][1], gid)
  BY OwnerLookup
<1>2. gid \in DB!KnownGroupId
  BY <1>1, KnownIds
<1>3. DB!InviteUser(u, gid, v)
  BY SameScans, SameRecords DEF DB!InviteUser, GroupsSettled
<1>4. v \in Name
  BY AccountAssumption
<1>5. QED BY <1>2, <1>3, <1>4 DEF DB!Next

(* An approval joins the group, a refusal changes the entry only. *)
Admitted(b, gid, v) ==
  IF b THEN /\ ~IsMemberOfGroup(settled[1][2], gid, v)
            /\ Len(settled[1][2]) < MaxCalls
            /\ JoinEffect(settled[1][1], settled[1][2], gid, v,
                          settled'[1][1], settled'[1][2])
       ELSE GroupsSettled

(* What a decision does to the groups is what GroupDB says.                *)
LEMMA Admission ==
  ASSUME NEW b \in BOOLEAN, NEW gid, NEW v, Live(settled[1][1], gid),
         Consistent(settled[1][1], settled[1][2]), Admitted(b, gid, v)
  PROVE  IF b THEN DB!JoinGroup(gid, v)
              ELSE UNCHANGED <<settled[1][1], settled[1][2]>>
<1>1. ActiveGroupAt(settled[1][1], gid) = gid /\ gid # 0
  BY KnownIds
<1>2. CASE b
  <2>1. DB!AddToCount(gid, 1)
    BY <1>1, <1>2, SameScans DEF DB!AddToCount, JoinEffect, Admitted
  <2>2. QED BY <1>2, <2>1, SameScans, SameRecords DEF DB!JoinGroup, JoinEffect, Admitted
<1>3. CASE ~b
  BY <1>3 DEF Admitted, GroupsSettled
<1>4. QED BY <1>2, <1>3

(* With the request decided it is GroupDB's DecideJoinRequest.             *)
LEMMA DecideRequestHappens ==
  ASSUME NEW u \in Account, NEW b \in BOOLEAN, NEW at \in DOMAIN settled[1][3],
         NEW gid, gid = settled[1][3][at].group_id,
         Consistent(settled[1][1], settled[1][2]),
         RequestsOK(settled[1][3], settled[2][2]),
         IsGroupOwner(settled[1][1], gid, u), settled[1][3][at].status = Pending,
         Admitted(b, gid, settled[1][3][at].requester),
         settled'[1][3] = Decide(settled[1][3], at, b, u),
         settled'[1][4] = settled[1][4], settled'[2][1] = settled[2][1],
         settled'[2][2] = settled[2][2], settled'[2][3] = settled[2][3]
  PROVE  DB!Next
<1>1. Live(settled[1][1], gid)
  BY OwnerLookup
<1>2. IF b THEN DB!JoinGroup(gid, settled[1][3][at].requester)
           ELSE UNCHANGED <<settled[1][1], settled[1][2]>>
  BY <1>1, Admission
<1>3. DB!RequestAt(settled[1][3], at) = at
  BY RequestLookup, SameScans
<1>4. at # 0 /\ at \in 1..(Len(settled[1][3]) + 1)
  <2>1. settled[1][3] \in Seq(JoinRequestRecordDB)
    BY DEF RequestsOK
  <2>2. QED BY <2>1
<1>5. DB!DecideJoinRequest(u, at, b)
  BY <1>2, <1>3, <1>4, SameScans, SameRecords DEF DB!DecideJoinRequest, DB!counters
<1>6. QED BY <1>4, <1>5 DEF DB!Next

(* With the invitation decided it is GroupDB's DecideInvitation.           *)
LEMMA DecideInviteHappens ==
  ASSUME NEW u \in Account, NEW b \in BOOLEAN, NEW at \in DOMAIN settled[1][4],
         NEW gid, gid = settled[1][4][at].group_id,
         Consistent(settled[1][1], settled[1][2]),
         InvitesOK(settled[1][4], settled[2][3]),
         Live(settled[1][1], gid), settled[1][4][at].status = Pending,
         settled[1][4][at].invitee = u, Admitted(b, gid, u),
         settled'[1][4] = Decide(settled[1][4], at, b, u),
         settled'[1][3] = settled[1][3], settled'[2][1] = settled[2][1],
         settled'[2][2] = settled[2][2], settled'[2][3] = settled[2][3]
  PROVE  DB!Next
<1>1. IF b THEN DB!JoinGroup(gid, u) ELSE UNCHANGED <<settled[1][1], settled[1][2]>>
  BY Admission
<1>2. DB!InviteAt(settled[1][4], at) = at
  BY InviteLookup, SameScans
<1>3. at # 0 /\ at \in 1..(Len(settled[1][4]) + 1)
  <2>1. settled[1][4] \in Seq(GroupInviteRecordDB)
    BY DEF InvitesOK
  <2>2. QED BY <2>1
<1>4. DB!ActiveGroupAt(settled[1][1], gid) # 0
  BY KnownIds, SameScans
<1>5. DB!DecideInvitation(u, at, b)
  BY <1>1, <1>2, <1>3, <1>4, SameRecords DEF DB!DecideInvitation, DB!counters
<1>6. QED BY <1>3, <1>5 DEF DB!Next

-----------------------------------------------------------------------------
(* What a step of the running call does beside its own effect, and what is *)
(* to be shown of it: it keeps the invariant, and it is a step of GroupDB  *)
(* or none.                                                                *)
Settles == settled' = IF Quiet' THEN <<disk, counters>>' ELSE settled

Refines == SerialInv' /\ [DB!Next]_(DB!vars)

(* While a call runs, the others are idle, and there was room for its      *)
(* record.                                                                 *)
LEMMA Running ==
  ASSUME SerialInv, NEW t \in Thread, pc[t] # "idle"
  PROVE  /\ \A u \in Thread : u # t => pc[u] = "idle"
         /\ calls \in Nat /\ calls <= MaxCalls /\ ~Quiet
         /\ DirectoryOK(settled[1][1], settled[1][2], settled[1][3], settled[1][4],
                        settled[2][1], settled[2][2], settled[2][3])
         /\ Consistent(settled[1][1], settled[1][2])
         /\ SizesOK(settled[1][1], settled[1][2], settled[1][3], settled[1][4], calls - 1)
         /\ requests = settled[1][3] /\ invites = settled[1][4]
         /\ next_join_request_id = settled[2][2] /\ next_invite_id = settled[2][3]
         /\ Progress(pc[t], loc[t], settled[1][1], settled[1][2], settled[2][1],
                     groups, members, next_group_id)
<1>1. ~Quiet /\ \A u \in Thread : u # t => pc[u] = "idle"
  BY DEF SerialInv, OneAtATime, Quiet
<1>2. QED BY <1>1 DEF SerialInv, DirectoryOK

(* The call goes on: nothing has happened yet as far as GroupDB knows.     *)
LEMMA GoesOn ==
  ASSUME SerialInv, IInv, NEW t \in Thread, pc[t] # "idle",
         NEW l \in Labels, l # "idle", NEW c, Does(t, l, c), Settles,
         UNCHANGED <<requests, invites, next_join_request_id, next_invite_id, calls>>,
         Progress(l, c, settled[1][1], settled[1][2], settled[2][1],
                  groups', members', next_group_id')
  PROVE  Refines
<1>1. OthersStay(t) /\ pc'[t] = l /\ loc'[t] = c
  BY DoesOnlyItsOwn
<1>2. \A u \in Thread : u # t => pc'[u] = "idle"
  BY <1>1, Running DEF OthersStay
<1>3. ~Quiet' /\ settled' = settled
  BY <1>1 DEF Quiet, Settles
<1>4. OneAtATime'
  BY <1>2 DEF OneAtATime
<1>5. \A u \in Thread :
        pc'[u] # "idle" =>
          Progress(pc'[u], loc'[u], settled[1][1], settled[1][2], settled[2][1],
                   groups', members', next_group_id')
  BY <1>1, <1>2
<1>6. SerialInv'
  BY <1>3, <1>4, <1>5, Running DEF SerialInv
<1>7. QED BY <1>3, <1>6 DEF Refines, DB!vars, DB!files, DB!counters

(* The call ends: what it has made of the files is settled. *)
LEMMA Ends ==
  ASSUME SerialInv, IInv, NEW t \in Thread, pc[t] # "idle", Return(t), Settles,
         UNCHANGED calls,
         DirectoryOK(groups', members', requests', invites',
                     next_group_id', next_join_request_id', next_invite_id'),
         SizesOK(groups', members', requests', invites', calls)
  PROVE  /\ SerialInv'
         /\ settled'[1][1] = groups' /\ settled'[1][2] = members'
         /\ settled'[1][3] = requests' /\ settled'[1][4] = invites'
         /\ settled'[2][1] = next_group_id'
         /\ settled'[2][2] = next_join_request_id' /\ settled'[2][3] = next_invite_id'
<1>1. Does(t, "idle", NoCall)
  BY Returned
<1>2. \A u \in Thread : pc'[u] = "idle"
  <2>1. OthersStay(t) /\ pc'[t] = "idle"
    BY <1>1, DoesOnlyItsOwn, IdleFits
  <2>2. QED BY <2>1, Running DEF OthersStay
<1>3. Quiet'
  BY <1>2 DEF Quiet
<1>4. settled' = <<disk, counters>>'
  BY <1>3 DEF Settles
<1>5. /\ settled'[1][1] = groups' /\ settled'[1][2] = members'
      /\ settled'[1][3] = requests' /\ settled'[1][4] = invites'
      /\ settled'[2][1] = next_group_id'
      /\ settled'[2][2] = next_join_request_id' /\ settled'[2][3] = next_invite_id'
  BY <1>4 DEF disk, counters
<1>6. OneAtATime'
  BY <1>2 DEF OneAtATime
<1>7. SerialInv'
  BY <1>2, <1>3, <1>5, <1>6, Running DEF SerialInv
<1>8. QED BY <1>5, <1>7

(* A call that ends where it has changed nothing has had no effect.        *)
Unchanging == Labels \ (Changing \cup {"idle", "cg_group"})

(* At these labels the files are still those the call found.               *)
LEMMA NothingWritten ==
  ASSUME SerialInv, NEW t \in Thread, pc[t] \in Unchanging
  PROVE  /\ groups = settled[1][1] /\ members = settled[1][2]
         /\ next_group_id = settled[2][1]
<1>1. pc[t] # "idle" /\ pc[t] \notin Changing /\ pc[t] \notin {"cg_group", "cg_member"}
  BY DEF Unchanging, Changing
<1>2. Progress(pc[t], loc[t], settled[1][1], settled[1][2], settled[2][1],
               groups, members, next_group_id)
  BY <1>1, Running
<1>3. QED BY <1>1, <1>2 DEF Progress, Written, Numbered

(* Such an end is a stutter of GroupDB.                                    *)
LEMMA EndsUnchanged ==
  ASSUME SerialInv, IInv, NEW t \in Thread, pc[t] # "idle", Return(t), Settles,
         UNCHANGED <<disk, counters, calls>>,
         groups = settled[1][1], members = settled[1][2], next_group_id = settled[2][1]
  PROVE  Refines
<1>1. /\ UNCHANGED <<groups, members, requests, invites>>
      /\ UNCHANGED <<next_group_id, next_join_request_id, next_invite_id>>
  BY DEF disk, counters
<1>2. DirectoryOK(groups', members', requests', invites',
                  next_group_id', next_join_request_id', next_invite_id')
  BY <1>1, Running
<1>3. SizesOK(groups', members', requests', invites', calls)
  <2>1. /\ Len(groups) \in Nat /\ Len(members) \in Nat
        /\ Len(requests) \in Nat /\ Len(invites) \in Nat
    BY Running DEF DirectoryOK, Consistent, Counted, RequestsOK, InvitesOK
  <2>2. SizesOK(groups, members, requests, invites, calls - 1) /\ calls \in Nat
    BY Running
  <2>3. QED BY <1>1, <2>1, <2>2 DEF SizesOK
<1>4. /\ SerialInv'
      /\ settled'[1][1] = groups' /\ settled'[1][2] = members'
      /\ settled'[1][3] = requests' /\ settled'[1][4] = invites'
      /\ settled'[2][1] = next_group_id'
      /\ settled'[2][2] = next_join_request_id' /\ settled'[2][3] = next_invite_id'
  BY <1>2, <1>3, Ends
<1>5. UNCHANGED DB!vars
  BY <1>1, <1>4, Running DEF DB!vars, DB!files, DB!counters
<1>6. QED BY <1>4, <1>5 DEF Refines

(* A check that goes on when it succeeds and ends the call when not. *)
LEMMA CheckRefines ==
  ASSUME SerialInv, IInv, NEW t \in Thread, NEW label \in Unchanging,
         NEW ok, NEW next \in Labels \ {"idle"},
         Check(t, label, ok, next), Settles, UNCHANGED calls,
         ok => Progress(next, loc[t], settled[1][1], settled[1][2], settled[2][1],
                        settled[1][1], settled[1][2], settled[2][1])
  PROVE  Refines
<1>1. pc[t] = label /\ UNCHANGED <<disk, counters>> /\ label # "idle"
  BY DEF Check, Unchanging
<1>2. /\ groups = settled[1][1] /\ members = settled[1][2]
      /\ next_group_id = settled[2][1]
  BY <1>1, NothingWritten
<1>3. CASE ok
  <2>1. Goto(t, next) /\ UNCHANGED loc
    BY <1>3 DEF Check
  <2>2. Does(t, next, loc[t])
    BY <2>1, SameLocals
  <2>3. QED BY <1>1, <1>2, <1>3, <2>2, GoesOn DEF disk, counters
<1>4. CASE ~ok
  <2>1. Return(t)
    BY <1>4 DEF Check
  <2>2. QED BY <1>1, <1>2, <2>1, EndsUnchanged
<1>5. QED BY <1>3, <1>4

-----------------------------------------------------------------------------
(* The labels before which nothing is changed and no record is in hand. *)
Simple == Unchanging \ {"dg_write", "to_gwrite", "rm_write", "lv_write", "cg_store"}

(* There, what the call knows is all there is to say of it.                *)
LEMMA SimpleProgress ==
  ASSUME NEW l \in Simple, NEW c, NEW g, NEW m, NEW n, Caller(l, c), Known(l, c, g, m)
  PROVE  Progress(l, c, g, m, n, g, m, n)
<1>1. l \in Labels /\ l \notin Changing
      /\ l \notin {"cg_group", "dg_write", "to_gwrite", "rm_write", "lv_write", "cg_store"}
  BY DEF Simple, Unchanging
<1>2. InHand(l, c, g, m)
  BY <1>1 DEF InHand, Changing
<1>3. Written(l, c, g, m, g, m)
  BY <1>1 DEF Written, Changing
<1>4. Numbered(l, c, n, n)
  BY <1>1 DEF Numbered, Changing
<1>5. QED BY <1>2, <1>3, <1>4 DEF Progress

(* What the call knows at a simple label, of the files as they still are. *)
LEMMA SoFar ==
  ASSUME SerialInv, NEW t \in Thread, pc[t] \in Unchanging
  PROVE  /\ Caller(pc[t], loc[t]) /\ Known(pc[t], loc[t], settled[1][1], settled[1][2])
         /\ groups = settled[1][1] /\ members = settled[1][2]
         /\ next_group_id = settled[2][1]
         /\ Consistent(settled[1][1], settled[1][2])
         /\ requests = settled[1][3] /\ invites = settled[1][4]
         /\ pc[t] # "idle"
<1>1. pc[t] # "idle"
  BY DEF Unchanging
<1>2. QED BY <1>1, Running, NothingWritten DEF Progress

(* The checks of all calls, each of which earns one more fact or ends the  *)
(* call.                                                                   *)
LEMMA ChecksRefine ==
  ASSUME SerialInv, IInv, NEW t \in Thread, Settles, UNCHANGED calls,
         \/ RM_Owner(t) \/ RM_Target(t) \/ LV_Member(t) \/ LV_Info(t) \/ DG_Owner(t)
         \/ TO_Owner(t) \/ TO_Member(t)
         \/ RJ_Member(t) \/ RJ_Owner(t) \/ RJ_Info(t) \/ IV_Owner(t) \/ IV_Member(t)
         \/ LM_Member(t)
  PROVE  Refines
<1> DEFINE c == loc[t]
           g == settled[1][1]
           m == settled[1][2]
<1>1. ASSUME NEW label \in Unchanging, NEW next \in Simple, NEW ok,
             Check(t, label, ok, next),
             ok => Caller(next, c) /\ Known(next, c, g, m)
      PROVE  Refines
  <2>1. next \in Labels \ {"idle"}
    BY DEF Simple, Unchanging
  <2>2. ok => Progress(next, c, g, m, settled[2][1], g, m, settled[2][1])
    BY <1>1, SimpleProgress
  <2>3. QED BY <1>1, <2>1, <2>2, CheckRefines
<1>2. ASSUME NEW label \in Unchanging, pc[t] = label
      PROVE  /\ Caller(label, c) /\ Known(label, c, g, m)
             /\ groups = g /\ members = m
  BY <1>2, SoFar
<1>3. {"rm_owner", "rm_target", "lv_member", "lv_info", "dg_owner", "to_owner",
       "to_member", "rj_member", "rj_owner", "rj_info", "iv_owner", "iv_member",
       "lm_member"} \subseteq Unchanging
  BY DEF Unchanging, Labels, Changing
<1>4. {"rm_target", "rm_read", "lv_owner", "dg_owner", "dg_read", "to_member",
       "to_gread", "rj_owner", "rj_info", "rj_lock", "iv_member", "iv_lock",
       "lm_count"} \subseteq Simple
  BY DEF Simple, Unchanging, Labels, Changing
<1>5. CASE RM_Owner(t)
  <2>1. Check(t, "rm_owner", IsGroupOwner(groups, c.gid, c.user), "rm_target")
    BY <1>5 DEF RM_Owner
  <2>2. /\ Caller("rm_owner", c) /\ Known("rm_owner", c, g, m)
        /\ groups = g /\ members = m
    BY <1>2, <1>3, <2>1 DEF Check
  <2>3. Caller("rm_target", c) /\ ("rm_target" \in ByOneself => c.name = c.user)
    BY <2>2 DEF Caller, ByOneself, Adding
  <2>4. IsGroupOwner(groups, c.gid, c.user) => Known("rm_target", c, g, m)
    BY <2>2, <2>3 DEF Known, ByOwner, OnOther, OfMember, OfOutsider, Closing,
                      ByOneself
  <2> HIDE DEF c, g, m
  <2>5. QED BY <1>1, <1>3, <1>4, <2>1, <2>3, <2>4
<1>6. CASE RM_Target(t)
  <2>1. Check(t, "rm_target", ~IsGroupOwner(groups, c.gid, c.name), "rm_read")
    BY <1>6 DEF RM_Target
  <2>2. /\ Caller("rm_target", c) /\ Known("rm_target", c, g, m)
        /\ groups = g /\ members = m
    BY <1>2, <1>3, <2>1 DEF Check
  <2>3. Caller("rm_read", c) /\ ("rm_read" \in ByOneself => c.name = c.user)
    BY <2>2 DEF Caller, ByOneself, Adding
  <2>4. ~IsGroupOwner(groups, c.gid, c.name) => Known("rm_read", c, g, m)
    BY <2>2, <2>3 DEF Known, ByOwner, OnOther, OfMember, OfOutsider, Closing,
                      ByOneself
  <2> HIDE DEF c, g, m
  <2>5. QED BY <1>1, <1>3, <1>4, <2>1, <2>3, <2>4
<1>7. CASE LV_Member(t)
  <2>1. Check(t, "lv_member", IsMemberOfGroup(members, c.gid, c.user), "lv_owner")
    BY <1>7 DEF LV_Member
  <2>2. /\ Caller("lv_member", c) /\ Known("lv_member", c, g, m)
        /\ groups = g /\ members = m
    BY <1>2, <1>3, <2>1 DEF Check
  <2>3. Caller("lv_owner", c) /\ ("lv_owner" \in ByOneself => c.name = c.user)
    BY <2>2 DEF Caller, ByOneself, Adding
  <2>4. IsMemberOfGroup(members, c.gid, c.user) => Known("lv_owner", c, g, m)
    BY <2>2, <2>3 DEF Known, ByOwner, OnOther, OfMember, OfOutsider, Closing,
                      ByOneself
  <2> HIDE DEF c, g, m
  <2>5. QED BY <1>1, <1>3, <1>4, <2>1, <2>3, <2>4
<1>8. CASE DG_Owner(t)
  <2>1. Check(t, "dg_owner", IsGroupOwner(groups, c.gid, c.user), "dg_read")
    BY <1>8 DEF DG_Owner
  <2>2. /\ Caller("dg_owner", c) /\ Known("dg_owner", c, g, m)
        /\ groups = g /\ members = m
    BY <1>2, <1>3, <2>1 DEF Check
  <2>3. Caller("dg_read", c) /\ ("dg_read" \in ByOneself => c.name = c.user)
    BY <2>2 DEF Caller, ByOneself, Adding
  <2>4. IsGroupOwner(groups, c.gid, c.user) => Known("dg_read", c, g, m)
    BY <2>2, <2>3 DEF Known, ByOwner, OnOther, OfMember, OfOutsider, Closing,
                      ByOneself
  <2> HIDE DEF c, g, m
  <2>5. QED BY <1>1, <1>3, <1>4, <2>1, <2>3, <2>4
<1>9. CASE TO_Owner(t)
  <2>1. Check(t, "to_owner", IsGroupOwner(groups, c.gid, c.user), "to_member")
    BY <1>9 DEF TO_Owner
  <2>2. /\ Caller("to_owner", c) /\ Known("to_owner", c, g, m)
        /\ groups = g /\ members = m
    BY <1>2, <1>3, <2>1 DEF Check
  <2>3. Caller("to_member", c) /\ ("to_member" \in ByOneself => c.name = c.user)
    BY <2>2 DEF Caller, ByOneself, Adding
  <2>4. IsGroupOwner(groups, c.gid, c.user) => Known("to_member", c, g, m)
    BY <2>2, <2>3 DEF Known, ByOwner, OnOther, OfMember, OfOutsider, Closing,
                      ByOneself
  <2> HIDE DEF c, g, m
  <2>5. QED BY <1>1, <1>3, <1>4, <2>1, <2>3, <2>4
<1>10. CASE TO_Member(t)
  <2>1. Check(t, "to_member", IsMemberOfGroup(members, c.gid, c.name), "to_gread")
    BY <1>10 DEF TO_Member
  <2>2. /\ Caller("to_member", c) /\ Known("to_member", c, g, m)
        /\ groups = g /\ members = m
    BY <1>2, <1>3, <2>1 DEF Check
  <2>3. Caller("to_gread", c) /\ ("to_gread" \in ByOneself => c.name = c.user)
    BY <2>2 DEF Caller, ByOneself, Adding
  <2>4. IsMemberOfGroup(members, c.gid, c.name) => Known("to_gread", c, g, m)
    BY <2>2, <2>3 DEF Known, ByOwner, OnOther, OfMember, OfOutsider, Closing,
                      ByOneself
  <2> HIDE DEF c, g, m
  <2>5. QED BY <1>1, <1>3, <1>4, <2>1, <2>3, <2>4
<1>11. CASE RJ_Member(t)
  <2>1. Check(t, "rj_member", ~IsMemberOfGroup(members, c.gid, c.user), "rj_owner")
    BY <1>11 DEF RJ_Member
  <2>2. /\ Caller("rj_member", c) /\ Known("rj_member", c, g, m)
        /\ groups = g /\ members = m
    BY <1>2, <1>3, <2>1 DEF Check
  <2>3. Caller("rj_owner", c) /\ ("rj_owner" \in ByOneself => c.name = c.user)
    BY <2>2 DEF Caller, ByOneself, Adding
  <2>4. ~IsMemberOfGroup(members, c.gid, c.user) => Known("rj_owner", c, g, m)
    BY <2>2, <2>3 DEF Known, ByOwner, OnOther, OfMember, OfOutsider, Closing,
                      ByOneself
  <2> HIDE DEF c, g, m
  <2>5. QED BY <1>1, <1>3, <1>4, <2>1, <2>3, <2>4
<1>12. CASE RJ_Owner(t)
  <2>1. Check(t, "rj_owner", ~IsGroupOwner(groups, c.gid, c.user), "rj_info")
    BY <1>12 DEF RJ_Owner
  <2>2. /\ Caller("rj_owner", c) /\ Known("rj_owner", c, g, m)
        /\ groups = g /\ members = m
    BY <1>2, <1>3, <2>1 DEF Check
  <2>3. Caller("rj_info", c) /\ ("rj_info" \in ByOneself => c.name = c.user)
    BY <2>2 DEF Caller, ByOneself, Adding
  <2>4. ~IsGroupOwner(groups, c.gid, c.user) => Known("rj_info", c, g, m)
    BY <2>2, <2>3 DEF Known, ByOwner, OnOther, OfMember, OfOutsider, Closing,
                      ByOneself
  <2> HIDE DEF c, g, m
  <2>5. QED BY <1>1, <1>3, <1>4, <2>1, <2>3, <2>4
<1>13. CASE IV_Owner(t)
  <2>1. Check(t, "iv_owner", IsGroupOwner(groups, c.gid, c.user), "iv_member")
    BY <1>13 DEF IV_Owner
  <2>2. /\ Caller("iv_owner", c) /\ Known("iv_owner", c, g, m)
        /\ groups = g /\ members = m
    BY <1>2, <1>3, <2>1 DEF Check
  <2>3. Caller("iv_member", c) /\ ("iv_member" \in ByOneself => c.name = c.user)
    BY <2>2 DEF Caller, ByOneself, Adding
  <2>4. IsGroupOwner(groups, c.gid, c.user) => Known("iv_member", c, g, m)
    BY <2>2, <2>3 DEF Known, ByOwner, OnOther, OfMember, OfOutsider, Closing,
                      ByOneself
  <2> HIDE DEF c, g, m
  <2>5. QED BY <1>1, <1>3, <1>4, <2>1, <2>3, <2>4
<1>14. CASE IV_Member(t)
  <2>1. Check(t, "iv_member", ~IsMemberOfGroup(members, c.gid, c.name), "iv_lock")
    BY <1>14 DEF IV_Member
  <2>2. /\ Caller("iv_member", c) /\ Known("iv_member", c, g, m)
        /\ groups = g /\ members = m
    BY <1>2, <1>3, <2>1 DEF Check
  <2>3. Caller("iv_lock", c) /\ ("iv_lock" \in ByOneself => c.name = c.user)
    BY <2>2 DEF Caller, ByOneself, Adding
  <2>4. ~IsMemberOfGroup(members, c.gid, c.name) => Known("iv_lock", c, g, m)
    BY <2>2, <2>3 DEF Known, ByOwner, OnOther, OfMember, OfOutsider, Closing,
                      ByOneself
  <2> HIDE DEF c, g, m
  <2>5. QED BY <1>1, <1>3, <1>4, <2>1, <2>3, <2>4
<1>15. CASE LM_Member(t)
  <2>1. Check(t, "lm_member", IsMemberOfGroup(members, c.gid, c.user), "lm_count")
    BY <1>15 DEF LM_Member
  <2>2. /\ Caller("lm_member", c) /\ Known("lm_member", c, g, m)
        /\ groups = g /\ members = m
    BY <1>2, <1>3, <2>1 DEF Check
  <2>3. Caller("lm_count", c) /\ ("lm_count" \in ByOneself => c.name = c.user)
    BY <2>2 DEF Caller, ByOneself, Adding
  <2>4. IsMemberOfGroup(members, c.gid, c.user) => Known("lm_count", c, g, m)
    BY <2>2, <2>3 DEF Known, ByOwner, OnOther, OfMember, OfOutsider, Closing,
                      ByOneself
  <2> HIDE DEF c, g, m
  <2>5. QED BY <1>1, <1>3, <1>4, <2>1, <2>3, <2>4
<1>16. CASE LV_Info(t)
  <2> DEFINE at == ActiveGroupAt(groups, c.gid)
  <2>1. Check(t, "lv_info", at # 0 /\ groups[at].member_count <= 1, "dg_owner")
    BY <1>16 DEF LV_Info
  <2>2. /\ Caller("lv_info", c) /\ Known("lv_info", c, g, m)
        /\ groups = g /\ members = m
    BY <1>2, <1>3, <2>1 DEF Check
  <2>3. Caller("dg_owner", c)
    BY <2>2 DEF Caller, ByOneself, Adding
  <2>4. at = IF Live(g, c.gid) THEN c.gid ELSE 0
    BY <2>1, <2>2, <1>2, <1>3, SoFar, GroupLookup DEF Check
  <2> HIDE DEF at
  <2>5. at # 0 /\ groups[at].member_count <= 1 => Known("dg_owner", c, g, m)
    BY <2>2, <2>4 DEF Known, ByOwner, OnOther, OfMember, OfOutsider, Closing
  <2> HIDE DEF c, g, m
  <2>6. QED BY <1>1, <1>3, <1>4, <2>1, <2>3, <2>5
<1>17. CASE RJ_Info(t)
  <2> DEFINE at == ActiveGroupAt(groups, c.gid)
  <2>1. Check(t, "rj_info", at # 0, "rj_lock")
    BY <1>17 DEF RJ_Info
  <2>2. /\ Caller("rj_info", c) /\ Known("rj_info", c, g, m)
        /\ groups = g /\ members = m
    BY <1>2, <1>3, <2>1 DEF Check
  <2>3. Caller("rj_lock", c)
    BY <2>2 DEF Caller, ByOneself, Adding
  <2>4. at = IF Live(g, c.gid) THEN c.gid ELSE 0
    BY <2>1, <2>2, <1>2, <1>3, SoFar, GroupLookup DEF Check
  <2> HIDE DEF at
  <2>5. at # 0 => Known("rj_lock", c, g, m)
    BY <2>2, <2>4 DEF Known, ByOwner, OnOther, OfMember, OfOutsider, Closing
  <2> HIDE DEF c, g, m
  <2>6. QED BY <1>1, <1>3, <1>4, <2>1, <2>3, <2>5
<1>18. QED BY <1>5, <1>6, <1>7, <1>8, <1>9, <1>10, <1>11, <1>12, <1>13, <1>14, <1>15, <1>16, <1>17

-----------------------------------------------------------------------------
(* The files of a directory have lengths.                                  *)
LEMMA DirectoryLengths ==
  ASSUME NEW g, NEW m, NEW r, NEW v, NEW n1, NEW n2, NEW n3,
         DirectoryOK(g, m, r, v, n1, n2, n3)
  PROVE  Len(g) \in Nat /\ Len(m) \in Nat /\ Len(r) \in Nat /\ Len(v) \in Nat
BY DEF DirectoryOK, Consistent, Counted, RequestsOK, InvitesOK

(* No call adds more than one record to a file, so there is room for it. *)
LEMMA SizesFit ==
  ASSUME NEW g, NEW m, NEW r, NEW v, NEW k \in Nat, NEW max \in Nat, k <= max,
         Len(g) \in Nat, Len(m) \in Nat, Len(r) \in Nat, Len(v) \in Nat,
         SizesOK(g, m, r, v, k - 1)
  PROVE  Len(g) < max /\ Len(m) < max /\ Len(r) < max /\ Len(v) < max
BY DEF SizesOK

(* And the files are no larger than the calls begun, when it has ended.    *)
LEMMA SizesGrow ==
  ASSUME NEW g, NEW m, NEW r, NEW v, NEW k \in Nat,
         Len(g) \in Nat, Len(m) \in Nat, Len(r) \in Nat, Len(v) \in Nat,
         SizesOK(g, m, r, v, k - 1),
         NEW g2, NEW m2, NEW r2, NEW v2,
         Len(g2) \in Nat, Len(m2) \in Nat, Len(r2) \in Nat, Len(v2) \in Nat,
         Len(g2) <= Len(g) + 1, Len(m2) <= Len(m) + 1,
         Len(r2) <= Len(r) + 1, Len(v2) <= Len(v) + 1
  PROVE  SizesOK(g2, m2, r2, v2, k)
BY DEF SizesOK

(* The files GroupDB sees are below its limits while a call runs.          *)
LEMMA Room ==
  ASSUME SerialInv, NEW t \in Thread, pc[t] # "idle"
  PROVE  /\ Len(settled[1][1]) < MaxCalls /\ Len(settled[1][2]) < MaxCalls
         /\ Len(settled[1][3]) < MaxCalls /\ Len(settled[1][4]) < MaxCalls
         /\ Len(settled[1][1]) \in Nat /\ Len(settled[1][2]) \in Nat
         /\ Len(settled[1][3]) \in Nat /\ Len(settled[1][4]) \in Nat
<1>1. /\ Len(settled[1][1]) \in Nat /\ Len(settled[1][2]) \in Nat
      /\ Len(settled[1][3]) \in Nat /\ Len(settled[1][4]) \in Nat
  <2>1. DirectoryOK(settled[1][1], settled[1][2], settled[1][3], settled[1][4],
                    settled[2][1], settled[2][2], settled[2][3])
    BY Running
  <2>2. QED BY <2>1, DirectoryLengths
<1>2. /\ SizesOK(settled[1][1], settled[1][2], settled[1][3], settled[1][4], calls - 1)
      /\ calls \in Nat /\ calls <= MaxCalls /\ MaxCalls \in Nat
  BY Running, BoundsAssumption
<1>3. QED BY <1>1, <1>2, SizesFit

(* A call that ends with the files in order settles them.                  *)
LEMMA EndsWith ==
  ASSUME SerialInv, IInv, NEW t \in Thread, pc[t] # "idle", Return(t), Settles,
         UNCHANGED calls,
         Consistent(groups', members'), next_group_id' = Len(groups') + 1,
         RequestsOK(requests', next_join_request_id'),
         InvitesOK(invites', next_invite_id'),
         Len(groups') <= Len(settled[1][1]) + 1,
         Len(members') <= Len(settled[1][2]) + 1,
         Len(requests') <= Len(settled[1][3]) + 1,
         Len(invites') <= Len(settled[1][4]) + 1
  PROVE  /\ SerialInv'
         /\ settled'[1][1] = groups' /\ settled'[1][2] = members'
         /\ settled'[1][3] = requests' /\ settled'[1][4] = invites'
         /\ settled'[2][1] = next_group_id'
         /\ settled'[2][2] = next_join_request_id' /\ settled'[2][3] = next_invite_id'
<1>1. DirectoryOK(groups', members', requests', invites',
                  next_group_id', next_join_request_id', next_invite_id')
  BY DEF DirectoryOK
<1>2. SizesOK(groups', members', requests', invites', calls)
  <2>1. /\ Len(groups') \in Nat /\ Len(members') \in Nat
        /\ Len(requests') \in Nat /\ Len(invites') \in Nat
    BY <1>1, DirectoryLengths
  <2>2. /\ SizesOK(settled[1][1], settled[1][2], settled[1][3], settled[1][4], calls - 1)
        /\ calls \in Nat
    BY Running
  <2>3. /\ Len(settled[1][1]) \in Nat /\ Len(settled[1][2]) \in Nat
        /\ Len(settled[1][3]) \in Nat /\ Len(settled[1][4]) \in Nat
    BY Room
  <2>4. QED BY <2>1, <2>2, <2>3, SizesGrow
<1>3. QED BY <1>1, <1>2, Ends

(* A call that has changed the groups and their members only. *)
LEMMA EndsWithMembers ==
  ASSUME SerialInv, IInv, NEW t \in Thread, pc[t] # "idle", Return(t), Settles,
         UNCHANGED <<calls, requests, invites, next_join_request_id, next_invite_id>>,
         Consistent(groups', members'), next_group_id' = Len(groups') + 1,
         Len(groups') <= Len(settled[1][1]) + 1,
         Len(members') <= Len(settled[1][2]) + 1
  PROVE  /\ SerialInv'
         /\ settled'[1][1] = groups' /\ settled'[1][2] = members'
         /\ settled'[1][3] = settled[1][3] /\ settled'[1][4] = settled[1][4]
         /\ settled'[2][1] = next_group_id'
         /\ settled'[2][2] = settled[2][2] /\ settled'[2][3] = settled[2][3]
<1>1. /\ requests = settled[1][3] /\ invites = settled[1][4]
      /\ next_join_request_id = settled[2][2] /\ next_invite_id = settled[2][3]
      /\ RequestsOK(settled[1][3], settled[2][2])
      /\ InvitesOK(settled[1][4], settled[2][3])
  BY Running DEF DirectoryOK
<1>2. /\ RequestsOK(requests', next_join_request_id')
      /\ InvitesOK(invites', next_invite_id')
      /\ Len(requests') <= Len(settled[1][3]) + 1
      /\ Len(invites') <= Len(settled[1][4]) + 1
  <2>1. Len(settled[1][3]) \in Nat /\ Len(settled[1][4]) \in Nat
    BY Room
  <2>2. requests' = settled[1][3] /\ invites' = settled[1][4]
    BY <1>1
  <2>3. /\ Len(requests') <= Len(settled[1][3]) + 1
        /\ Len(invites') <= Len(settled[1][4]) + 1
    <3>1. \A k \in Nat : k <= k + 1
      OBVIOUS
    <3>2. QED BY <2>1, <2>2, <3>1
  <2>4. /\ RequestsOK(requests', next_join_request_id')
        /\ InvitesOK(invites', next_invite_id')
    BY <1>1
  <2>5. QED BY <2>3, <2>4
<1>3. /\ SerialInv'
      /\ settled'[1][1] = groups' /\ settled'[1][2] = members'
      /\ settled'[1][3] = requests' /\ settled'[1][4] = invites'
      /\ settled'[2][1] = next_group_id'
      /\ settled'[2][2] = next_join_request_id' /\ settled'[2][3] = next_invite_id'
  BY <1>2, EndsWith
<1>4. QED BY <1>1, <1>3

-----------------------------------------------------------------------------
(* create_group. *)
LEMMA CreateRefines ==
  ASSUME SerialInv, IInv, NEW t \in Thread, Settles, UNCHANGED calls,
         CG_Load(t) \/ CG_Store(t) \/ CG_Group(t) \/ CG_Member(t)
  PROVE  Refines
<1> DEFINE g == settled[1][1]
           m == settled[1][2]
           n == settled[2][1]
<1>1. /\ loc[t] \in CallRecord /\ loc \in [Thread -> CallRecord]
      /\ next_group_id \in Nat
  BY ThreadFacts DEF IInv, FilesFit
<1>2. /\ pc[t] # "idle"
      /\ Progress(pc[t], loc[t], g, m, n, groups, members, next_group_id)
  BY Running DEF CG_Load, CG_Store, CG_Group, CG_Member
<1>3. {"cg_store", "cg_group", "cg_member"} \subseteq Labels
  BY DEF Labels
<1>4. CASE CG_Load(t)
  <2> DEFINE c == [loc[t] EXCEPT !.gid = next_group_id]
  <2>1. /\ c \in CallRecord /\ c.cmd = loc[t].cmd /\ c.user = loc[t].user
        /\ c.requester = loc[t].requester /\ c.gid = next_group_id
    BY <1>1 DEF CallRecord
  <2>2. loc' = [loc EXCEPT ![t] = c]
    BY <1>1, <1>4 DEF CG_Load
  <2> HIDE DEF c
  <2>3. Does(t, "cg_store", c)
    BY <1>1, <1>4, <2>1, <2>2 DEF Does, CG_Load, Goto
  <2>4. groups = g /\ members = m /\ next_group_id = n /\ Caller("cg_load", loc[t])
    BY <1>2, <1>4 DEF CG_Load, Progress, Written, Numbered, Changing
  <2>5. Progress("cg_store", c, g, m, n, groups', members', next_group_id')
    BY <1>4, <2>1, <2>4 DEF CG_Load, disk, counters, Progress, Written, Numbered,
       Changing, Caller, ByOneself, Adding, Known, ByOwner, OnOther, OfMember, OfOutsider,
       Closing, InHand
  <2>6. QED BY <1>2, <1>3, <1>4, <2>3, <2>5, GoesOn DEF CG_Load, disk, counters
<1>5. CASE CG_Store(t)
  <2>1. Does(t, "cg_group", loc[t])
    BY <1>5, SameLocals DEF CG_Store
  <2>2. groups = g /\ members = m /\ loc[t].gid = n /\ Caller("cg_store", loc[t])
    BY <1>2, <1>5 DEF CG_Store, Progress, Written, Numbered, Changing
  <2>3. Progress("cg_group", loc[t], g, m, n, groups', members', next_group_id')
    BY <1>5, <2>2 DEF CG_Store, disk, counters, Progress, Written, Numbered,
       Changing, Caller, ByOneself, Adding, Known, ByOwner, OnOther, OfMember, OfOutsider,
       Closing, InHand
  <2>4. QED BY <1>2, <1>3, <1>5, <2>1, <2>3, GoesOn DEF CG_Store, disk
<1>6. CASE CG_Group(t)
  <2>1. Does(t, "cg_member", loc[t])
    BY <1>6, SameLocals DEF CG_Group
  <2>2. /\ groups = g /\ members = m /\ loc[t].gid = n /\ next_group_id = n + 1
        /\ Caller("cg_group", loc[t])
    BY <1>2, <1>6 DEF CG_Group, Progress, Written, Numbered, Changing
  <2>3. Progress("cg_member", loc[t], g, m, n, groups', members', next_group_id')
    BY <1>6, <2>2 DEF CG_Group, counters, Progress, Written, Numbered,
       Changing, Caller, ByOneself, Adding, Known, ByOwner, OnOther, OfMember, OfOutsider,
       Closing, InHand
  <2>4. QED BY <1>2, <1>3, <1>6, <2>1, <2>3, GoesOn DEF CG_Group, counters
<1>7. CASE CG_Member(t)
  <2>1. /\ groups = Append(g, NewGroup(loc[t].gid, loc[t].user)) /\ members = m
        /\ loc[t].gid = n /\ next_group_id = n + 1 /\ loc[t].user \in Account
    BY <1>2, <1>7 DEF CG_Member, Progress, Written, Numbered, Changing, Caller
  <2>2. CreateEffect(g, m, n, loc[t].user, groups', members')
    BY <1>7, <2>1 DEF CG_Member, CreateEffect
  <2>3. /\ Consistent(g, m) /\ n = Len(g) + 1 /\ loc[t].user \in Name
        /\ Len(g) < MaxCalls /\ Len(m) < MaxCalls /\ Len(g) \in Nat /\ Len(m) \in Nat
    BY <1>2, <2>1, Running, Room, AccountAssumption DEF DirectoryOK
  <2>4. /\ Consistent(groups', members') /\ Len(groups') = Len(g) + 1
        /\ Len(members') = Len(m) + 1
    <3> HIDE DEF g, m, n
    <3>1. PICK u, g2, m2 : u = loc[t].user /\ g2 = groups' /\ m2 = members'
      OBVIOUS
    <3>2. Consistent(g2, m2) /\ Len(g2) = Len(g) + 1 /\ Len(m2) = Len(m) + 1
      BY <2>2, <2>3, <3>1, Created
    <3>3. QED BY <3>1, <3>2
  <2>5. next_group_id' = Len(groups') + 1 /\ next_group_id' = n + 1
    BY <1>7, <2>1, <2>3, <2>4 DEF CG_Member, counters
  <2>6. /\ SerialInv'
        /\ settled'[1][1] = groups' /\ settled'[1][2] = members'
        /\ settled'[1][3] = settled[1][3] /\ settled'[1][4] = settled[1][4]
        /\ settled'[2][1] = next_group_id'
        /\ settled'[2][2] = settled[2][2] /\ settled'[2][3] = settled[2][3]
    <3>1. /\ Return(t)
          /\ UNCHANGED <<requests, invites, next_join_request_id, next_invite_id>>
      BY <1>7 DEF CG_Member, counters
    <3>2. Len(groups') <= Len(g) + 1 /\ Len(members') <= Len(m) + 1
      BY <2>3, <2>4
    <3>3. QED BY <1>2, <2>4, <2>5, <3>1, <3>2, EndsWithMembers
  <2>7. DB!Next
    <3>1. PICK u, k : u = loc[t].user /\ k = n
      OBVIOUS
    <3>2. CreateEffect(settled[1][1], settled[1][2], k, u, settled'[1][1], settled'[1][2])
      BY <2>2, <2>6, <3>1
    <3>3. QED BY <2>1, <2>3, <2>5, <2>6, <3>1, <3>2, CreateHappens
  <2>8. QED BY <2>6, <2>7 DEF Refines
<1>8. QED BY <1>4, <1>5, <1>6, <1>7

-----------------------------------------------------------------------------
(* add_member_to_group, on its own or in a decision. *)
LEMMA CountIsInt ==
  ASSUME NEW g, NEW m, Consistent(g, m), NEW gid, Live(g, gid)
  PROVE  /\ gid \in DOMAIN g /\ gid \in Nat /\ g[gid] \in GroupRecordDB
         /\ g[gid].member_count \in Int
         /\ ActiveGroupAt(g, gid) = gid /\ gid # 0
<1>1. gid \in DOMAIN g /\ g \in Seq(GroupRecordDB)
  BY DEF Consistent, Counted, Live
<1>2. g[gid] \in GroupRecordDB /\ gid \in Nat /\ gid # 0
  BY <1>1
<1>3. QED BY <1>1, <1>2, GroupLookup DEF GroupRecordDB

(* An addition that fails ends the call before anything is written.        *)
LEMMA AddFails ==
  ASSUME SerialInv, IInv, NEW t \in Thread, Settles, UNCHANGED <<disk, counters, calls>>,
         pc[t] \in {"am_owner", "am_member"}, AddFailed(t)
  PROVE  Refines
<1>1. pc[t] \in Unchanging /\ pc[t] # "idle" /\ Return(t)
  BY DEF Unchanging, Labels, Changing, AddFailed
<1>2. QED BY <1>1, NothingWritten, EndsUnchanged

(* The member is added and counted: the effect of the call, or a part of   *)
(* that of the decision, which goes on.                                    *)
LEMMA AddEnds ==
  ASSUME SerialInv, IInv, NEW t \in Thread, Settles,
         UNCHANGED <<requests, invites, counters, calls>>,
         pc[t] = "am_gwrite", AddDone(t),
         JoinEffect(settled[1][1], settled[1][2], loc[t].gid, loc[t].name,
                    groups', members')
  PROVE  Refines
<1> DEFINE c == loc[t]
           g == settled[1][1]
           m == settled[1][2]
           n == settled[2][1]
<1>1. /\ Progress("am_gwrite", c, g, m, n, groups, members, next_group_id)
      /\ Consistent(g, m) /\ pc[t] # "idle"
  BY Running
<1>2. /\ IsGroupOwner(g, c.gid, c.requester) /\ ~IsMemberOfGroup(m, c.gid, c.name)
      /\ Caller("am_gwrite", c) /\ next_group_id = n
  BY <1>1 DEF Progress, Known, OfOutsider, Numbered
<1>3. /\ Live(g, c.gid) /\ c.cmd \in {"add_member", "decide_request", "decide_invite"}
      /\ c.name \in Name
  BY <1>1, <1>2, OwnerLookup, ThreadFacts DEF ArgsFit, Serves, Adding, OnEntry
<1>4. /\ UNCHANGED <<requests, invites, next_join_request_id, next_invite_id>>
      /\ next_group_id' = n
  BY <1>2 DEF counters
<1>5. CASE c.cmd = "add_member"
  <2>1. Return(t) /\ c.user \in Account /\ IsGroupOwner(g, c.gid, c.user)
    BY <1>2, <1>5 DEF AddDone, Caller
  <2>2. /\ Consistent(groups', members') /\ Len(groups') = Len(g)
        /\ Len(members') = Len(m) + 1
    <3> HIDE DEF c, g, m, n
    <3>1. PICK k, v, g2, m2 : k = c.gid /\ v = c.name /\ g2 = groups' /\ m2 = members'
      OBVIOUS
    <3>2. JoinEffect(g, m, k, v, g2, m2)
      BY <3>1 DEF c, g, m
    <3>3. Consistent(g2, m2) /\ Len(g2) = Len(g) /\ Len(m2) = Len(m) + 1
      BY <1>1, <1>2, <1>3, <3>1, <3>2, Joined
    <3>4. QED BY <3>1, <3>3
  <2>3. n = Len(g) + 1 /\ Len(g) \in Nat /\ Len(m) \in Nat /\ Len(m) < MaxCalls
    BY <1>1, Running, Room DEF DirectoryOK
  <2>4. /\ next_group_id' = Len(groups') + 1
        /\ Len(groups') <= Len(g) + 1 /\ Len(members') <= Len(m) + 1
    <3> HIDE DEF g, m, n
    <3>1. QED BY <1>4, <2>2, <2>3
  <2>5. /\ SerialInv'
        /\ settled'[1][1] = groups' /\ settled'[1][2] = members'
        /\ settled'[1][3] = settled[1][3] /\ settled'[1][4] = settled[1][4]
        /\ settled'[2][1] = next_group_id'
        /\ settled'[2][2] = settled[2][2] /\ settled'[2][3] = settled[2][3]
    BY <1>1, <1>4, <2>1, <2>2, <2>4, EndsWithMembers
  <2>6. DB!Next
    <3>1. PICK u, k, v : u = c.user /\ k = c.gid /\ v = c.name
      OBVIOUS
    <3>2. /\ JoinEffect(settled[1][1], settled[1][2], k, v, settled'[1][1], settled'[1][2])
          /\ RestSettled
      BY <1>4, <2>5, <3>1 DEF RestSettled
    <3>3. QED BY <1>1, <1>2, <1>3, <2>1, <2>3, <3>1, <3>2, AddHappens
  <2>7. QED BY <2>5, <2>6 DEF Refines
<1>6. ASSUME NEW l \in {"dj_write", "di_write"}, Goto(t, l), UNCHANGED loc,
             \/ l = "dj_write" /\ c.cmd = "decide_request"
             \/ l = "di_write" /\ c.cmd = "decide_invite"
      PROVE  Refines
  <2>1. Does(t, l, c) /\ l \in Labels /\ l # "idle"
    BY <1>6, SameLocals DEF Labels
  <2>2. Caller(l, c) /\ c.approve /\ (l = "dj_write" => c.requester = c.user)
    BY <1>2, <1>6 DEF Caller, ByOneself, Adding, OnEntry
  <2>3. Known(l, c, g, m)
    BY <1>2, <1>3, <1>6, <2>2 DEF Known, ByOwner, OnOther, OfMember, OfOutsider, Closing
  <2>4. InHand(l, c, g, m) /\ Numbered(l, c, n, next_group_id')
    BY <1>4, <1>6 DEF InHand, Numbered
  <2>5. Written(l, c, g, m, groups', members')
    BY <1>2, <1>6, <2>2 DEF Written, Changing, MemberAdded1, GroupCounted, JoinEffect
  <2>6. Progress(l, c, g, m, n, groups', members', next_group_id')
    BY <2>2, <2>3, <2>4, <2>5 DEF Progress
  <2>7. QED BY <1>1, <1>4, <2>1, <2>6, GoesOn
<1>7. QED BY <1>3, <1>5, <1>6 DEF AddDone

(* The addition, from its checks to the count of members.                  *)
LEMMA AddRefines ==
  ASSUME SerialInv, IInv, NEW t \in Thread, Settles, UNCHANGED calls,
         \/ AM_Owner(t) \/ AM_Member(t) \/ AM_Append(t)
         \/ AM_ReadGroup(t) \/ AM_WriteGroup(t)
  PROVE  Refines
<1> DEFINE c == loc[t]
           g == settled[1][1]
           m == settled[1][2]
           n == settled[2][1]
<1>1. /\ pc[t] # "idle"
      /\ Progress(pc[t], c, g, m, n, groups, members, next_group_id)
      /\ Consistent(g, m) /\ c \in CallRecord
  BY Running, ThreadFacts DEF AM_Owner, AM_Member, AM_Append, AM_ReadGroup, AM_WriteGroup
<1>2. {"am_owner", "am_member", "am_append"} \subseteq Simple /\ Simple \subseteq Unchanging
      /\ {"am_gread", "am_gwrite"} \subseteq Labels /\ Unchanging \subseteq Labels
  BY DEF Simple, Unchanging, Labels, Changing
<1>3. ASSUME NEW l \in Simple, Goto(t, l), UNCHANGED <<loc, disk, counters>>,
             pc[t] \in Simple, Caller(l, c), Known(l, c, g, m)
      PROVE  Refines
  <2>1. Does(t, l, c) /\ l # "idle" /\ l \in Labels
    BY <1>3, SameLocals DEF Simple, Unchanging
  <2>2. groups = g /\ members = m /\ next_group_id = n
    BY <1>2, <1>3, SoFar
  <2>3. Progress(l, c, g, m, n, groups', members', next_group_id')
    BY <1>3, <2>2, SimpleProgress DEF disk, counters
  <2>4. QED BY <1>1, <1>3, <2>1, <2>3, GoesOn DEF disk, counters
<1>4. CASE AM_Owner(t)
  <2>1. pc[t] = "am_owner" /\ UNCHANGED <<disk, counters>>
    BY <1>4 DEF AM_Owner
  <2>2. CASE IsGroupOwner(groups, c.gid, c.requester)
    <3>1. Goto(t, "am_member") /\ UNCHANGED loc
      BY <1>4, <2>2 DEF AM_Owner
    <3>2. groups = g /\ Caller("am_owner", c)
      BY <1>2, <2>1, SoFar
    <3>3. Caller("am_member", c) /\ Known("am_member", c, g, m)
      BY <2>2, <3>2 DEF Caller, ByOneself, Adding, Known, ByOwner, OnOther, OfMember,
         OfOutsider, Closing
    <3>4. QED BY <1>2, <1>3, <2>1, <3>1, <3>3
  <2>3. CASE ~IsGroupOwner(groups, c.gid, c.requester)
    BY <1>4, <2>1, <2>3, AddFails DEF AM_Owner
  <2>4. QED BY <2>2, <2>3
<1>5. CASE AM_Member(t)
  <2>1. pc[t] = "am_member" /\ UNCHANGED <<disk, counters>>
    BY <1>5 DEF AM_Member
  <2>2. CASE IsMemberOfGroup(members, c.gid, c.name)
    BY <1>5, <2>1, <2>2, AddFails DEF AM_Member
  <2>3. CASE ~IsMemberOfGroup(members, c.gid, c.name)
    <3>1. Goto(t, "am_append") /\ UNCHANGED loc
      BY <1>5, <2>3 DEF AM_Member
    <3>2. members = m /\ Caller("am_member", c) /\ Known("am_member", c, g, m)
      BY <1>2, <2>1, SoFar
    <3>3. Caller("am_append", c) /\ Known("am_append", c, g, m)
      BY <2>3, <3>2 DEF Caller, ByOneself, Adding, Known, ByOwner, OnOther, OfMember,
         OfOutsider, Closing
    <3>4. QED BY <1>2, <1>3, <2>1, <3>1, <3>3
  <2>4. QED BY <2>2, <2>3
<1>6. CASE AM_Append(t)
  <2>1. /\ pc[t] = "am_append" /\ Does(t, "am_gread", c)
        /\ members' = Append(members, NewMember(c.gid, c.name, FALSE))
        /\ UNCHANGED <<groups, requests, invites, next_group_id,
                       next_join_request_id, next_invite_id>>
    BY <1>6, SameLocals DEF AM_Append, counters
  <2>2. /\ groups = g /\ members = m /\ next_group_id = n
        /\ Caller("am_append", c) /\ Known("am_append", c, g, m)
    BY <1>2, <2>1, SoFar
  <2>3. Caller("am_gread", c) /\ Known("am_gread", c, g, m)
    BY <2>2 DEF Caller, ByOneself, Adding, Known, ByOwner, OnOther, OfMember,
       OfOutsider, Closing
  <2>4. Written("am_gread", c, g, m, groups', members')
    BY <2>1, <2>2 DEF Written, Changing, MemberAdded1
  <2>5. InHand("am_gread", c, g, m) /\ Numbered("am_gread", c, n, next_group_id')
    BY <2>1, <2>2 DEF InHand, Numbered
  <2>6. QED BY <1>1, <1>2, <2>1, <2>3, <2>4, <2>5, GoesOn DEF Progress
<1>7. ASSUME pc[t] \in {"am_gread", "am_gwrite"}
      PROVE  /\ groups = g /\ members = Append(m, NewMember(c.gid, c.name, FALSE))
             /\ Caller(pc[t], c) /\ Known(pc[t], c, g, m) /\ InHand(pc[t], c, g, m)
             /\ next_group_id = n /\ Live(g, c.gid)
  <2>1. Caller(pc[t], c) /\ Known(pc[t], c, g, m) /\ InHand(pc[t], c, g, m)
    BY <1>1 DEF Progress
  <2>2. groups = g /\ members = Append(m, NewMember(c.gid, c.name, FALSE))
    BY <1>1, <1>7 DEF Progress, Written, MemberAdded1
  <2>3. next_group_id = n
    BY <1>1, <1>7 DEF Progress, Numbered
  <2>4. Live(g, c.gid)
    BY <1>1, <1>7, <2>1, OwnerLookup DEF Known
  <2>5. QED BY <2>1, <2>2, <2>3, <2>4
<1>8. CASE AM_ReadGroup(t)
  <2>1. pc[t] = "am_gread"
    BY <1>8 DEF AM_ReadGroup
  <2>2. /\ groups = g /\ members = Append(m, NewMember(c.gid, c.name, FALSE))
        /\ Caller("am_gread", c) /\ Known("am_gread", c, g, m)
        /\ next_group_id = n /\ Live(g, c.gid)
    BY <1>7, <2>1
  <2>3. /\ ActiveGroupAt(groups, c.gid) = c.gid /\ c.gid # 0 /\ c.gid \in Nat
        /\ g[c.gid] \in GroupRecordDB /\ g[c.gid].member_count \in Int
    BY <1>1, <2>2, CountIsInt
  <2> DEFINE r == CountedBy(g[c.gid], 1)
  <2>4. /\ Hold(t, c.gid, r) /\ Goto(t, "am_gwrite")
        /\ UNCHANGED <<disk, counters>>
    BY <1>8, <2>2, <2>3 DEF AM_ReadGroup, CountedBy
  <2>5. r \in GroupRecordDB
    BY <2>3 DEF CountedBy, GroupRecordDB
  <2> HIDE DEF r
  <2>6. PICK d \in CallRecord :
           /\ Does(t, "am_gwrite", d) /\ d.at = c.gid /\ d.rec = r
           /\ d.cmd = c.cmd /\ d.user = c.user /\ d.name = c.name
           /\ d.gid = c.gid /\ d.approve = c.approve /\ d.requester = c.requester
    BY <2>3, <2>4, <2>5, Held
  <2>7. Caller("am_gwrite", d) /\ Known("am_gwrite", d, g, m)
    BY <2>2, <2>6 DEF Caller, ByOneself, Adding, Known, ByOwner, OnOther, OfMember,
       OfOutsider, Closing
  <2>8. InHand("am_gwrite", d, g, m)
    BY <2>6 DEF InHand, r
  <2>9. Written("am_gwrite", d, g, m, groups', members')
    BY <2>2, <2>4, <2>6 DEF Written, Changing, MemberAdded1, disk
  <2>10. Numbered("am_gwrite", d, n, next_group_id')
    BY <2>2, <2>4 DEF Numbered, counters
  <2>11. Progress("am_gwrite", d, g, m, n, groups', members', next_group_id')
    BY <2>7, <2>8, <2>9, <2>10 DEF Progress
  <2>12. QED BY <1>1, <1>2, <2>4, <2>6, <2>11, GoesOn DEF disk, counters
<1>9. CASE AM_WriteGroup(t)
  <2>1. pc[t] = "am_gwrite" /\ groups' = [groups EXCEPT ![c.at] = c.rec] /\ AddDone(t)
        /\ UNCHANGED <<members, requests, invites, counters>>
    BY <1>9 DEF AM_WriteGroup
  <2>2. /\ groups = g /\ members = Append(m, NewMember(c.gid, c.name, FALSE))
        /\ InHand("am_gwrite", c, g, m)
    BY <1>7, <2>1
  <2>3. c.at = c.gid /\ c.rec = CountedBy(g[c.gid], 1)
    BY <2>2 DEF InHand
  <2>4. groups' = [g EXCEPT ![c.gid].member_count = @ + 1]
    BY <2>1, <2>2, <2>3 DEF CountedBy
  <2>5. JoinEffect(g, m, c.gid, c.name, groups', members')
    BY <2>1, <2>2, <2>4 DEF JoinEffect
  <2>6. QED BY <2>1, <2>5, AddEnds
<1>10. QED BY <1>4, <1>5, <1>6, <1>8, <1>9

-----------------------------------------------------------------------------
(* A record is read to be updated. *)
SameArgs(c, d) ==
  /\ d.cmd = c.cmd /\ d.user = c.user /\ d.name = c.name
  /\ d.requester = c.requester /\ d.gid = c.gid /\ d.approve = c.approve

(* Nothing is written while the record is read, so only its label and      *)
(* record change.                                                          *)
LEMMA HoldsOn ==
  ASSUME SerialInv, IInv, NEW t \in Thread, pc[t] # "idle", Settles,
         UNCHANGED <<disk, counters, calls>>,
         NEW l \in Labels, l # "idle", NEW at \in Nat,
         NEW rec \in GroupRecordDB \cup MemberRecordDB \cup {NoRecord},
         Hold(t, at, rec), Goto(t, l),
         \A d \in CallRecord :
           SameArgs(loc[t], d) /\ d.at = at /\ d.rec = rec =>
             Progress(l, d, settled[1][1], settled[1][2], settled[2][1],
                      groups, members, next_group_id)
  PROVE  Refines
<1>1. PICK d \in CallRecord : Does(t, l, d) /\ SameArgs(loc[t], d) /\ d.at = at /\ d.rec = rec
  BY Held DEF SameArgs
<1>2. Progress(l, d, settled[1][1], settled[1][2], settled[2][1],
               groups, members, next_group_id)
  BY <1>1
<1>3. /\ UNCHANGED <<requests, invites, next_join_request_id, next_invite_id>>
      /\ UNCHANGED <<groups, members, next_group_id>>
  BY DEF disk, counters
<1>4. QED BY <1>1, <1>2, <1>3, GoesOn

-----------------------------------------------------------------------------
(* remove_member_from_group and leave_group of a member, from the member   *)
(* record on: the prefix of the labels is the only difference.             *)
LEMMA DropReadRefines ==
  ASSUME SerialInv, IInv, NEW t \in Thread, Settles, UNCHANGED calls,
         RM_Read(t) \/ LV_Read(t)
  PROVE  Refines
<1> DEFINE c == loc[t]
           g == settled[1][1]
           m == settled[1][2]
           n == settled[2][1]
<1>1. PICK label, next : /\ ReadMemberToDeactivate(t, label, next)
                         /\ \/ label = "rm_read" /\ next = "rm_write"
                            \/ label = "lv_read" /\ next = "lv_write"
  BY DEF RM_Read, LV_Read
<1>2. PICK at : at = ActiveMemberAt(members, c.gid, c.name)
  OBVIOUS
<1>3. pc[t] = label /\ label \in Unchanging /\ UNCHANGED <<disk, counters>>
  BY <1>1 DEF ReadMemberToDeactivate, Unchanging, Labels, Changing
<1>4. /\ Caller(label, c) /\ Known(label, c, g, m) /\ Consistent(g, m)
      /\ groups = g /\ members = m /\ next_group_id = n /\ label # "idle"
  BY <1>3, SoFar
<1>5. CASE at = 0
  <2>1. Return(t)
    BY <1>1, <1>2, <1>5 DEF ReadMemberToDeactivate
  <2>2. QED BY <1>3, <1>4, <2>1, EndsUnchanged
<1>6. CASE at # 0
  <2>1. at \in DOMAIN m /\ m \in Seq(MemberRecordDB)
    <3>1. m \in Seq(MemberRecordDB)
      BY <1>4 DEF Consistent, Counted
    <3>2. at = ActiveMemberAt(m, c.gid, c.name)
      BY <1>2, <1>4
    <3> HIDE DEF m
    <3>3. QED BY <1>6, <3>1, <3>2, ActiveMemberFound
  <2> DEFINE r == EndedRecord(m[at])
  <2>2. at \in Nat /\ r \in MemberRecordDB
    <3>1. at \in Nat /\ m[at] \in MemberRecordDB
      <4> HIDE DEF m
      <4>1. QED BY <2>1
    <3>2. QED BY <3>1 DEF EndedRecord, MemberRecordDB
  <2>3. Hold(t, at, r) /\ Goto(t, next)
    BY <1>1, <1>2, <1>4, <1>6 DEF ReadMemberToDeactivate, EndedRecord
  <2>4. ASSUME NEW d \in CallRecord, SameArgs(c, d), d.at = at, d.rec = r
        PROVE  Progress(next, d, g, m, n, groups, members, next_group_id)
    <3>1. Caller(next, d)
      BY <1>1, <1>4, <2>4 DEF Caller, ByOneself, Adding, SameArgs
    <3>2. IsMemberOfGroup(m, d.gid, d.name)
      BY <1>2, <1>4, <1>6, <2>4 DEF SameArgs, IsMemberOfGroup
    <3>3. Known(next, d, g, m)
      BY <1>1, <1>4, <2>4, <3>2 DEF Known, ByOwner, OnOther, OfMember, OfOutsider,
         Closing, SameArgs
    <3>4. d.at = ActiveMemberAt(m, d.gid, d.name) /\ d.rec = EndedRecord(m[d.at])
      BY <1>2, <1>4, <2>4 DEF SameArgs
    <3>5. InHand(next, d, g, m)
      BY <1>1, <3>4 DEF InHand
    <3>6. Written(next, d, g, m, groups, members) /\ Numbered(next, d, n, next_group_id)
      BY <1>1, <1>4 DEF Written, Changing, Numbered
    <3>7. QED BY <3>1, <3>3, <3>5, <3>6 DEF Progress
  <2>5. next \in Labels /\ next # "idle"
    BY <1>1 DEF Labels
  <2> HIDE DEF r
  <2>6. QED BY <1>3, <1>4, <2>2, <2>3, <2>4, <2>5, HoldsOn
<1>7. QED BY <1>5, <1>6

(* The member record is put back, inactive.                                *)
LEMMA DropWriteRefines ==
  ASSUME SerialInv, IInv, NEW t \in Thread, Settles, UNCHANGED calls,
         RM_Write(t) \/ LV_Write(t)
  PROVE  Refines
<1> DEFINE c == loc[t]
           g == settled[1][1]
           m == settled[1][2]
           n == settled[2][1]
<1>1. PICK label, next : /\ StoreMember(t, label) /\ Goto(t, next) /\ UNCHANGED loc
                         /\ \/ label = "rm_write" /\ next = "rm_gread"
                            \/ label = "lv_write" /\ next = "lv_gread"
  BY DEF RM_Write, LV_Write
<1>2. /\ pc[t] = label /\ label \in Unchanging
      /\ members' = [members EXCEPT ![c.at] = c.rec]
      /\ UNCHANGED <<groups, requests, invites, next_group_id,
                     next_join_request_id, next_invite_id>>
      /\ Does(t, next, c)
  BY <1>1, SameLocals DEF StoreMember, Unchanging, Labels, Changing, counters
<1>3. /\ Caller(label, c) /\ Known(label, c, g, m) /\ Consistent(g, m)
      /\ groups = g /\ members = m /\ next_group_id = n /\ label # "idle"
  BY <1>2, SoFar
<1>4. c.at = ActiveMemberAt(m, c.gid, c.name) /\ c.rec = EndedRecord(m[c.at])
  BY <1>1, <1>2, <1>3, Running DEF Progress, InHand
<1>5. members' = Deactivate(m, ActiveMemberAt(m, c.gid, c.name))
  BY <1>2, <1>3, <1>4 DEF Deactivate, EndedRecord
<1>6. Caller(next, c) /\ Known(next, c, g, m)
  BY <1>1, <1>3 DEF Caller, ByOneself, Adding, Known, ByOwner, OnOther, OfMember,
     OfOutsider, Closing
<1>7. InHand(next, c, g, m) /\ Numbered(next, c, n, next_group_id')
  BY <1>1, <1>2, <1>3 DEF InHand, Numbered
<1>8. Written(next, c, g, m, groups', members')
  BY <1>1, <1>2, <1>3, <1>5 DEF Written, Changing, MemberEnded
<1>9. next \in Labels /\ next # "idle"
  BY <1>1 DEF Labels
<1>10. QED BY <1>2, <1>3, <1>6, <1>7, <1>8, <1>9, GoesOn DEF Progress

(* The facts at the second half of the call. *)
Dropping == {"rm_gread", "rm_gwrite", "lv_gread", "lv_gwrite"}

(* Between the two files: the member is gone and still counted.            *)
LEMMA DropHalfDone ==
  ASSUME SerialInv, IInv, NEW t \in Thread, pc[t] \in Dropping,
         NEW c, c = loc[t], NEW g, g = settled[1][1], NEW m, m = settled[1][2]
  PROVE  /\ pc[t] # "idle" /\ Consistent(g, m) /\ groups = g
         /\ members = Deactivate(m, ActiveMemberAt(m, c.gid, c.name))
         /\ Caller(pc[t], c) /\ Known(pc[t], c, g, m) /\ InHand(pc[t], c, g, m)
         /\ next_group_id = settled[2][1]
         /\ IsMemberOfGroup(m, c.gid, c.name) /\ ~IsGroupOwner(g, c.gid, c.name)
         /\ Live(g, c.gid) /\ g[c.gid].member_count > 0
<1>1. pc[t] # "idle"
  BY DEF Dropping
<1>2. /\ Consistent(g, m)
      /\ Progress(pc[t], c, g, m, settled[2][1], groups, members, next_group_id)
  BY <1>1, Running
<1>3. Caller(pc[t], c) /\ Known(pc[t], c, g, m) /\ InHand(pc[t], c, g, m)
  BY <1>2 DEF Progress
<1>4. groups = g /\ members = Deactivate(m, ActiveMemberAt(m, c.gid, c.name))
  BY <1>2 DEF Progress, Written, MemberEnded, Dropping
<1>5. next_group_id = settled[2][1]
  BY <1>2 DEF Progress, Numbered, Dropping
<1>6. IsMemberOfGroup(m, c.gid, c.name) /\ ~IsGroupOwner(g, c.gid, c.name)
  BY <1>3 DEF Known, OfMember, OnOther, Dropping
<1>7. Live(g, c.gid) /\ g[c.gid].member_count > 0
  BY <1>2, <1>6, MembersGroupIsLive
<1>8. QED BY <1>1, <1>2, <1>3, <1>4, <1>5, <1>6, <1>7

(* The group record is read to be counted down.                            *)
LEMMA DropCountRefines ==
  ASSUME SerialInv, IInv, NEW t \in Thread, Settles, UNCHANGED calls,
         RM_ReadGroup(t) \/ LV_ReadGroup(t)
  PROVE  Refines
<1> DEFINE c == loc[t]
           g == settled[1][1]
           m == settled[1][2]
           n == settled[2][1]
<1>1. PICK label, next : /\ pc[t] = label /\ UNCHANGED <<disk, counters>>
                         /\ \/ label = "rm_gread" /\ next = "rm_gwrite" /\ RM_ReadGroup(t)
                            \/ label = "lv_gread" /\ next = "lv_gwrite" /\ LV_ReadGroup(t)
  BY DEF RM_ReadGroup, LV_ReadGroup
<1>2. /\ pc[t] # "idle" /\ Consistent(g, m) /\ groups = g
      /\ members = Deactivate(m, ActiveMemberAt(m, c.gid, c.name))
      /\ Caller(label, c) /\ Known(label, c, g, m)
      /\ next_group_id = n /\ Live(g, c.gid) /\ g[c.gid].member_count > 0
  BY <1>1, DropHalfDone DEF Dropping
<1>3. /\ ActiveGroupAt(groups, c.gid) = c.gid /\ c.gid # 0 /\ c.gid \in Nat
      /\ g[c.gid] \in GroupRecordDB /\ g[c.gid].member_count \in Int
  BY <1>2, CountIsInt
<1> DEFINE r == CountedBy(g[c.gid], -1)
<1>4. r \in GroupRecordDB
  BY <1>3 DEF CountedBy, GroupRecordDB
<1>5. r = [g[c.gid] EXCEPT !.member_count = @ - 1]
  BY <1>3 DEF CountedBy
<1>6. Hold(t, c.gid, r) /\ Goto(t, next)
  <2>1. CASE RM_ReadGroup(t) /\ next = "rm_gwrite"
    BY <1>2, <1>3, <1>5, <2>1 DEF RM_ReadGroup
  <2>2. CASE LV_ReadGroup(t) /\ next = "lv_gwrite"
    <3>1. r = [g[c.gid] EXCEPT !.member_count = IF @ > 0 THEN @ - 1 ELSE @]
      BY <1>2, <1>5
    <3>2. QED BY <1>2, <1>3, <2>2, <3>1 DEF LV_ReadGroup
  <2>3. QED BY <1>1, <2>1, <2>2
<1>7. ASSUME NEW d \in CallRecord, SameArgs(c, d), d.at = c.gid, d.rec = r
      PROVE  Progress(next, d, g, m, n, groups, members, next_group_id)
  <2>1. Caller(next, d)
    BY <1>1, <1>2, <1>7 DEF Caller, ByOneself, Adding, SameArgs
  <2>2. Known(next, d, g, m)
    BY <1>1, <1>2, <1>7 DEF Known, ByOwner, OnOther, OfMember, OfOutsider,
       Closing, SameArgs
  <2>3. d.at = d.gid /\ d.rec = CountedBy(g[d.gid], -1)
    BY <1>7 DEF SameArgs
  <2>4. InHand(next, d, g, m)
    BY <1>1, <2>3 DEF InHand
  <2>5. Written(next, d, g, m, groups, members) /\ Numbered(next, d, n, next_group_id)
    BY <1>1, <1>2, <1>7 DEF Written, Changing, Numbered, MemberEnded, SameArgs
  <2>6. QED BY <2>1, <2>2, <2>4, <2>5 DEF Progress
<1>8. next \in Labels /\ next # "idle"
  BY <1>1 DEF Labels
<1> HIDE DEF r
<1>9. QED BY <1>1, <1>2, <1>3, <1>4, <1>6, <1>7, <1>8, HoldsOn

(* The count is written: the call has had its effect.                      *)
LEMMA DropEndRefines ==
  ASSUME SerialInv, IInv, NEW t \in Thread, Settles, UNCHANGED calls,
         RM_WriteGroup(t) \/ LV_WriteGroup(t)
  PROVE  Refines
<1> DEFINE c == loc[t]
           g == settled[1][1]
           m == settled[1][2]
           n == settled[2][1]
<1>1. PICK label \in {"rm_gwrite", "lv_gwrite"} : StoreGroup(t, label) /\ Return(t)
  BY DEF RM_WriteGroup, LV_WriteGroup
<1>2. /\ pc[t] = label /\ pc[t] \in Dropping
      /\ groups' = [groups EXCEPT ![c.at] = c.rec]
      /\ UNCHANGED <<members, requests, invites, next_group_id,
                     next_join_request_id, next_invite_id>>
  BY <1>1 DEF StoreGroup, counters, Dropping
<1>3. /\ pc[t] # "idle" /\ Consistent(g, m) /\ groups = g
      /\ members = Deactivate(m, ActiveMemberAt(m, c.gid, c.name))
      /\ Caller(label, c) /\ Known(label, c, g, m) /\ InHand(label, c, g, m)
      /\ next_group_id = n
      /\ IsMemberOfGroup(m, c.gid, c.name) /\ ~IsGroupOwner(g, c.gid, c.name)
      /\ Live(g, c.gid)
  BY <1>2, DropHalfDone
<1>4. g[c.gid].member_count \in Int /\ c.gid \in DOMAIN g
  BY <1>3, CountIsInt
<1>5. c.at = c.gid /\ c.rec = CountedBy(g[c.gid], -1)
  BY <1>3 DEF InHand
<1>6. groups' = [g EXCEPT ![c.gid].member_count = @ - 1]
  BY <1>2, <1>3, <1>4, <1>5 DEF CountedBy
<1>7. DropEffect(g, m, c.gid, c.name, groups', members')
  BY <1>2, <1>3, <1>6 DEF DropEffect
<1>8. /\ Consistent(groups', members') /\ Len(groups') = Len(g)
      /\ Len(members') = Len(m)
  <2> HIDE DEF c, g, m, n
  <2>1. PICK k, v, g2, m2 : k = c.gid /\ v = c.name /\ g2 = groups' /\ m2 = members'
    OBVIOUS
  <2>2. DropEffect(g, m, k, v, g2, m2)
    BY <1>7, <2>1
  <2>3. g[k].owner # v
    BY <1>3, <2>1, OwnerLookup
  <2>4. Consistent(g2, m2) /\ Len(g2) = Len(g) /\ Len(m2) = Len(m)
    BY <1>3, <2>1, <2>2, <2>3, Dropped
  <2>5. QED BY <2>1, <2>4
<1>9. n = Len(g) + 1 /\ Len(g) \in Nat /\ Len(m) \in Nat
  BY <1>3, Running, Room DEF DirectoryOK
<1>10. /\ next_group_id' = Len(groups') + 1
       /\ Len(groups') <= Len(g) + 1 /\ Len(members') <= Len(m) + 1
  <2> HIDE DEF g, m, n
  <2>1. QED BY <1>2, <1>3, <1>8, <1>9
<1>11. /\ SerialInv'
       /\ settled'[1][1] = groups' /\ settled'[1][2] = members'
       /\ settled'[1][3] = settled[1][3] /\ settled'[1][4] = settled[1][4]
       /\ settled'[2][1] = next_group_id'
       /\ settled'[2][2] = settled[2][2] /\ settled'[2][3] = settled[2][3]
  BY <1>1, <1>2, <1>3, <1>8, <1>10, EndsWithMembers
<1>12. c.user \in Account /\ c.name \in Name
  BY <1>2, <1>3, ThreadFacts DEF Caller, ArgsFit
<1>13. DB!Next
  <2>1. PICK u, k, v : u = c.user /\ k = c.gid /\ v = c.name
    OBVIOUS
  <2>2. /\ DropEffect(settled[1][1], settled[1][2], k, v, settled'[1][1], settled'[1][2])
        /\ RestSettled
    BY <1>2, <1>3, <1>7, <1>11, <2>1 DEF RestSettled
  <2>3. CASE label = "rm_gwrite"
    <3>1. IsGroupOwner(g, k, u)
      BY <1>3, <2>1, <2>3 DEF Known, ByOwner
    <3>2. QED BY <1>3, <1>12, <2>1, <2>2, <3>1, RemoveHappens
  <2>4. CASE label = "lv_gwrite"
    <3>1. u = v
      BY <1>3, <2>1, <2>4 DEF Caller, ByOneself
    <3>2. QED BY <1>3, <1>12, <2>1, <2>2, <3>1, LeaveHappens
  <2>5. QED BY <2>3, <2>4
<1>14. QED BY <1>11, <1>13 DEF Refines

-----------------------------------------------------------------------------
(* leave_group, the branch, and delete_group. *)
LEMMA BranchRefines ==
  ASSUME SerialInv, IInv, NEW t \in Thread, Settles, UNCHANGED calls, LV_Owner(t)
  PROVE  Refines
<1> DEFINE c == loc[t]
           g == settled[1][1]
           m == settled[1][2]
           n == settled[2][1]
<1>1. PICK l : /\ l = IF IsGroupOwner(groups, c.gid, c.user) THEN "lv_info" ELSE "lv_read"
               /\ Goto(t, l) /\ UNCHANGED loc
  BY DEF LV_Owner
<1>2. pc[t] = "lv_owner" /\ pc[t] \in Unchanging /\ UNCHANGED <<disk, counters>>
  BY DEF LV_Owner, Unchanging, Labels, Changing
<1>3. /\ Caller("lv_owner", c) /\ Known("lv_owner", c, g, m)
      /\ groups = g /\ members = m /\ next_group_id = n /\ pc[t] # "idle"
  BY <1>2, SoFar
<1>4. Does(t, l, c) /\ l \in {"lv_info", "lv_read"} /\ l \in Labels /\ l # "idle"
      /\ l \in Simple
  BY <1>1, SameLocals DEF Labels, Simple, Unchanging, Changing
<1>5. Caller(l, c) /\ c.name = c.user
  BY <1>3, <1>4 DEF Caller, ByOneself, Adding
<1>6. Known(l, c, g, m)
  BY <1>1, <1>3, <1>5 DEF Known, ByOwner, OnOther, OfMember, OfOutsider, Closing
<1>7. Progress(l, c, g, m, n, groups', members', next_group_id')
  BY <1>2, <1>3, <1>4, <1>5, <1>6, SimpleProgress DEF disk, counters
<1>8. QED BY <1>2, <1>3, <1>4, <1>7, GoesOn DEF disk, counters

(* delete_group reads the group record.                                    *)
LEMMA CloseReadRefines ==
  ASSUME SerialInv, IInv, NEW t \in Thread, Settles, UNCHANGED calls, DG_Read(t)
  PROVE  Refines
<1> DEFINE c == loc[t]
           g == settled[1][1]
           m == settled[1][2]
           n == settled[2][1]
<1>1. pc[t] = "dg_read" /\ pc[t] \in Unchanging /\ UNCHANGED <<disk, counters>>
  BY DEF DG_Read, Unchanging, Labels, Changing
<1>2. /\ Caller("dg_read", c) /\ Known("dg_read", c, g, m) /\ Consistent(g, m)
      /\ groups = g /\ members = m /\ next_group_id = n /\ pc[t] # "idle"
  BY <1>1, SoFar
<1>3. Live(g, c.gid)
  BY <1>2, OwnerLookup DEF Known, ByOwner
<1>4. /\ ActiveGroupAt(groups, c.gid) = c.gid /\ c.gid # 0 /\ c.gid \in Nat
      /\ g[c.gid] \in GroupRecordDB
  BY <1>2, <1>3, CountIsInt
<1> DEFINE r == EndedRecord(g[c.gid])
<1>5. r \in GroupRecordDB
  BY <1>4 DEF EndedRecord, GroupRecordDB
<1>6. Hold(t, c.gid, r) /\ Goto(t, "dg_write")
  BY <1>2, <1>4 DEF DG_Read, EndedRecord
<1>7. ASSUME NEW d \in CallRecord, SameArgs(c, d), d.at = c.gid, d.rec = r
      PROVE  Progress("dg_write", d, g, m, n, groups, members, next_group_id)
  <2>1. Caller("dg_write", d)
    BY <1>2, <1>7 DEF Caller, ByOneself, Adding, SameArgs
  <2>2. Known("dg_write", d, g, m)
    BY <1>2, <1>7 DEF Known, ByOwner, OnOther, OfMember, OfOutsider, Closing, SameArgs
  <2>3. d.at = d.gid /\ d.rec = EndedRecord(g[d.gid])
    BY <1>7 DEF SameArgs
  <2>4. InHand("dg_write", d, g, m)
    BY <2>3 DEF InHand
  <2>5. Written("dg_write", d, g, m, groups, members)
        /\ Numbered("dg_write", d, n, next_group_id)
    BY <1>2 DEF Written, Changing, Numbered
  <2>6. QED BY <2>1, <2>2, <2>4, <2>5 DEF Progress
<1>8. "dg_write" \in Labels
  BY DEF Labels
<1> HIDE DEF r
<1>9. QED BY <1>1, <1>2, <1>4, <1>5, <1>6, <1>7, <1>8, HoldsOn

(* The group record is put back, inactive.                                 *)
LEMMA CloseWriteRefines ==
  ASSUME SerialInv, IInv, NEW t \in Thread, Settles, UNCHANGED calls, DG_Write(t)
  PROVE  Refines
<1> DEFINE c == loc[t]
           g == settled[1][1]
           m == settled[1][2]
           n == settled[2][1]
<1>1. /\ pc[t] = "dg_write" /\ pc[t] \in Unchanging
      /\ groups' = [groups EXCEPT ![c.at] = c.rec]
      /\ UNCHANGED <<members, requests, invites, next_group_id,
                     next_join_request_id, next_invite_id>>
      /\ Does(t, "dg_mread", c)
  BY SameLocals DEF DG_Write, StoreGroup, Unchanging, Labels, Changing, counters
<1>2. /\ Caller("dg_write", c) /\ Known("dg_write", c, g, m) /\ Consistent(g, m)
      /\ groups = g /\ members = m /\ next_group_id = n /\ pc[t] # "idle"
  BY <1>1, SoFar
<1>3. c.at = c.gid /\ c.rec = EndedRecord(g[c.gid])
  BY <1>1, <1>2, Running DEF Progress, InHand
<1>4. groups' = [g EXCEPT ![c.gid].is_active = FALSE]
  BY <1>1, <1>2, <1>3 DEF EndedRecord
<1>5. Caller("dg_mread", c) /\ Known("dg_mread", c, g, m)
  BY <1>2 DEF Caller, ByOneself, Adding, Known, ByOwner, OnOther, OfMember,
     OfOutsider, Closing
<1>6. InHand("dg_mread", c, g, m) /\ Numbered("dg_mread", c, n, next_group_id')
  BY <1>1, <1>2 DEF InHand, Numbered
<1>7. Written("dg_mread", c, g, m, groups', members')
  BY <1>1, <1>2, <1>4 DEF Written, Changing
<1>8. "dg_mread" \in Labels
  BY DEF Labels
<1>9. QED BY <1>1, <1>2, <1>5, <1>6, <1>7, <1>8, GoesOn DEF Progress

(* Between the two files: the group has ended, its last member perhaps not. *)
LEMMA CloseHalfDone ==
  ASSUME SerialInv, IInv, NEW t \in Thread,
         pc[t] \in {"dg_mread", "dg_mwrite", "dg_next", "dg_cut"},
         NEW c, c = loc[t], NEW g, g = settled[1][1], NEW m, m = settled[1][2]
  PROVE  /\ pc[t] # "idle" /\ Consistent(g, m)
         /\ groups = [g EXCEPT ![c.gid].is_active = FALSE]
         /\ pc[t] \in {"dg_mread", "dg_mwrite"} => members = m
         /\ pc[t] \in {"dg_next", "dg_cut"} => members = LastEnded(c, m)
         /\ Caller(pc[t], c) /\ Known(pc[t], c, g, m) /\ InHand(pc[t], c, g, m)
         /\ next_group_id = settled[2][1]
         /\ IsGroupOwner(g, c.gid, c.user) /\ IsMemberOfGroup(m, c.gid, c.user)
         /\ Live(g, c.gid) /\ g[c.gid].member_count <= 1
         /\ IsMemberOfGroup(m, c.gid, g[c.gid].owner)
<1>1. pc[t] # "idle"
  OBVIOUS
<1>2. /\ Consistent(g, m)
      /\ Progress(pc[t], c, g, m, settled[2][1], groups, members, next_group_id)
  BY <1>1, Running
<1>3. Caller(pc[t], c) /\ Known(pc[t], c, g, m) /\ InHand(pc[t], c, g, m)
  BY <1>2 DEF Progress
<1>4. /\ groups = [g EXCEPT ![c.gid].is_active = FALSE]
      /\ pc[t] \in {"dg_mread", "dg_mwrite"} => members = m
      /\ pc[t] \in {"dg_next", "dg_cut"} => members = LastEnded(c, m)
  BY <1>2 DEF Progress, Written
<1>5. next_group_id = settled[2][1]
  BY <1>2 DEF Progress, Numbered
<1>6. /\ IsGroupOwner(g, c.gid, c.user) /\ IsMemberOfGroup(m, c.gid, c.user)
      /\ g[c.gid].member_count <= 1
  BY <1>3 DEF Known, ByOwner, OfMember, Closing, Caller, ByOneself
<1>7. Live(g, c.gid) /\ g[c.gid].owner = c.user
  BY <1>2, <1>6, OwnerLookup
<1>8. IsMemberOfGroup(m, c.gid, g[c.gid].owner)
  BY <1>6, <1>7
<1>9. QED BY <1>1, <1>2, <1>3, <1>4, <1>5, <1>6, <1>7, <1>8

(* The one member record that is left is read.                             *)
LEMMA CloseMemberRefines ==
  ASSUME SerialInv, IInv, NEW t \in Thread, Settles, UNCHANGED calls, DG_ReadMember(t)
  PROVE  Refines
<1> DEFINE c == loc[t]
           g == settled[1][1]
           m == settled[1][2]
           n == settled[2][1]
<1>1. pc[t] = "dg_mread" /\ UNCHANGED <<disk, counters>>
  BY DEF DG_ReadMember
<1>2. /\ pc[t] # "idle" /\ Consistent(g, m)
      /\ groups = [g EXCEPT ![c.gid].is_active = FALSE] /\ members = m
      /\ Caller("dg_mread", c) /\ Known("dg_mread", c, g, m)
      /\ next_group_id = n /\ Live(g, c.gid) /\ g[c.gid].member_count <= 1
      /\ IsMemberOfGroup(m, c.gid, g[c.gid].owner)
  BY <1>1, CloseHalfDone
<1>3. PICK at : at = FirstActiveMemberAt(members, c.gid)
  OBVIOUS
<1>4. at \in DOMAIN m /\ at # 0 /\ at \in Nat /\ m[at] \in MemberRecordDB
  <2>1. at \in DOMAIN m /\ at # 0
    BY <1>2, <1>3, OwnerIsFound
  <2>2. m \in Seq(MemberRecordDB)
    BY <1>2 DEF Consistent, Counted
  <2> HIDE DEF m
  <2>3. QED BY <2>1, <2>2
<1> DEFINE r == EndedRecord(m[at])
<1>5. r \in MemberRecordDB
  BY <1>4 DEF EndedRecord, MemberRecordDB
<1>6. Hold(t, at, r) /\ Goto(t, "dg_mwrite")
  BY <1>2, <1>3, <1>4 DEF DG_ReadMember, EndedRecord
<1>7. ASSUME NEW d \in CallRecord, SameArgs(c, d), d.at = at, d.rec = r
      PROVE  Progress("dg_mwrite", d, g, m, n, groups, members, next_group_id)
  <2>1. Caller("dg_mwrite", d)
    BY <1>2, <1>7 DEF Caller, ByOneself, Adding, SameArgs
  <2>2. Known("dg_mwrite", d, g, m)
    BY <1>2, <1>7 DEF Known, ByOwner, OnOther, OfMember, OfOutsider, Closing, SameArgs
  <2>3. d.at = FirstActiveMemberAt(m, d.gid) /\ d.at # 0 /\ d.rec = EndedRecord(m[d.at])
    BY <1>2, <1>3, <1>4, <1>7 DEF SameArgs
  <2>4. InHand("dg_mwrite", d, g, m)
    BY <2>3 DEF InHand
  <2>5. Written("dg_mwrite", d, g, m, groups, members)
        /\ Numbered("dg_mwrite", d, n, next_group_id)
    BY <1>2, <1>7 DEF Written, Changing, Numbered, SameArgs
  <2>6. QED BY <2>1, <2>2, <2>4, <2>5 DEF Progress
<1>8. "dg_mwrite" \in Labels
  BY DEF Labels
<1> HIDE DEF r
<1>9. QED BY <1>1, <1>2, <1>4, <1>5, <1>6, <1>7, <1>8, HoldsOn

(* It is put back, inactive, and the pass goes on. *)
LEMMA CloseEndedRefines ==
  ASSUME SerialInv, IInv, NEW t \in Thread, Settles, UNCHANGED calls, DG_WriteMember(t)
  PROVE  Refines
<1> DEFINE c == loc[t]
           g == settled[1][1]
           m == settled[1][2]
           n == settled[2][1]
<1>1. /\ pc[t] = "dg_mwrite" /\ Does(t, "dg_next", c)
      /\ members' = [members EXCEPT ![c.at] = c.rec]
      /\ UNCHANGED <<groups, requests, invites, next_group_id,
                     next_join_request_id, next_invite_id>>
  BY SameLocals DEF DG_WriteMember, StoreMember, counters
<1>2. /\ pc[t] # "idle" /\ Consistent(g, m)
      /\ groups = [g EXCEPT ![c.gid].is_active = FALSE] /\ members = m
      /\ Caller("dg_mwrite", c) /\ Known("dg_mwrite", c, g, m)
      /\ InHand("dg_mwrite", c, g, m) /\ next_group_id = n
  BY <1>1, CloseHalfDone
<1>3. /\ c.at = FirstActiveMemberAt(m, c.gid) /\ c.at # 0
      /\ c.rec = EndedRecord(m[c.at])
  BY <1>2 DEF InHand
<1>4. members' = LastEnded(c, m)
  BY <1>1, <1>2, <1>3 DEF EndedRecord, Deactivate, LastEnded
<1>5. Caller("dg_next", c) /\ Known("dg_next", c, g, m)
  BY <1>2 DEF Caller, ByOneself, Adding, Known, ByOwner, OnOther, OfMember,
     OfOutsider, Closing
<1>6. InHand("dg_next", c, g, m)
  BY <1>3 DEF InHand
<1>7. Numbered("dg_next", c, n, next_group_id')
  BY <1>1, <1>2 DEF Numbered
<1>8. Written("dg_next", c, g, m, groups', members')
  BY <1>1, <1>2, <1>4 DEF Written, Changing
<1>9. "dg_next" \in Labels
  BY DEF Labels
<1>10. QED BY <1>1, <1>2, <1>5, <1>6, <1>7, <1>8, <1>9, GoesOn DEF Progress

(* Where the pass ends, both files are as the call leaves them: it has had *)
(* its effect.                                                             *)
LEMMA CloseEnds ==
  ASSUME SerialInv, IInv, NEW t \in Thread, Settles, UNCHANGED calls, Return(t),
         pc[t] \in {"dg_next", "dg_cut"},
         members' = EndMembers(settled[1][2], loc[t].gid),
         UNCHANGED <<groups, requests, invites, next_group_id,
                     next_join_request_id, next_invite_id>>
  PROVE  Refines
<1> DEFINE c == loc[t]
           g == settled[1][1]
           m == settled[1][2]
           n == settled[2][1]
<1>1. /\ pc[t] # "idle" /\ Consistent(g, m)
      /\ groups = [g EXCEPT ![c.gid].is_active = FALSE]
      /\ Caller(pc[t], c) /\ next_group_id = n
      /\ IsGroupOwner(g, c.gid, c.user) /\ IsMemberOfGroup(m, c.gid, c.user)
      /\ Live(g, c.gid) /\ g[c.gid].member_count <= 1
      /\ IsMemberOfGroup(m, c.gid, g[c.gid].owner)
  BY CloseHalfDone
<1>2. CloseEffect(g, m, c.gid, groups', members')
  BY <1>1 DEF CloseEffect
<1>3. /\ Consistent(groups', members') /\ Len(groups') = Len(g)
      /\ Len(members') = Len(m)
  <2> HIDE DEF c, g, m, n
  <2>1. PICK k, g2, m2 : k = c.gid /\ g2 = groups' /\ m2 = members'
    OBVIOUS
  <2>2. CloseEffect(g, m, k, g2, m2)
    BY <1>2, <2>1
  <2>3. Consistent(g2, m2) /\ Len(g2) = Len(g) /\ Len(m2) = Len(m)
    BY <1>1, <2>1, <2>2, Closed
  <2>4. QED BY <2>1, <2>3
<1>4. n = Len(g) + 1 /\ Len(g) \in Nat /\ Len(m) \in Nat
  BY <1>1, Running, Room DEF DirectoryOK
<1>5. /\ next_group_id' = Len(groups') + 1
      /\ Len(groups') <= Len(g) + 1 /\ Len(members') <= Len(m) + 1
  <2> HIDE DEF g, m, n
  <2>1. QED BY <1>1, <1>3, <1>4
<1>6. /\ SerialInv'
      /\ settled'[1][1] = groups' /\ settled'[1][2] = members'
      /\ settled'[1][3] = settled[1][3] /\ settled'[1][4] = settled[1][4]
      /\ settled'[2][1] = next_group_id'
      /\ settled'[2][2] = settled[2][2] /\ settled'[2][3] = settled[2][3]
  BY <1>1, <1>3, <1>5, EndsWithMembers
<1>7. DB!Next
  <2>1. PICK u, k : u = c.user /\ k = c.gid
    OBVIOUS
  <2>2. u \in Account
    BY <1>1, <2>1 DEF Caller
  <2>3. /\ CloseEffect(settled[1][1], settled[1][2], k, settled'[1][1], settled'[1][2])
        /\ RestSettled
    BY <1>1, <1>2, <1>6, <2>1 DEF RestSettled
  <2>4. QED BY <1>1, <2>1, <2>2, <2>3, CloseHappens
<1>8. QED BY <1>6, <1>7 DEF Refines

(* The misaligned pass reads on: it finds nothing, or a record to cut.     *)
LEMMA CloseNextRefines ==
  ASSUME SerialInv, IInv, NEW t \in Thread, Settles, UNCHANGED calls, DG_Next(t)
  PROVE  Refines
<1> DEFINE c == loc[t]
           g == settled[1][1]
           m == settled[1][2]
           n == settled[2][1]
<1>1. pc[t] = "dg_next" /\ UNCHANGED <<disk, counters>>
  BY DEF DG_Next
<1>2. /\ pc[t] # "idle" /\ Consistent(g, m)
      /\ groups = [g EXCEPT ![c.gid].is_active = FALSE] /\ members = LastEnded(c, m)
      /\ Caller("dg_next", c) /\ Known("dg_next", c, g, m)
      /\ InHand("dg_next", c, g, m) /\ next_group_id = n
      /\ Live(g, c.gid) /\ g[c.gid].member_count <= 1
      /\ IsMemberOfGroup(m, c.gid, g[c.gid].owner)
  BY <1>1, CloseHalfDone
<1>3. c.at = FirstActiveMemberAt(m, c.gid) /\ c.at # 0
  BY <1>2 DEF InHand
<1>4. PICK j : j = MisreadAt(members, c.gid, c.at)
  OBVIOUS
<1>5. j = ReadAgainAt(c, m)
  BY <1>2, <1>3, <1>4 DEF ReadAgainAt
<1>6. CASE j = 0
  <2>1. Return(t)
    BY <1>4, <1>6 DEF DG_Next
  <2>2. members = EndMembers(m, c.gid)
    BY <1>2, <1>3, <1>5, <1>6 DEF EndMembers, LastEnded, ReadAgainAt
  <2>3. /\ UNCHANGED <<groups, requests, invites, next_group_id,
                       next_join_request_id, next_invite_id>>
        /\ members' = EndMembers(m, c.gid)
    BY <1>1, <2>2 DEF disk, counters
  <2>4. QED BY <1>1, <2>1, <2>3, CloseEnds
<1>7. CASE j # 0
  <2>1. PICK rec : rec = Misread(members, j)
    OBVIOUS
  <2>2. Hold(t, j, rec) /\ Goto(t, "dg_cut")
    BY <1>4, <1>7, <2>1 DEF DG_Next
  <2>3. j \in Nat /\ rec \in MemberRecordDB
    <3>1. /\ m \in Seq(MemberRecordDB) /\ members \in Seq(MemberRecordDB)
          /\ DOMAIN members = DOMAIN m /\ c.at \in DOMAIN members
      <4>1. m \in Seq(MemberRecordDB)
        BY <1>2 DEF Consistent, Counted
      <4>2. PICK at, k : at = c.at /\ k = c.gid
        OBVIOUS
      <4>3. at \in DOMAIN m
        BY <1>2, <1>3, <4>2, OwnerIsFound
      <4>4. members \in Seq(MemberRecordDB)
        BY DEF IInv, FilesFit, FilesTyped
      <4>5. DOMAIN members = DOMAIN m
        BY <1>2 DEF LastEnded, Deactivate
      <4>6. QED BY <4>1, <4>2, <4>3, <4>4, <4>5
    <3>2. PICK m2, at, k : m2 = members /\ at = c.at /\ k = c.gid
      OBVIOUS
    <3>3. j = MisreadAt(m2, k, at) /\ m2 \in Seq(MemberRecordDB) /\ at \in DOMAIN m2
      BY <1>4, <3>1, <3>2
    <3>4. j \in DOMAIN m2 /\ j + 1 \in DOMAIN m2
      BY <1>7, <3>3, MisreadFound
    <3>5. rec \in MemberRecordDB
      BY <2>1, <3>2, <3>3, <3>4, MisreadRecord
    <3>6. QED BY <3>3, <3>4, <3>5
  <2>4. ASSUME NEW d \in CallRecord, SameArgs(c, d), d.at = j, d.rec = rec
        PROVE  Progress("dg_cut", d, g, m, n, groups, members, next_group_id)
    <3>1. Caller("dg_cut", d)
      BY <1>2, <2>4 DEF Caller, ByOneself, Adding, SameArgs
    <3>2. Known("dg_cut", d, g, m)
      BY <1>2, <2>4 DEF Known, ByOwner, OnOther, OfMember, OfOutsider, Closing, SameArgs
    <3>3. d.gid = c.gid /\ LastEnded(d, m) = LastEnded(c, m)
          /\ ReadAgainAt(d, m) = ReadAgainAt(c, m)
      BY <2>4 DEF SameArgs, LastEnded, ReadAgainAt
    <3>4. CutInHand(d, m)
      BY <1>2, <1>3, <1>5, <1>7, <2>1, <2>4, <3>3 DEF CutInHand
    <3>5. InHand("dg_cut", d, g, m)
      BY <3>4 DEF InHand
    <3>6. Written("dg_cut", d, g, m, groups, members)
      BY <1>2, <3>3 DEF Written, Changing
    <3>7. Numbered("dg_cut", d, n, next_group_id)
      BY <1>2 DEF Numbered
    <3>8. QED BY <3>1, <3>2, <3>5, <3>6, <3>7 DEF Progress
  <2>5. "dg_cut" \in Labels
    BY DEF Labels
  <2>6. QED BY <1>1, <1>2, <2>2, <2>3, <2>4, <2>5, HoldsOn
<1>8. QED BY <1>6, <1>7

(* The name is cut, and the call ends. *)
LEMMA CloseCutRefines ==
  ASSUME SerialInv, IInv, NEW t \in Thread, Settles, UNCHANGED calls, DG_Cut(t)
  PROVE  Refines
<1>1. pc[t] = "dg_cut" /\ pc[t] # "idle"
  BY DEF DG_Cut
<1>2. PICK c, g, m : c = loc[t] /\ g = settled[1][1] /\ m = settled[1][2]
  OBVIOUS
<1>3. Progress("dg_cut", c, g, m, settled[2][1], groups, members, next_group_id)
  BY <1>1, <1>2, Running
<1>4. members = LastEnded(c, m) /\ CutInHand(c, m)
  BY <1>3 DEF Progress, InHand, Written
<1>5. members' = EndMembers(m, c.gid)
  BY <1>2, <1>4 DEF DG_Cut, CutInHand, EndMembers, LastEnded, ReadAgainAt
<1>6. members' = EndMembers(settled[1][2], loc[t].gid)
  BY <1>2, <1>5
<1>7. Return(t) /\ UNCHANGED <<groups, requests, invites, next_group_id,
                              next_join_request_id, next_invite_id>>
  BY DEF DG_Cut, counters
<1>8. QED BY <1>1, <1>6, <1>7, CloseEnds

-----------------------------------------------------------------------------
(* transfer_group_owner. *)
LEMMA RoleType ==
  ASSUME NEW r \in MemberRecordDB, NEW gid, NEW u, NEW v
  PROVE  /\ RoleAfterTransfer(r, gid, u, v) \in MemberRecordDB
         /\ ~(r.group_id = gid /\ r.is_active /\ r.username \in {u, v})
              => RoleAfterTransfer(r, gid, u, v) = r
<1>1. CASE ~(r.group_id = gid /\ r.is_active)
  BY <1>1 DEF RoleAfterTransfer
<1>2. CASE r.group_id = gid /\ r.is_active
  <2> DEFINE b == r.username # u /\ (r.username = v \/ r.is_admin)
  <2>1. RoleAfterTransfer(r, gid, u, v) = [r EXCEPT !.is_admin = b]
    BY <1>2 DEF RoleAfterTransfer
  <2>2. b \in BOOLEAN /\ (r.username \notin {u, v} => b = r.is_admin)
    BY DEF MemberRecordDB
  <2> HIDE DEF b
  <2>3. [r EXCEPT !.is_admin = b] \in MemberRecordDB
    BY <2>2 DEF MemberRecordDB
  <2>4. b = r.is_admin => [r EXCEPT !.is_admin = b] = r
    BY DEF MemberRecordDB
  <2>5. QED BY <1>2, <2>1, <2>2, <2>3, <2>4
<1>3. QED BY <1>1, <1>2

(* The group record is read to be given its new owner.                     *)
LEMMA TransferReadRefines ==
  ASSUME SerialInv, IInv, NEW t \in Thread, Settles, UNCHANGED calls, TO_ReadGroup(t)
  PROVE  Refines
<1> DEFINE c == loc[t]
           g == settled[1][1]
           m == settled[1][2]
           n == settled[2][1]
<1>1. pc[t] = "to_gread" /\ pc[t] \in Unchanging /\ UNCHANGED <<disk, counters>>
  BY DEF TO_ReadGroup, Unchanging, Labels, Changing
<1>2. /\ Caller("to_gread", c) /\ Known("to_gread", c, g, m) /\ Consistent(g, m)
      /\ groups = g /\ members = m /\ next_group_id = n /\ pc[t] # "idle"
  BY <1>1, SoFar
<1>3. Live(g, c.gid) /\ c.name \in Name
  BY <1>1, <1>2, OwnerLookup, ThreadFacts DEF Known, ByOwner, ArgsFit
<1>4. /\ ActiveGroupAt(groups, c.gid) = c.gid /\ c.gid # 0 /\ c.gid \in Nat
      /\ g[c.gid] \in GroupRecordDB
  BY <1>2, <1>3, CountIsInt
<1> DEFINE r == [g[c.gid] EXCEPT !.owner = c.name]
<1>5. r \in GroupRecordDB
  BY <1>3, <1>4 DEF GroupRecordDB
<1>6. Hold(t, c.gid, r) /\ Goto(t, "to_gwrite")
  BY <1>2, <1>4 DEF TO_ReadGroup
<1>7. ASSUME NEW d \in CallRecord, SameArgs(c, d), d.at = c.gid, d.rec = r
      PROVE  Progress("to_gwrite", d, g, m, n, groups, members, next_group_id)
  <2>1. Caller("to_gwrite", d)
    BY <1>2, <1>7 DEF Caller, ByOneself, Adding, SameArgs
  <2>2. Known("to_gwrite", d, g, m)
    BY <1>2, <1>7 DEF Known, ByOwner, OnOther, OfMember, OfOutsider, Closing, SameArgs
  <2>3. d.at = d.gid /\ d.rec = [g[d.gid] EXCEPT !.owner = d.name]
    BY <1>7 DEF SameArgs
  <2>4. InHand("to_gwrite", d, g, m)
    BY <2>3 DEF InHand
  <2>5. Written("to_gwrite", d, g, m, groups, members)
        /\ Numbered("to_gwrite", d, n, next_group_id)
    BY <1>2 DEF Written, Changing, Numbered
  <2>6. QED BY <2>1, <2>2, <2>4, <2>5 DEF Progress
<1>8. "to_gwrite" \in Labels
  BY DEF Labels
<1> HIDE DEF r
<1>9. QED BY <1>1, <1>2, <1>4, <1>5, <1>6, <1>7, <1>8, HoldsOn

(* It is put back: the group has its new owner, the roles are the old      *)
(* ones.                                                                   *)
LEMMA TransferWriteRefines ==
  ASSUME SerialInv, IInv, NEW t \in Thread, Settles, UNCHANGED calls, TO_WriteGroup(t)
  PROVE  Refines
<1> DEFINE c == loc[t]
           g == settled[1][1]
           m == settled[1][2]
           n == settled[2][1]
<1>1. /\ pc[t] = "to_gwrite" /\ pc[t] \in Unchanging
      /\ groups' = [groups EXCEPT ![c.at] = c.rec]
      /\ UNCHANGED <<members, requests, invites, next_group_id,
                     next_join_request_id, next_invite_id>>
      /\ Hold(t, 0, NoRecord) /\ Goto(t, "to_scan")
  BY DEF TO_WriteGroup, StoreGroup, Unchanging, Labels, Changing, counters
<1>2. /\ Caller("to_gwrite", c) /\ Known("to_gwrite", c, g, m) /\ Consistent(g, m)
      /\ groups = g /\ members = m /\ next_group_id = n /\ pc[t] # "idle"
  BY <1>1, SoFar
<1>3. c.at = c.gid /\ c.rec = [g[c.gid] EXCEPT !.owner = c.name]
  BY <1>1, <1>2, Running DEF Progress, InHand
<1>4. groups' = [g EXCEPT ![c.gid].owner = c.name]
  BY <1>1, <1>2, <1>3
<1>5. PICK d \in CallRecord :
        /\ Does(t, "to_scan", d) /\ SameArgs(c, d) /\ d.at = 0
  BY <1>1, Held DEF SameArgs
<1>6. Caller("to_scan", d) /\ Known("to_scan", d, g, m)
  BY <1>2, <1>5 DEF Caller, ByOneself, Adding, Known, ByOwner, OnOther, OfMember,
     OfOutsider, Closing, SameArgs
<1>7. InHand("to_scan", d, g, m) /\ Numbered("to_scan", d, n, next_group_id')
  BY <1>1, <1>2 DEF InHand, Numbered
<1>8. Swept(d, d.at, m, members')
  <2>1. m \in Seq(MemberRecordDB) /\ members' = m
    BY <1>1, <1>2 DEF Consistent, Counted
  <2>2. \A k \in DOMAIN m : ~(k <= 0)
    <3> HIDE DEF m
    <3>1. QED BY <2>1
  <2>3. QED BY <1>5, <2>1, <2>2 DEF Swept
<1>9. groups' = [g EXCEPT ![d.gid].owner = d.name]
  BY <1>4, <1>5 DEF SameArgs
<1>10. Written("to_scan", d, g, m, groups', members')
  BY <1>8, <1>9 DEF Written, Changing
<1>11. "to_scan" \in Labels
  BY DEF Labels
<1>12. QED BY <1>1, <1>2, <1>5, <1>6, <1>7, <1>10, <1>11, GoesOn DEF Progress

(* In the pass over the members: the group has its new owner, and so many  *)
(* records their role.                                                     *)
LEMMA TransferHalfDone ==
  ASSUME SerialInv, IInv, NEW t \in Thread, pc[t] \in {"to_scan", "to_mwrite"},
         NEW c, c = loc[t], NEW g, g = settled[1][1], NEW m, m = settled[1][2]
  PROVE  /\ pc[t] # "idle" /\ Consistent(g, m)
         /\ groups = [g EXCEPT ![c.gid].owner = c.name]
         /\ Caller(pc[t], c) /\ Known(pc[t], c, g, m) /\ InHand(pc[t], c, g, m)
         /\ next_group_id = settled[2][1]
         /\ IsGroupOwner(g, c.gid, c.user) /\ IsMemberOfGroup(m, c.gid, c.name)
         /\ Live(g, c.gid) /\ g[c.gid].owner = c.user
         /\ c \in CallRecord /\ c.name \in Name /\ c.user \in Account
         /\ pc[t] = "to_scan" => Swept(c, c.at, m, members)
         /\ pc[t] = "to_mwrite" => Swept(c, c.at - 1, m, members)
<1>1. pc[t] # "idle"
  OBVIOUS
<1>2. /\ Consistent(g, m)
      /\ Progress(pc[t], c, g, m, settled[2][1], groups, members, next_group_id)
  BY <1>1, Running
<1>3. Caller(pc[t], c) /\ Known(pc[t], c, g, m) /\ InHand(pc[t], c, g, m)
  BY <1>2 DEF Progress
<1>4. /\ groups = [g EXCEPT ![c.gid].owner = c.name]
      /\ pc[t] = "to_scan" => Swept(c, c.at, m, members)
      /\ pc[t] = "to_mwrite" => Swept(c, c.at - 1, m, members)
  BY <1>2 DEF Progress, Written
<1>5. next_group_id = settled[2][1]
  BY <1>2 DEF Progress, Numbered
<1>6. /\ IsGroupOwner(g, c.gid, c.user) /\ IsMemberOfGroup(m, c.gid, c.name)
      /\ c.user \in Account
  BY <1>3 DEF Known, ByOwner, OfMember, Caller
<1>7. Live(g, c.gid) /\ g[c.gid].owner = c.user
  BY <1>2, <1>6, OwnerLookup
<1>8. c \in CallRecord /\ c.name \in Name
  BY <1>1, ThreadFacts DEF ArgsFit
<1>9. QED BY <1>1, <1>2, <1>3, <1>4, <1>5, <1>6, <1>7, <1>8

(* The pass over the members, seen from a file m of which the first n have *)
(* been dealt with: nothing to do up to k, or nothing more at all.         *)
LEMMA NothingBetween ==
  ASSUME NEW c, NEW m \in Seq(MemberRecordDB), NEW m2, NEW n \in Nat, Swept(c, n, m, m2),
         NEW n2 \in Int, n <= n2,
         \A k \in DOMAIN m2 :
           n < k /\ k <= n2 =>
             ~(m2[k].group_id = c.gid /\ m2[k].is_active
               /\ m2[k].username \in {c.user, c.name})
  PROVE  Swept(c, n2, m, m2)
<1>1. m2 \in Seq(MemberRecordDB) /\ DOMAIN m2 = DOMAIN m
  BY DEF Swept
<1>2. ASSUME NEW k \in DOMAIN m
      PROVE  m2[k] = IF k <= n2 THEN RoleAfterTransfer(m[k], c.gid, c.user, c.name)
                                ELSE m[k]
  <2>1. k \in Nat /\ m[k] \in MemberRecordDB
    OBVIOUS
  <2>2. m2[k] = IF k <= n THEN RoleAfterTransfer(m[k], c.gid, c.user, c.name) ELSE m[k]
    BY DEF Swept
  <2>3. CASE n < k /\ k <= n2
    <3>1. m2[k] = m[k]
      BY <2>1, <2>2, <2>3
    <3>2. RoleAfterTransfer(m[k], c.gid, c.user, c.name) = m[k]
      BY <1>1, <2>1, <2>3, <3>1, RoleType
    <3>3. QED BY <2>3, <3>1, <3>2
  <2>4. CASE ~(n < k /\ k <= n2)
    BY <2>1, <2>2, <2>4
  <2>5. QED BY <2>3, <2>4
<1>3. QED BY <1>1, <1>2 DEF Swept

(* A pass that came to the end of the file has given every record its      *)
(* role.                                                                   *)
LEMMA AllSwept ==
  ASSUME NEW c, NEW m \in Seq(MemberRecordDB), NEW m2, Swept(c, Len(m), m, m2)
  PROVE  m2 = [k \in DOMAIN m |-> RoleAfterTransfer(m[k], c.gid, c.user, c.name)]
<1>1. m2 \in Seq(MemberRecordDB) /\ DOMAIN m2 = DOMAIN m
  BY DEF Swept
<1>2. \A k \in DOMAIN m : m2[k] = RoleAfterTransfer(m[k], c.gid, c.user, c.name)
  BY DEF Swept
<1>3. m2 = [k \in DOMAIN m2 |-> m2[k]]
  BY <1>1
<1>4. QED BY <1>1, <1>2, <1>3

(* A record put back takes the pass one record further.                    *)
LEMMA SweepsOne ==
  ASSUME NEW c, NEW m \in Seq(MemberRecordDB), NEW m2, NEW n \in DOMAIN m,
         Swept(c, n - 1, m, m2), NEW m3,
         m3 = [m2 EXCEPT ![n] = RoleAfterTransfer(m[n], c.gid, c.user, c.name)]
  PROVE  Swept(c, n, m, m3)
<1>1. m2 \in Seq(MemberRecordDB) /\ DOMAIN m2 = DOMAIN m /\ n \in Nat
  BY DEF Swept
<1>2. PICK r \in MemberRecordDB : r = RoleAfterTransfer(m[n], c.gid, c.user, c.name)
  BY RoleType
<1>3. m3 = [m2 EXCEPT ![n] = r]
  BY <1>2
<1>4. m3 \in Seq(MemberRecordDB) /\ DOMAIN m3 = DOMAIN m
  BY <1>1, <1>3
<1>5. ASSUME NEW k \in DOMAIN m
      PROVE  m3[k] = IF k <= n THEN RoleAfterTransfer(m[k], c.gid, c.user, c.name)
                               ELSE m[k]
  <2>1. k \in Nat
    OBVIOUS
  <2>2. m2[k] = IF k <= n - 1 THEN RoleAfterTransfer(m[k], c.gid, c.user, c.name)
                              ELSE m[k]
    BY DEF Swept
  <2>3. m3[k] = IF k = n THEN r ELSE m2[k]
    BY <1>1, <1>3
  <2>4. QED BY <1>1, <1>2, <2>1, <2>2, <2>3
<1>6. QED BY <1>4, <1>5 DEF Swept

(* The pass puts a record back.                                            *)
LEMMA TransferStoreRefines ==
  ASSUME SerialInv, IInv, NEW t \in Thread, Settles, UNCHANGED calls, TO_WriteMember(t)
  PROVE  Refines
<1> DEFINE c == loc[t]
           g == settled[1][1]
           m == settled[1][2]
           n == settled[2][1]
<1>1. /\ pc[t] = "to_mwrite"
      /\ members' = [members EXCEPT ![c.at] = c.rec]
      /\ UNCHANGED <<groups, requests, invites, next_group_id,
                     next_join_request_id, next_invite_id>>
      /\ Does(t, "to_scan", c)
  BY SameLocals DEF TO_WriteMember, StoreMember, counters
<1>2. /\ pc[t] # "idle" /\ Consistent(g, m)
      /\ groups = [g EXCEPT ![c.gid].owner = c.name]
      /\ Caller("to_mwrite", c) /\ Known("to_mwrite", c, g, m)
      /\ InHand("to_mwrite", c, g, m) /\ next_group_id = n
      /\ Swept(c, c.at - 1, m, members)
  BY <1>1, TransferHalfDone
<1>3. /\ c.at \in DOMAIN m
      /\ c.rec = RoleAfterTransfer(m[c.at], c.gid, c.user, c.name)
  BY <1>2 DEF InHand
<1>4. Swept(c, c.at, m, members')
  <2>1. m \in Seq(MemberRecordDB)
    BY <1>2 DEF Consistent, Counted
  <2>2. PICK at, m2, m3 : at = c.at /\ m2 = members /\ m3 = members'
    OBVIOUS
  <2>3. m3 = [m2 EXCEPT ![at] = RoleAfterTransfer(m[at], c.gid, c.user, c.name)]
    BY <1>1, <1>3, <2>2
  <2>4. Swept(c, at - 1, m, m2) /\ at \in DOMAIN m
    BY <1>2, <1>3, <2>2
  <2> HIDE DEF c, m
  <2>5. Swept(c, at, m, m3)
    BY <2>1, <2>3, <2>4, SweepsOne
  <2>6. QED BY <2>2, <2>5
<1>5. Caller("to_scan", c) /\ Known("to_scan", c, g, m)
  BY <1>2 DEF Caller, ByOneself, Adding, Known, ByOwner, OnOther, OfMember,
     OfOutsider, Closing
<1>6. InHand("to_scan", c, g, m) /\ Numbered("to_scan", c, n, next_group_id')
  BY <1>1, <1>2 DEF InHand, Numbered
<1>7. Written("to_scan", c, g, m, groups', members')
  BY <1>1, <1>2, <1>4 DEF Written, Changing
<1>8. "to_scan" \in Labels
  BY DEF Labels
<1>9. QED BY <1>1, <1>2, <1>5, <1>6, <1>7, <1>8, GoesOn DEF Progress

(* The next role to change, or none. *)
LEMMA ScanRefines ==
  ASSUME SerialInv, IInv, NEW t \in Thread, Settles, UNCHANGED calls, TO_Scan(t),
         RolesBehind(t) # {}
  PROVE  Refines
<1> DEFINE c == loc[t]
           g == settled[1][1]
           m == settled[1][2]
           n == settled[2][1]
<1>1. /\ pc[t] = "to_scan" /\ UNCHANGED <<disk, counters>>
      /\ Hold(t, Min(RolesBehind(t)),
              RoleAfterTransfer(members[Min(RolesBehind(t))], c.gid, c.user, c.name))
      /\ Goto(t, "to_mwrite")
  BY DEF TO_Scan
<1>2. /\ pc[t] # "idle" /\ Consistent(g, m)
      /\ groups = [g EXCEPT ![c.gid].owner = c.name]
      /\ Caller("to_scan", c) /\ Known("to_scan", c, g, m)
      /\ next_group_id = n /\ c \in CallRecord /\ Swept(c, c.at, m, members)
  BY <1>1, TransferHalfDone
<1>3. PICK at, S : at = Min(RolesBehind(t)) /\ S = RolesBehind(t)
  OBVIOUS
<1>4. /\ S \subseteq DOMAIN members /\ at \in S /\ at \in Nat
      /\ \A k \in S : at <= k
      /\ DOMAIN members = DOMAIN m /\ members \in Seq(MemberRecordDB)
      /\ m \in Seq(MemberRecordDB)
  <2>1. /\ DOMAIN members = DOMAIN m /\ members \in Seq(MemberRecordDB)
        /\ m \in Seq(MemberRecordDB)
    BY <1>2 DEF Swept, Consistent, Counted
  <2>2. S \subseteq DOMAIN members
    BY <1>3 DEF RolesBehind
  <2>3. S \in SUBSET Nat /\ S # {}
    BY <1>3, <2>1, <2>2
  <2>4. at = Min(S)
    BY <1>3
  <2>5. at \in S /\ \A k \in S : at <= k
    BY <2>3, <2>4, MinNat
  <2>6. QED BY <2>1, <2>2, <2>3, <2>5
<1>5. at > c.at /\ c.at \in Nat
  BY <1>2, <1>3, <1>4 DEF RolesBehind, CallRecord
<1>6. members[at] = m[at] /\ m[at] \in MemberRecordDB /\ at \in DOMAIN m
  <2>1. at \in DOMAIN m
    BY <1>4
  <2>2. members[at] = m[at]
    BY <1>2, <1>4, <1>5, <2>1 DEF Swept
  <2> HIDE DEF m
  <2>3. QED BY <1>4, <2>1, <2>2
<1> DEFINE r == RoleAfterTransfer(m[at], c.gid, c.user, c.name)
<1>7. r \in MemberRecordDB
  BY <1>6, RoleType
<1>8. Hold(t, at, r) /\ Goto(t, "to_mwrite")
  BY <1>1, <1>3, <1>6
<1>9. Swept(c, at - 1, m, members)
  <2>1. \A k \in DOMAIN members :
          c.at < k /\ k <= at - 1 =>
            ~(members[k].group_id = c.gid /\ members[k].is_active
              /\ members[k].username \in {c.user, c.name})
    <3>1. SUFFICES ASSUME NEW k \in DOMAIN members, c.at < k, k <= at - 1
                   PROVE  ~(members[k].group_id = c.gid /\ members[k].is_active
                            /\ members[k].username \in {c.user, c.name})
      OBVIOUS
    <3>2. k \in Nat
      BY <1>4
    <3>3. k \notin S
      BY <1>4, <3>1, <3>2
    <3>4. k > c.at
      BY <1>5, <3>1, <3>2
    <3>5. QED BY <1>3, <3>3, <3>4 DEF RolesBehind
  <2>2. at - 1 \in Int /\ c.at <= at - 1
    BY <1>4, <1>5
  <2> HIDE DEF c, m
  <2>3. QED BY <1>2, <1>4, <1>5, <2>1, <2>2, NothingBetween
<1>10. ASSUME NEW d \in CallRecord, SameArgs(c, d), d.at = at, d.rec = r
       PROVE  Progress("to_mwrite", d, g, m, n, groups, members, next_group_id)
  <2>1. Caller("to_mwrite", d)
    BY <1>2, <1>10 DEF Caller, ByOneself, Adding, SameArgs
  <2>2. Known("to_mwrite", d, g, m)
    BY <1>2, <1>10 DEF Known, ByOwner, OnOther, OfMember, OfOutsider, Closing, SameArgs
  <2>3. /\ d.at \in DOMAIN m
        /\ d.rec = RoleAfterTransfer(m[d.at], d.gid, d.user, d.name)
    BY <1>6, <1>10 DEF SameArgs
  <2>4. InHand("to_mwrite", d, g, m)
    BY <2>3 DEF InHand
  <2>5. Swept(d, d.at - 1, m, members)
    BY <1>9, <1>10 DEF Swept, SameArgs
  <2>6. groups = [g EXCEPT ![d.gid].owner = d.name]
    BY <1>2, <1>10 DEF SameArgs
  <2>7. Written("to_mwrite", d, g, m, groups, members)
        /\ Numbered("to_mwrite", d, n, next_group_id)
    BY <1>2, <2>5, <2>6 DEF Written, Changing, Numbered
  <2>8. QED BY <2>1, <2>2, <2>4, <2>7 DEF Progress
<1>11. "to_mwrite" \in Labels
  BY DEF Labels
<1> HIDE DEF r
<1>12. QED BY <1>1, <1>2, <1>4, <1>7, <1>8, <1>10, <1>11, HoldsOn

(* The pass is over: the call has had its effect.                          *)
LEMMA TransferEndRefines ==
  ASSUME SerialInv, IInv, NEW t \in Thread, Settles, UNCHANGED calls, TO_Scan(t),
         RolesBehind(t) = {}
  PROVE  Refines
<1> DEFINE c == loc[t]
           g == settled[1][1]
           m == settled[1][2]
           n == settled[2][1]
<1>1. pc[t] = "to_scan" /\ Return(t) /\ UNCHANGED <<disk, counters>>
  BY DEF TO_Scan
<1>2. /\ pc[t] # "idle" /\ Consistent(g, m)
      /\ groups = [g EXCEPT ![c.gid].owner = c.name]
      /\ next_group_id = n /\ c \in CallRecord /\ Swept(c, c.at, m, members)
      /\ IsGroupOwner(g, c.gid, c.user) /\ IsMemberOfGroup(m, c.gid, c.name)
      /\ Live(g, c.gid) /\ g[c.gid].owner = c.user
      /\ c.name \in Name /\ c.user \in Account
  BY <1>1, TransferHalfDone
<1>3. m \in Seq(MemberRecordDB) /\ members \in Seq(MemberRecordDB)
      /\ DOMAIN members = DOMAIN m /\ c.at \in Nat
  BY <1>2 DEF Consistent, Counted, Swept, CallRecord
<1>4. members = [k \in DOMAIN m |-> RoleAfterTransfer(m[k], c.gid, c.user, c.name)]
  <2>1. \A k \in DOMAIN members :
          c.at < k =>
            ~(members[k].group_id = c.gid /\ members[k].is_active
              /\ members[k].username \in {c.user, c.name})
    <3>1. \A k \in DOMAIN members : k \in Nat /\ (c.at < k => k > c.at)
      BY <1>3
    <3>2. QED BY <3>1 DEF RolesBehind
  <2> HIDE DEF c, m
  <2>2. PICK e \in Int : c.at <= e /\ Len(m) <= e
    BY <1>3
  <2>3. Swept(c, e, m, members)
    BY <1>2, <1>3, <2>1, <2>2, NothingBetween
  <2>4. Swept(c, Len(m), m, members)
    <3>1. \A k \in DOMAIN m : k <= Len(m) /\ k <= e
      BY <1>3, <2>2
    <3>2. QED BY <2>3, <3>1 DEF Swept
  <2>5. QED BY <1>3, <2>4, AllSwept
<1>5. TransferEffect(g, m, c.gid, c.user, c.name, groups, members)
  BY <1>2, <1>4 DEF TransferEffect
<1>6. groups' = groups /\ members' = members /\ next_group_id' = n
      /\ UNCHANGED <<requests, invites, next_join_request_id, next_invite_id>>
  BY <1>1, <1>2 DEF disk, counters
<1>7. /\ Consistent(groups', members') /\ Len(groups') = Len(g)
      /\ Len(members') = Len(m)
  <2> HIDE DEF c, g, m, n
  <2>1. PICK k, u, v, g2, m2 :
          k = c.gid /\ u = c.user /\ v = c.name /\ g2 = groups /\ m2 = members
    OBVIOUS
  <2>2. TransferEffect(g, m, k, u, v, g2, m2)
    BY <1>5, <2>1
  <2>3. /\ Consistent(g, m) /\ Live(g, k) /\ g[k].owner = u
        /\ v \in Name /\ IsMemberOfGroup(m, k, v)
    BY <1>2, <2>1
  <2>4. Consistent(g2, m2) /\ Len(g2) = Len(g) /\ Len(m2) = Len(m)
    <3>1. \A g1, m1 :
            /\ Consistent(g1, m1) /\ Live(g1, k) /\ g1[k].owner = u
            /\ IsMemberOfGroup(m1, k, v) /\ TransferEffect(g1, m1, k, u, v, g2, m2)
            => Consistent(g2, m2) /\ Len(g2) = Len(g1) /\ Len(m2) = Len(m1)
      BY <2>3, HandedOver
    <3>2. QED BY <2>2, <2>3, <3>1
  <2>5. QED BY <1>6, <2>1, <2>4
<1>8. n = Len(g) + 1 /\ Len(g) \in Nat /\ Len(m) \in Nat
  BY <1>2, Running, Room DEF DirectoryOK
<1>9. /\ next_group_id' = Len(groups') + 1
      /\ Len(groups') <= Len(g) + 1 /\ Len(members') <= Len(m) + 1
  <2> HIDE DEF g, m, n
  <2>1. QED BY <1>6, <1>7, <1>8
<1>10. /\ SerialInv'
       /\ settled'[1][1] = groups' /\ settled'[1][2] = members'
       /\ settled'[1][3] = settled[1][3] /\ settled'[1][4] = settled[1][4]
       /\ settled'[2][1] = next_group_id'
       /\ settled'[2][2] = settled[2][2] /\ settled'[2][3] = settled[2][3]
  BY <1>1, <1>2, <1>6, <1>7, <1>9, EndsWithMembers
<1>11. DB!Next
  <2>1. PICK u, k, v : u = c.user /\ k = c.gid /\ v = c.name
    OBVIOUS
  <2>2. /\ TransferEffect(settled[1][1], settled[1][2], k, u, v,
                          settled'[1][1], settled'[1][2])
        /\ RestSettled
    BY <1>5, <1>6, <1>10, <2>1 DEF RestSettled
  <2>3. QED BY <1>2, <2>1, <2>2, TransferHappens
<1>12. QED BY <1>10, <1>11 DEF Refines

-----------------------------------------------------------------------------
(* Calls that append to a request file, and the decisions. *)
LEMMA GoesOnReading ==
  ASSUME SerialInv, IInv, NEW t \in Thread, pc[t] \in Unchanging, Settles,
         UNCHANGED <<disk, counters, calls>>,
         NEW l \in Simple, NEW c, Does(t, l, c), Caller(l, c),
         Known(l, c, settled[1][1], settled[1][2])
  PROVE  Refines
<1>1. /\ groups = settled[1][1] /\ members = settled[1][2]
      /\ next_group_id = settled[2][1] /\ pc[t] # "idle"
  BY SoFar
<1>2. l \in Labels /\ l # "idle"
  BY DEF Simple, Unchanging
<1>3. /\ UNCHANGED <<requests, invites, next_join_request_id, next_invite_id>>
      /\ UNCHANGED <<groups, members, next_group_id>>
  BY DEF disk, counters
<1>4. Progress(l, c, settled[1][1], settled[1][2], settled[2][1],
               groups', members', next_group_id')
  BY <1>1, <1>3, SimpleProgress
<1>5. QED BY <1>1, <1>2, <1>3, <1>4, GoesOn

(* A return from a label before which nothing was written.                 *)
LEMMA ReturnsUnchanged ==
  ASSUME SerialInv, IInv, NEW t \in Thread, pc[t] \in Unchanging, Return(t), Settles,
         UNCHANGED <<disk, counters, calls>>
  PROVE  Refines
BY SoFar, EndsUnchanged

(* create_join_request. *)
LEMMA JoinRefines ==
  ASSUME SerialInv, IInv, NEW t \in Thread, Settles, UNCHANGED calls,
         RJ_Lock(t) \/ RJ_Append(t)
  PROVE  Refines
<1> DEFINE c == loc[t]
           g == settled[1][1]
           m == settled[1][2]
           r == settled[1][3]
           n == settled[2][2]
<1>1. pc[t] \in {"rj_lock", "rj_append"} /\ pc[t] \in Unchanging /\ pc[t] # "idle"
      /\ "rj_append" \in Simple
  BY DEF RJ_Lock, RJ_Append, Unchanging, Labels, Changing, Simple
<1>2. /\ Caller(pc[t], c) /\ Known(pc[t], c, g, m) /\ Consistent(g, m)
      /\ groups = g /\ members = m /\ next_group_id = settled[2][1]
      /\ requests = r /\ invites = settled[1][4]
      /\ next_join_request_id = n /\ next_invite_id = settled[2][3]
  BY <1>1, SoFar, Running
<1>3. CASE RJ_Lock(t)
  <2>1. pc[t] = "rj_lock" /\ UNCHANGED <<disk, counters>>
    BY <1>3 DEF RJ_Lock
  <2>2. CASE PendingRequestExists(requests, c.gid, c.user)
    BY <1>1, <1>3, <2>1, <2>2, ReturnsUnchanged DEF RJ_Lock
  <2>3. CASE ~PendingRequestExists(requests, c.gid, c.user)
    <3>1. Does(t, "rj_append", c)
      BY <1>3, <2>3, SameLocals DEF RJ_Lock
    <3>2. Caller("rj_append", c) /\ Known("rj_append", c, g, m)
      BY <1>2, <2>1 DEF Caller, ByOneself, Adding, Known, ByOwner, OnOther, OfMember,
         OfOutsider, Closing
    <3>3. QED BY <1>1, <2>1, <3>1, <3>2, GoesOnReading
  <2>4. QED BY <2>2, <2>3
<1>4. CASE RJ_Append(t)
  <2>1. /\ pc[t] = "rj_append" /\ Return(t)
        /\ requests' = Append(r, NewRequest(n, c.gid, c.user))
        /\ next_join_request_id' = n + 1
        /\ groups' = g /\ members' = m /\ invites' = settled[1][4]
        /\ next_group_id' = settled[2][1] /\ next_invite_id' = settled[2][3]
    BY <1>2, <1>4 DEF RJ_Append
  <2>2. /\ ~PendingRequestExists(r, c.gid, c.user) /\ c.gid \in Nat /\ c.user \in Name
    BY <1>1, <1>2, <2>1, ThreadFacts DEF RequestFit, ArgsFit, CallRecord
  <2>3. /\ ~IsMemberOfGroup(m, c.gid, c.user) /\ ~IsGroupOwner(g, c.gid, c.user)
        /\ Live(g, c.gid) /\ c.user \in Account
    BY <1>2, <2>1 DEF Known, OfOutsider, Caller, ByOneself
  <2>4. /\ RequestsOK(r, n) /\ InvitesOK(settled[1][4], settled[2][3])
        /\ settled[2][1] = Len(g) + 1
        /\ Len(g) \in Nat /\ Len(m) \in Nat /\ Len(r) \in Nat /\ Len(settled[1][4]) \in Nat
        /\ Len(r) < MaxCalls
    BY <1>1, Running, Room DEF DirectoryOK
  <2>5. RequestsOK(requests', next_join_request_id')
    <3> HIDE DEF c, r, n
    <3>1. PICK gid, u : gid = c.gid /\ u = c.user
      OBVIOUS
    <3>2. requests' = Append(requests, NewRequest(next_join_request_id, gid, u))
      BY <1>4, <3>1 DEF RJ_Append, c
    <3>3. /\ RequestsOK(requests, next_join_request_id) /\ gid \in Nat /\ u \in Name
          /\ ~PendingRequestExists(requests, gid, u)
      BY <1>2, <2>2, <2>4, <3>1
    <3>4. RequestsOK(requests', next_join_request_id + 1)
      BY <3>2, <3>3, RequestSubmitted
    <3>5. QED BY <1>2, <2>1, <3>4
  <2>6. Len(requests') = Len(r) + 1
    <3> HIDE DEF c, r, n
    <3>1. r \in Seq(JoinRequestRecordDB)
      BY <2>4 DEF RequestsOK
    <3>2. PICK e : e = NewRequest(n, c.gid, c.user)
      OBVIOUS
    <3>3. QED BY <2>1, <3>1, <3>2
  <2>7. /\ SerialInv'
        /\ settled'[1][1] = groups' /\ settled'[1][2] = members'
        /\ settled'[1][3] = requests' /\ settled'[1][4] = invites'
        /\ settled'[2][1] = next_group_id'
        /\ settled'[2][2] = next_join_request_id' /\ settled'[2][3] = next_invite_id'
    <3>1. \A k \in Nat : k <= k + 1
      OBVIOUS
    <3>2. /\ Len(groups') <= Len(g) + 1 /\ Len(members') <= Len(m) + 1
          /\ Len(requests') <= Len(r) + 1
      <4> HIDE DEF g, m, r
      <4>1. Len(groups') <= Len(g) + 1
        BY <2>1, <2>4, <3>1
      <4>2. Len(members') <= Len(m) + 1
        BY <2>1, <2>4, <3>1
      <4>3. Len(requests') <= Len(r) + 1
        BY <2>4, <2>6
      <4>4. QED BY <4>1, <4>2, <4>3
    <3>5. Len(invites') <= Len(settled[1][4]) + 1
      BY <2>1, <2>4, <3>1
    <3>3. /\ Consistent(groups', members') /\ next_group_id' = Len(groups') + 1
          /\ InvitesOK(invites', next_invite_id')
      BY <1>2, <2>1, <2>4
    <3>4. QED BY <1>1, <2>1, <2>5, <3>2, <3>3, <3>5, EndsWith
  <2>8. DB!Next
    <3>1. PICK u, gid, k : u = c.user /\ gid = c.gid /\ k = n
      OBVIOUS
    <3>2. /\ settled'[1][3] = Append(settled[1][3], NewRequest(k, gid, u))
          /\ settled'[2][2] = k + 1 /\ GroupsSettled
          /\ settled'[1][4] = settled[1][4]
          /\ settled'[2][1] = settled[2][1] /\ settled'[2][3] = settled[2][3]
      BY <2>1, <2>7, <3>1 DEF GroupsSettled
    <3>3. QED BY <1>2, <2>2, <2>3, <2>4, <3>1, <3>2, RequestHappens
  <2>9. QED BY <2>7, <2>8 DEF Refines
<1>5. QED BY <1>3, <1>4

(* create_group_invite. *)
LEMMA InviteRefines ==
  ASSUME SerialInv, IInv, NEW t \in Thread, Settles, UNCHANGED calls,
         IV_Lock(t) \/ IV_Append(t)
  PROVE  Refines
<1> DEFINE c == loc[t]
           g == settled[1][1]
           m == settled[1][2]
           v == settled[1][4]
           n == settled[2][3]
<1>1. pc[t] \in {"iv_lock", "iv_append"} /\ pc[t] \in Unchanging /\ pc[t] # "idle"
      /\ "iv_append" \in Simple
  BY DEF IV_Lock, IV_Append, Unchanging, Labels, Changing, Simple
<1>2. /\ Caller(pc[t], c) /\ Known(pc[t], c, g, m) /\ Consistent(g, m)
      /\ groups = g /\ members = m /\ next_group_id = settled[2][1]
      /\ requests = settled[1][3] /\ invites = v
      /\ next_join_request_id = settled[2][2] /\ next_invite_id = n
  BY <1>1, SoFar, Running
<1>3. CASE IV_Lock(t)
  <2>1. pc[t] = "iv_lock" /\ UNCHANGED <<disk, counters>>
    BY <1>3 DEF IV_Lock
  <2>2. CASE PendingInviteExists(invites, c.gid, c.name)
    BY <1>1, <1>3, <2>1, <2>2, ReturnsUnchanged DEF IV_Lock
  <2>3. CASE ~PendingInviteExists(invites, c.gid, c.name)
    <3>1. Does(t, "iv_append", c)
      BY <1>3, <2>3, SameLocals DEF IV_Lock
    <3>2. Caller("iv_append", c) /\ Known("iv_append", c, g, m)
      BY <1>2, <2>1 DEF Caller, ByOneself, Adding, Known, ByOwner, OnOther, OfMember,
         OfOutsider, Closing
    <3>3. QED BY <1>1, <2>1, <3>1, <3>2, GoesOnReading
  <2>4. QED BY <2>2, <2>3
<1>4. CASE IV_Append(t)
  <2>1. /\ pc[t] = "iv_append" /\ Return(t)
        /\ invites' = Append(v, NewInvite(n, c.gid, c.user, c.name))
        /\ next_invite_id' = n + 1
        /\ groups' = g /\ members' = m /\ requests' = settled[1][3]
        /\ next_group_id' = settled[2][1] /\ next_join_request_id' = settled[2][2]
    BY <1>2, <1>4 DEF IV_Append
  <2>2. /\ ~PendingInviteExists(v, c.gid, c.name) /\ c.gid \in Nat
        /\ c.user \in Name /\ c.name \in Name
    BY <1>1, <1>2, <2>1, ThreadFacts DEF InviteFit, ArgsFit, CallRecord
  <2>3. /\ ~IsMemberOfGroup(m, c.gid, c.name) /\ IsGroupOwner(g, c.gid, c.user)
        /\ c.user \in Account /\ c.name \in Account \ {c.user}
    BY <1>2, <2>1 DEF Known, OfOutsider, ByOwner, Caller
  <2>4. /\ InvitesOK(v, n) /\ RequestsOK(settled[1][3], settled[2][2])
        /\ settled[2][1] = Len(g) + 1
        /\ Len(g) \in Nat /\ Len(m) \in Nat /\ Len(v) \in Nat /\ Len(settled[1][3]) \in Nat
        /\ Len(v) < MaxCalls
    BY <1>1, Running, Room DEF DirectoryOK
  <2>5. InvitesOK(invites', next_invite_id')
    <3> HIDE DEF c, v, n
    <3>1. PICK gid, u, w : gid = c.gid /\ u = c.user /\ w = c.name
      OBVIOUS
    <3>2. invites' = Append(invites, NewInvite(next_invite_id, gid, u, w))
      BY <1>4, <3>1 DEF IV_Append, c
    <3>3. /\ InvitesOK(invites, next_invite_id) /\ gid \in Nat /\ u \in Name
          /\ w \in Name /\ ~PendingInviteExists(invites, gid, w)
      BY <1>2, <2>2, <2>4, <3>1
    <3>4. InvitesOK(invites', next_invite_id + 1)
      BY <3>2, <3>3, InviteSubmitted
    <3>5. QED BY <1>2, <2>1, <3>4
  <2>6. Len(invites') = Len(v) + 1
    <3> HIDE DEF c, v, n
    <3>1. v \in Seq(GroupInviteRecordDB)
      BY <2>4 DEF InvitesOK
    <3>2. PICK e : e = NewInvite(n, c.gid, c.user, c.name)
      OBVIOUS
    <3>3. QED BY <2>1, <3>1, <3>2
  <2>7. /\ SerialInv'
        /\ settled'[1][1] = groups' /\ settled'[1][2] = members'
        /\ settled'[1][3] = requests' /\ settled'[1][4] = invites'
        /\ settled'[2][1] = next_group_id'
        /\ settled'[2][2] = next_join_request_id' /\ settled'[2][3] = next_invite_id'
    <3>1. \A k \in Nat : k <= k + 1
      OBVIOUS
    <3>2. /\ Len(groups') <= Len(g) + 1 /\ Len(members') <= Len(m) + 1
          /\ Len(invites') <= Len(v) + 1
      <4> HIDE DEF g, m, v
      <4>1. Len(groups') <= Len(g) + 1
        BY <2>1, <2>4, <3>1
      <4>2. Len(members') <= Len(m) + 1
        BY <2>1, <2>4, <3>1
      <4>3. Len(invites') <= Len(v) + 1
        BY <2>4, <2>6
      <4>4. QED BY <4>1, <4>2, <4>3
    <3>5. Len(requests') <= Len(settled[1][3]) + 1
      BY <2>1, <2>4, <3>1
    <3>3. /\ Consistent(groups', members') /\ next_group_id' = Len(groups') + 1
          /\ RequestsOK(requests', next_join_request_id')
      BY <1>2, <2>1, <2>4
    <3>4. QED BY <1>1, <2>1, <2>5, <3>2, <3>3, <3>5, EndsWith
  <2>8. DB!Next
    <3>1. PICK u, gid, w, k : u = c.user /\ gid = c.gid /\ w = c.name /\ k = n
      OBVIOUS
    <3>2. /\ settled'[1][4] = Append(settled[1][4], NewInvite(k, gid, u, w))
          /\ settled'[2][3] = k + 1 /\ GroupsSettled
          /\ settled'[1][3] = settled[1][3]
          /\ settled'[2][1] = settled[2][1] /\ settled'[2][2] = settled[2][2]
      BY <2>1, <2>7, <3>1 DEF GroupsSettled
    <3>3. QED BY <1>2, <2>2, <2>3, <2>4, <3>1, <3>2, InviteHappens
  <2>9. QED BY <2>7, <2>8 DEF Refines
<1>5. QED BY <1>3, <1>4

-----------------------------------------------------------------------------
(* decide_join_request and decide_invitation. *)
LEMMA Admits ==
  ASSUME NEW l \in {"dj_write", "di_write"}, NEW c, NEW g, NEW m, NEW g2, NEW m2,
         Consistent(g, m), Live(g, c.gid), c.name \in Name, Written(l, c, g, m, g2, m2)
  PROVE  /\ Consistent(g2, m2) /\ Len(g2) = Len(g) /\ Len(m2) <= Len(m) + 1
         /\ IF c.approve
            THEN ~IsMemberOfGroup(m, c.gid, c.name) /\ JoinEffect(g, m, c.gid, c.name, g2, m2)
            ELSE g2 = g /\ m2 = m
<1>1. Len(m) \in Nat
  BY DEF Consistent, Counted
<1>2. CASE c.approve
  <2>1. ~IsMemberOfGroup(m, c.gid, c.name)
    BY <1>2 DEF Written
  <2>2. JoinEffect(g, m, c.gid, c.name, g2, m2)
    BY <1>2 DEF Written, MemberAdded1, GroupCounted, JoinEffect
  <2>3. PICK gid, u : gid = c.gid /\ u = c.name
    OBVIOUS
  <2>4. Consistent(g2, m2) /\ Len(g2) = Len(g) /\ Len(m2) = Len(m) + 1
    BY <2>1, <2>2, <2>3, Joined
  <2>5. QED BY <1>1, <1>2, <2>1, <2>2, <2>4
<1>3. CASE ~c.approve
  <2>1. g2 = g /\ m2 = m
    BY <1>3 DEF Written
  <2>2. QED BY <1>1, <1>3, <2>1
<1>4. QED BY <1>2, <1>3

(* The common end of the two decisions: the group is admitted to, or not.  *)
LEMMA DecisionSoFar ==
  ASSUME SerialInv, IInv, NEW t \in Thread, pc[t] \in {"dj_write", "di_write"}
  PROVE  /\ Caller(pc[t], loc[t]) /\ Known(pc[t], loc[t], settled[1][1], settled[1][2])
         /\ Consistent(settled[1][1], settled[1][2]) /\ Live(settled[1][1], loc[t].gid)
         /\ Consistent(groups, members) /\ Len(groups) = Len(settled[1][1])
         /\ Len(members) <= Len(settled[1][2]) + 1
         /\ next_group_id = settled[2][1]
         /\ IF loc[t].approve
            THEN /\ ~IsMemberOfGroup(settled[1][2], loc[t].gid, loc[t].name)
                 /\ JoinEffect(settled[1][1], settled[1][2], loc[t].gid, loc[t].name,
                               groups, members)
            ELSE groups = settled[1][1] /\ members = settled[1][2]
<1> DEFINE c == loc[t]
           g == settled[1][1]
           m == settled[1][2]
<1>1. /\ Consistent(g, m)
      /\ Caller(pc[t], c) /\ Known(pc[t], c, g, m)
      /\ Written(pc[t], c, g, m, groups, members)
      /\ Numbered(pc[t], c, settled[2][1], next_group_id)
  BY Running DEF Progress
<1>2. next_group_id = settled[2][1]
  BY <1>1 DEF Numbered
<1>3. Live(g, c.gid)
  BY <1>1, OwnerLookup DEF Known, ByOwner
<1>4. c.name \in Name
  BY ThreadFacts DEF ArgsFit
<1> HIDE DEF c, g, m
<1>5. /\ Consistent(groups, members) /\ Len(groups) = Len(g) /\ Len(members) <= Len(m) + 1
      /\ IF c.approve
         THEN ~IsMemberOfGroup(m, c.gid, c.name)
              /\ JoinEffect(g, m, c.gid, c.name, groups, members)
         ELSE groups = g /\ members = m
  <2>1. PICK l, g2, m2 : l = pc[t] /\ g2 = groups /\ m2 = members
    OBVIOUS
  <2>2. l \in {"dj_write", "di_write"} /\ Written(l, c, g, m, g2, m2)
    BY <1>1, <2>1
  <2>3. /\ Consistent(g2, m2) /\ Len(g2) = Len(g) /\ Len(m2) <= Len(m) + 1
        /\ IF c.approve
           THEN ~IsMemberOfGroup(m, c.gid, c.name) /\ JoinEffect(g, m, c.gid, c.name, g2, m2)
           ELSE g2 = g /\ m2 = m
    BY <1>1, <1>3, <1>4, <2>2, Admits
  <2>4. QED BY <2>1, <2>3
<1>6. QED BY <1>1, <1>2, <1>3, <1>5 DEF c, g, m

(* decide_join_request. *)
LEMMA RequestDecisionRefines ==
  ASSUME SerialInv, IInv, NEW t \in Thread, Settles, UNCHANGED calls, DJ_Write(t)
  PROVE  Refines
<1> DEFINE c == loc[t]
           g == settled[1][1]
           m == settled[1][2]
           r == settled[1][3]
<1>1. /\ pc[t] = "dj_write" /\ Return(t)
      /\ requests' = [requests EXCEPT ![c.pos] = Decided(t)]
      /\ UNCHANGED <<groups, members, invites, counters>>
  BY DEF DJ_Write
<1>2. /\ pc[t] # "idle" /\ requests = r /\ invites = settled[1][4]
      /\ next_join_request_id = settled[2][2] /\ next_invite_id = settled[2][3]
      /\ RequestsOK(r, settled[2][2]) /\ InvitesOK(settled[1][4], settled[2][3])
      /\ settled[2][1] = Len(g) + 1
  BY <1>1, Running DEF DirectoryOK
<1>3. /\ c.cmd = "decide_request" /\ c.approve \in BOOLEAN /\ c.pos \in DOMAIN r
      /\ c.entry = r[c.pos] /\ c.gid = r[c.pos].group_id /\ c.name = r[c.pos].requester
      /\ r[c.pos].status = Pending
  BY <1>1, <1>2, ThreadFacts DEF RequestFit, ArgsFit, Serves, CallRecord
<1>4. /\ c.user \in Account /\ c.user \in Name /\ IsGroupOwner(g, c.gid, c.user)
      /\ Consistent(g, m) /\ Consistent(groups, members) /\ Len(groups) = Len(g)
      /\ Len(members) <= Len(m) + 1 /\ next_group_id = settled[2][1]
      /\ IF c.approve THEN /\ ~IsMemberOfGroup(m, c.gid, c.name)
                           /\ JoinEffect(g, m, c.gid, c.name, groups, members)
                      ELSE groups = g /\ members = m
  BY <1>1, DecisionSoFar, AccountAssumption DEF Caller, Known, ByOwner
<1>5. PICK at, b, u, gid, v :
        at = c.pos /\ b = c.approve /\ u = c.user /\ gid = c.gid /\ v = c.name
  OBVIOUS
<1>6. requests' = Decide(requests, at, b, u)
  <2>1. PICK e : e = requests[at] /\ e = c.entry
    BY <1>2, <1>3, <1>5
  <2>2. at \in DOMAIN requests
    BY <1>2, <1>3, <1>5
  <2>3. requests' = [requests EXCEPT ![at] =
                       [e EXCEPT !.status = IF b THEN Approved ELSE Rejected,
                                 !.reviewed_by = u]]
    BY <1>1, <1>5, <2>1 DEF Decided
  <2>4. QED BY <2>1, <2>2, <2>3 DEF Decide
<1>7. RequestsOK(requests', next_join_request_id')
  <2>1. PICK q2 : q2 = requests'
    OBVIOUS
  <2>2. /\ at \in DOMAIN requests /\ requests[at].status = Pending /\ b \in BOOLEAN
        /\ u \in Name /\ RequestsOK(requests, next_join_request_id)
    BY <1>2, <1>3, <1>4, <1>5
  <2>3. RequestsOK(q2, next_join_request_id)
    BY <1>6, <2>1, <2>2, RequestDecided
  <2>4. QED BY <1>1, <2>1, <2>3 DEF counters
<1>8. Len(requests') = Len(r) /\ Len(r) \in Nat /\ Len(settled[1][4]) \in Nat /\ Len(m) \in Nat
      /\ Len(g) \in Nat /\ Len(m) < MaxCalls
  <2>1. r \in Seq(JoinRequestRecordDB)
    BY <1>2 DEF RequestsOK
  <2>2. Len(requests') = Len(requests)
    BY <1>1, <1>2, <2>1
  <2>3. QED BY <1>2, <2>2, Room
<1>9. /\ SerialInv'
      /\ settled'[1][1] = groups' /\ settled'[1][2] = members'
      /\ settled'[1][3] = requests' /\ settled'[1][4] = invites'
      /\ settled'[2][1] = next_group_id'
      /\ settled'[2][2] = next_join_request_id' /\ settled'[2][3] = next_invite_id'
  <2>1. \A k \in Nat : k <= k + 1
    OBVIOUS
  <2>2. Len(groups') <= Len(g) + 1
    <3> HIDE DEF g
    <3>1. QED BY <1>1, <1>4, <1>8, <2>1
  <2>3. Len(members') <= Len(m) + 1
    BY <1>1, <1>4
  <2>4. Len(requests') <= Len(r) + 1
    <3> HIDE DEF r
    <3>1. QED BY <1>8, <2>1
  <2>5. Len(invites') <= Len(settled[1][4]) + 1
    BY <1>1, <1>2, <1>8, <2>1
  <2>6. /\ Consistent(groups', members') /\ next_group_id' = Len(groups') + 1
        /\ InvitesOK(invites', next_invite_id')
    BY <1>1, <1>2, <1>4 DEF counters
  <2>7. QED BY <1>1, <1>2, <1>7, <2>2, <2>3, <2>4, <2>5, <2>6, EndsWith
<1>10. DB!Next
  <2>1. /\ settled'[1][4] = settled[1][4] /\ settled'[2][1] = settled[2][1]
        /\ settled'[2][2] = settled[2][2] /\ settled'[2][3] = settled[2][3]
        /\ settled'[1][3] = Decide(settled[1][3], at, b, u)
        /\ settled'[1][1] = groups /\ settled'[1][2] = members
    BY <1>1, <1>2, <1>4, <1>6, <1>9 DEF counters
  <2>2. Admitted(b, gid, v)
    BY <1>4, <1>5, <1>8, <2>1 DEF Admitted, GroupsSettled
  <2>3. /\ u \in Account /\ b \in BOOLEAN /\ at \in DOMAIN settled[1][3]
        /\ gid = settled[1][3][at].group_id /\ v = settled[1][3][at].requester
        /\ settled[1][3][at].status = Pending /\ IsGroupOwner(settled[1][1], gid, u)
    BY <1>3, <1>4, <1>5
  <2>4. QED BY <1>2, <1>4, <2>1, <2>2, <2>3, DecideRequestHappens
<1>11. QED BY <1>9, <1>10 DEF Refines

(* A step that only reads, and goes on with what it has read in its locals. *)
LEMMA ReadsOn ==
  ASSUME SerialInv, IInv, IInv', NEW t \in Thread, pc[t] \in Unchanging, Settles,
         UNCHANGED <<disk, counters, calls>>,
         NEW l \in Simple, Goto(t, l), \A u \in Thread : u # t => loc'[u] = loc[u],
         Caller(l, loc'[t]), Known(l, loc'[t], settled[1][1], settled[1][2])
  PROVE  Refines
<1>1. Does(t, l, loc'[t])
  BY DEF IInv, Does, Goto
<1>2. PICK c : c = loc'[t]
  OBVIOUS
<1>3. Does(t, l, c) /\ Caller(l, c) /\ Known(l, c, settled[1][1], settled[1][2])
  BY <1>1, <1>2
<1>4. QED BY <1>3, GoesOnReading

(* Reading the request, and the group it is for.                           *)
LEMMA RequestReadRefines ==
  ASSUME SerialInv, IInv, IInv', NEW t \in Thread, Settles, UNCHANGED calls,
         DJ_Lock(t) \/ DJ_Info(t)
  PROVE  Refines
<1> DEFINE c == loc[t]
           g == settled[1][1]
           m == settled[1][2]
<1>1. /\ pc[t] \in {"dj_lock", "dj_info"} /\ pc[t] \in Unchanging
      /\ UNCHANGED <<disk, counters>> /\ {"dj_info", "am_owner"} \subseteq Simple
  BY DEF DJ_Lock, DJ_Info, Unchanging, Labels, Changing, Simple
<1>2. /\ Caller(pc[t], c) /\ Known(pc[t], c, g, m) /\ Consistent(g, m)
      /\ groups = g /\ members = m /\ next_group_id = settled[2][1] /\ pc[t] # "idle"
      /\ c.cmd = "decide_request"
      /\ loc \in [Thread -> CallRecord]
  BY <1>1, SoFar, ThreadFacts DEF ArgsFit, Serves, IInv
<1>3. CASE Return(t)
  BY <1>1, <1>3, ReturnsUnchanged
<1>4. CASE DJ_Lock(t) /\ ~Return(t)
  <2>1. PICK at : /\ Goto(t, "dj_info")
                  /\ loc' = [loc EXCEPT ![t].pos = at, ![t].entry = requests[at],
                                        ![t].gid = requests[at].group_id,
                                        ![t].name = requests[at].requester]
    BY <1>4 DEF DJ_Lock
  <2>2. /\ \A u \in Thread : u # t => loc'[u] = loc[u]
        /\ loc'[t].user = c.user /\ loc'[t].requester = c.requester
        /\ loc'[t].cmd = c.cmd
    BY <1>2, <2>1 DEF CallRecord
  <2>3. Caller("dj_info", loc'[t])
    BY <1>2, <2>2 DEF Caller, ByOneself, Adding
  <2>4. Known("dj_info", loc'[t], g, m)
    BY DEF Known, ByOwner, OnOther, OfMember, OfOutsider, Closing
  <2>5. QED BY <1>1, <2>1, <2>2, <2>3, <2>4, ReadsOn
<1>5. CASE DJ_Info(t) /\ ~Return(t)
  <2>1. /\ pc[t] = "dj_info" /\ IsGroupOwner(g, c.gid, c.user) /\ UNCHANGED loc
        /\ Goto(t, IF c.approve THEN "am_owner" ELSE "dj_write")
    BY <1>2, <1>5 DEF DJ_Info
  <2>2. CASE c.approve
    <3>1. Does(t, "am_owner", c)
      BY <2>1, <2>2, SameLocals
    <3>2. Caller("am_owner", c) /\ Known("am_owner", c, g, m)
      BY <1>2, <2>2 DEF Caller, ByOneself, Known, ByOwner, OnOther, OfMember, OfOutsider,
         Closing
    <3>3. QED BY <1>1, <3>1, <3>2, GoesOnReading
  <2>3. CASE ~c.approve
    <3>1. Does(t, "dj_write", c) /\ "dj_write" \in Labels
      BY <2>1, <2>3, SameLocals DEF Labels
    <3>2. Caller("dj_write", c) /\ Known("dj_write", c, g, m)
      BY <1>2, <2>1 DEF Caller, ByOneself, Adding, Known, ByOwner, OnOther, OfMember,
         OfOutsider, Closing
    <3>3. /\ InHand("dj_write", c, g, m)
          /\ Written("dj_write", c, g, m, groups', members')
          /\ Numbered("dj_write", c, settled[2][1], next_group_id')
      BY <1>1, <1>2, <2>3 DEF InHand, Written, Changing, Numbered, disk, counters
    <3>4. /\ UNCHANGED <<requests, invites, next_join_request_id, next_invite_id>>
          /\ Progress("dj_write", c, g, m, settled[2][1], groups', members', next_group_id')
      BY <1>1, <3>2, <3>3 DEF disk, counters, Progress
    <3>5. QED BY <1>2, <3>1, <3>4, GoesOn
  <2>4. QED BY <2>2, <2>3
<1>6. QED BY <1>3, <1>4, <1>5

(* Reading the invitation, and the group it is for.                        *)
LEMMA InviteReadRefines ==
  ASSUME SerialInv, IInv, IInv', NEW t \in Thread, Settles, UNCHANGED calls,
         DI_Lock(t) \/ DI_Info(t)
  PROVE  Refines
<1> DEFINE c == loc[t]
           g == settled[1][1]
           m == settled[1][2]
<1>1. /\ pc[t] \in {"di_lock", "di_info"} /\ pc[t] \in Unchanging
      /\ UNCHANGED <<disk, counters>> /\ {"di_info", "am_owner"} \subseteq Simple
  BY DEF DI_Lock, DI_Info, Unchanging, Labels, Changing, Simple
<1>2. /\ Caller(pc[t], c) /\ Known(pc[t], c, g, m) /\ Consistent(g, m)
      /\ groups = g /\ members = m /\ next_group_id = settled[2][1] /\ pc[t] # "idle"
      /\ c.cmd = "decide_invite"
      /\ loc \in [Thread -> CallRecord]
  BY <1>1, SoFar, ThreadFacts DEF ArgsFit, Serves, IInv
<1>3. CASE Return(t)
  BY <1>1, <1>3, ReturnsUnchanged
<1>4. CASE DI_Lock(t) /\ ~Return(t)
  <2>1. PICK at : /\ Goto(t, "di_info")
                  /\ loc' = [loc EXCEPT ![t].pos = at, ![t].entry = invites[at],
                                        ![t].gid = invites[at].group_id]
    BY <1>4 DEF DI_Lock
  <2>2. /\ \A u \in Thread : u # t => loc'[u] = loc[u]
        /\ loc'[t].user = c.user /\ loc'[t].cmd = c.cmd
    BY <1>2, <2>1 DEF CallRecord
  <2>3. Caller("di_info", loc'[t])
    BY <1>2, <2>2 DEF Caller, ByOneself, Adding
  <2>4. Known("di_info", loc'[t], g, m)
    BY DEF Known, ByOwner, OnOther, OfMember, OfOutsider, Closing
  <2>5. QED BY <1>1, <2>1, <2>2, <2>3, <2>4, ReadsOn
<1>5. CASE DI_Info(t) /\ ~Return(t)
  <2>1. PICK at : /\ at = ActiveGroupAt(g, c.gid) /\ at # 0
                  /\ loc' = [loc EXCEPT ![t].requester = g[at].owner]
                  /\ Goto(t, IF c.approve THEN "am_owner" ELSE "di_write")
    BY <1>2, <1>5 DEF DI_Info
  <2>2. Live(g, c.gid)
    BY <1>2, <2>1, GroupLookup
  <2>3. /\ \A u \in Thread : u # t => loc'[u] = loc[u]
        /\ loc'[t].user = c.user /\ loc'[t].cmd = c.cmd /\ loc'[t].gid = c.gid
        /\ loc'[t].approve = c.approve
    BY <1>2, <2>1 DEF CallRecord
  <2>4. CASE c.approve
    <3>1. Goto(t, "am_owner")
      BY <2>1, <2>4
    <3>2. Caller("am_owner", loc'[t])
      BY <1>2, <2>3, <2>4 DEF Caller, ByOneself
    <3>3. Known("am_owner", loc'[t], g, m)
      BY DEF Known, ByOwner, OnOther, OfMember, OfOutsider, Closing
    <3>4. QED BY <1>1, <2>3, <3>1, <3>2, <3>3, ReadsOn
  <2>5. CASE ~c.approve
    <3>1. PICK d : d = loc'[t]
      OBVIOUS
    <3>2. Does(t, "di_write", d) /\ "di_write" \in Labels
      BY <2>1, <2>3, <2>5, <3>1 DEF Labels, IInv, Does, Goto
    <3>3. Caller("di_write", d) /\ Known("di_write", d, g, m) /\ ~d.approve
      BY <1>2, <2>2, <2>3, <2>5, <3>1 DEF Caller, ByOneself, Adding, Known, ByOwner, OnOther,
         OfMember, OfOutsider, Closing
    <3>4. /\ InHand("di_write", d, g, m)
          /\ Written("di_write", d, g, m, groups', members')
          /\ Numbered("di_write", d, settled[2][1], next_group_id')
      BY <1>1, <1>2, <3>3 DEF InHand, Written, Changing, Numbered, disk, counters
    <3>5. /\ UNCHANGED <<requests, invites, next_join_request_id, next_invite_id>>
          /\ Progress("di_write", d, g, m, settled[2][1], groups', members', next_group_id')
      BY <1>1, <3>3, <3>4 DEF disk, counters, Progress
    <3>6. QED BY <1>2, <3>2, <3>5, GoesOn
  <2>6. QED BY <2>4, <2>5
<1>6. QED BY <1>3, <1>4, <1>5

(* decide_invitation. *)
LEMMA InviteDecisionRefines ==
  ASSUME SerialInv, IInv, NEW t \in Thread, Settles, UNCHANGED calls, DI_Write(t)
  PROVE  Refines
<1> DEFINE c == loc[t]
           g == settled[1][1]
           m == settled[1][2]
           r == settled[1][4]
<1>1. /\ pc[t] = "di_write" /\ Return(t)
      /\ invites' = [invites EXCEPT ![c.pos] = Decided(t)]
      /\ UNCHANGED <<groups, members, requests, counters>>
  BY DEF DI_Write
<1>2. /\ pc[t] # "idle" /\ requests = settled[1][3] /\ invites = r
      /\ next_join_request_id = settled[2][2] /\ next_invite_id = settled[2][3]
      /\ InvitesOK(r, settled[2][3]) /\ RequestsOK(settled[1][3], settled[2][2])
      /\ settled[2][1] = Len(g) + 1
  BY <1>1, Running DEF DirectoryOK
<1>3. /\ c.cmd = "decide_invite" /\ c.approve \in BOOLEAN /\ c.pos \in DOMAIN r
      /\ c.entry = r[c.pos] /\ c.gid = r[c.pos].group_id /\ c.name = r[c.pos].invitee
      /\ r[c.pos].status = Pending /\ c.name = c.user
  BY <1>1, <1>2, ThreadFacts DEF InviteFit, ArgsFit, Serves, CallRecord
<1>4. /\ c.user \in Account /\ c.user \in Name /\ Live(g, c.gid)
      /\ Consistent(g, m) /\ Consistent(groups, members) /\ Len(groups) = Len(g)
      /\ Len(members) <= Len(m) + 1 /\ next_group_id = settled[2][1]
      /\ IF c.approve THEN /\ ~IsMemberOfGroup(m, c.gid, c.name)
                           /\ JoinEffect(g, m, c.gid, c.name, groups, members)
                      ELSE groups = g /\ members = m
  BY <1>1, DecisionSoFar, AccountAssumption DEF Caller
<1>5. PICK at, b, u, gid : at = c.pos /\ b = c.approve /\ u = c.user /\ gid = c.gid
  OBVIOUS
<1>6. invites' = Decide(invites, at, b, u)
  <2>1. PICK e : e = invites[at] /\ e = c.entry
    BY <1>2, <1>3, <1>5
  <2>2. at \in DOMAIN invites
    BY <1>2, <1>3, <1>5
  <2>3. invites' = [invites EXCEPT ![at] =
                      [e EXCEPT !.status = IF b THEN Approved ELSE Rejected,
                                !.reviewed_by = u]]
    BY <1>1, <1>5, <2>1 DEF Decided
  <2>4. QED BY <2>1, <2>2, <2>3 DEF Decide
<1>7. InvitesOK(invites', next_invite_id')
  <2>1. PICK q2 : q2 = invites'
    OBVIOUS
  <2>2. /\ at \in DOMAIN invites /\ invites[at].status = Pending /\ b \in BOOLEAN
        /\ u \in Name /\ InvitesOK(invites, next_invite_id)
    BY <1>2, <1>3, <1>4, <1>5
  <2>3. InvitesOK(q2, next_invite_id)
    BY <1>6, <2>1, <2>2, InviteDecided
  <2>4. QED BY <1>1, <2>1, <2>3 DEF counters
<1>8. Len(invites') = Len(r) /\ Len(r) \in Nat /\ Len(settled[1][3]) \in Nat
      /\ Len(m) \in Nat /\ Len(g) \in Nat /\ Len(m) < MaxCalls
  <2>1. r \in Seq(GroupInviteRecordDB)
    BY <1>2 DEF InvitesOK
  <2>2. Len(invites') = Len(invites)
    BY <1>1, <1>2, <2>1
  <2>3. QED BY <1>2, <2>2, Room
<1>9. /\ SerialInv'
      /\ settled'[1][1] = groups' /\ settled'[1][2] = members'
      /\ settled'[1][3] = requests' /\ settled'[1][4] = invites'
      /\ settled'[2][1] = next_group_id'
      /\ settled'[2][2] = next_join_request_id' /\ settled'[2][3] = next_invite_id'
  <2>1. \A k \in Nat : k <= k + 1
    OBVIOUS
  <2>2. Len(groups') <= Len(g) + 1
    <3> HIDE DEF g
    <3>1. QED BY <1>1, <1>4, <1>8, <2>1
  <2>3. Len(members') <= Len(m) + 1
    BY <1>1, <1>4
  <2>4. Len(invites') <= Len(r) + 1
    <3> HIDE DEF r
    <3>1. QED BY <1>8, <2>1
  <2>5. Len(requests') <= Len(settled[1][3]) + 1
    BY <1>1, <1>2, <1>8, <2>1
  <2>6. /\ Consistent(groups', members') /\ next_group_id' = Len(groups') + 1
        /\ RequestsOK(requests', next_join_request_id')
    BY <1>1, <1>2, <1>4 DEF counters
  <2>7. QED BY <1>1, <1>2, <1>7, <2>2, <2>3, <2>4, <2>5, <2>6, EndsWith
<1>10. DB!Next
  <2>1. /\ settled'[1][3] = settled[1][3] /\ settled'[2][1] = settled[2][1]
        /\ settled'[2][2] = settled[2][2] /\ settled'[2][3] = settled[2][3]
        /\ settled'[1][4] = Decide(settled[1][4], at, b, u)
        /\ settled'[1][1] = groups /\ settled'[1][2] = members
    BY <1>1, <1>2, <1>4, <1>6, <1>9 DEF counters
  <2>2. Admitted(b, gid, u)
    BY <1>3, <1>4, <1>5, <1>8, <2>1 DEF Admitted, GroupsSettled
  <2>3. /\ u \in Account /\ b \in BOOLEAN /\ at \in DOMAIN settled[1][4]
        /\ gid = settled[1][4][at].group_id /\ settled[1][4][at].invitee = u
        /\ settled[1][4][at].status = Pending /\ Live(settled[1][1], gid)
    BY <1>3, <1>4, <1>5
  <2>4. QED BY <1>2, <1>4, <2>1, <2>2, <2>3, DecideInviteHappens
<1>11. QED BY <1>9, <1>10 DEF Refines

-----------------------------------------------------------------------------
(* The listings: they only read.                                           *)
LEMMA ListingsRefine ==
  ASSUME SerialInv, IInv, IInv', NEW t \in Thread, Settles, UNCHANGED calls,
         \/ LG_Members(t) \/ LG_Groups(t) \/ LM_Count(t) \/ LM_Fill(t)
         \/ LR_Lock(t) \/ LR_Count(t) \/ LR_Fill(t) \/ LN_Count(t) \/ LN_Fill(t)
  PROVE  Refines
<1> DEFINE c == loc[t]
           g == settled[1][1]
           m == settled[1][2]
<1>1. /\ pc[t] \in {"lg_members", "lg_groups", "lm_count", "lm_fill",
                    "lr_lock", "lr_count", "lr_fill", "ln_count", "ln_fill"}
      /\ UNCHANGED <<disk, counters>>
  BY DEF LG_Members, LG_Groups, LM_Count, LM_Fill, LR_Lock, LR_Count, LR_Fill,
         LN_Count, LN_Fill, Check
<1>2. /\ pc[t] \in Unchanging
      /\ {"lg_groups", "lm_fill", "lr_count", "lr_fill", "ln_fill"} \subseteq Simple
  BY <1>1 DEF Unchanging, Labels, Changing, Simple
<1>3. /\ Caller(pc[t], c) /\ Consistent(g, m) /\ groups = g /\ members = m
      /\ loc \in [Thread -> CallRecord] /\ pc \in [Thread -> Labels]
  BY <1>2, SoFar DEF IInv
<1>4. CASE Return(t)
  BY <1>1, <1>2, <1>4, ReturnsUnchanged
<1>5. ASSUME NEW l \in {"lr_count", "lr_fill", "ln_fill"}, Goto(t, l),
             \A u \in Thread : u # t => loc'[u] = loc[u],
             loc'[t].user = c.user, loc'[t].requester = c.requester, loc'[t].cmd = c.cmd
      PROVE  Refines
  <2>1. Caller(l, loc'[t])
    BY <1>3, <1>5 DEF Caller, ByOneself, Adding
  <2>2. Known(l, loc'[t], g, m)
    BY <1>5 DEF Known, ByOwner, OnOther, OfMember, OfOutsider, Closing
  <2>3. QED BY <1>1, <1>2, <1>5, <2>1, <2>2, ReadsOn
<1>6. ASSUME NEW l \in {"lg_groups", "lm_fill"}, NEW ok, Check(t, pc[t], ok, l)
      PROVE  Refines
  <2>1. Caller(l, c)
    BY <1>3, <1>6 DEF Caller, ByOneself, Adding
  <2>2. Known(l, c, g, m)
    BY <1>6 DEF Known, ByOwner, OnOther, OfMember, OfOutsider, Closing
  <2>3. l \in Simple /\ l \in Labels \ {"idle"}
    BY <1>2, <1>6 DEF Simple, Unchanging
  <2>4. Progress(l, c, g, m, settled[2][1], g, m, settled[2][1])
    BY <2>1, <2>2, <2>3, SimpleProgress
  <2>5. PICK label : label = pc[t] /\ label \in Unchanging
    BY <1>2
  <2> HIDE DEF c, g, m
  <2>6. QED BY <1>6, <2>3, <2>4, <2>5, CheckRefines DEF c, g, m
<1>7. CASE LG_Members(t) \/ LM_Count(t)
  <2>1. \/ \E ok : Check(t, "lg_members", ok, "lg_groups") /\ pc[t] = "lg_members"
        \/ \E ok : Check(t, "lm_count", ok, "lm_fill") /\ pc[t] = "lm_count"
    BY <1>7 DEF LG_Members, LM_Count, Check
  <2>2. QED BY <1>6, <2>1
<1>8. CASE LR_Lock(t)
  BY <1>5, <1>8 DEF LR_Lock
<1>9. CASE LR_Count(t) /\ ~Return(t)
  <2>1. pc[t] = "lr_count"
    BY <1>9 DEF LR_Count
  <2>2. CASE PendingBehind(t) # {}
    <3>1. PICK j, k : /\ loc' = [loc EXCEPT ![t].at = j,
                                            ![t].count = IF Listable(t, k) THEN @ + 1 ELSE @]
                      /\ UNCHANGED pc
      BY <1>9, <2>2 DEF LR_Count
    <3>2. Goto(t, "lr_count")
      BY <1>3, <2>1, <3>1 DEF Goto
    <3>3. /\ \A u \in Thread : u # t => loc'[u] = loc[u]
          /\ loc'[t].user = c.user /\ loc'[t].requester = c.requester
          /\ loc'[t].cmd = c.cmd
      BY <1>3, <3>1 DEF CallRecord
    <3>4. QED BY <1>5, <3>2, <3>3
  <2>3. CASE PendingBehind(t) = {}
    <3>1. loc' = [loc EXCEPT ![t].at = 0] /\ Goto(t, "lr_fill")
      BY <1>9, <2>3 DEF LR_Count
    <3>2. /\ \A u \in Thread : u # t => loc'[u] = loc[u]
          /\ loc'[t].user = c.user /\ loc'[t].requester = c.requester
          /\ loc'[t].cmd = c.cmd
      BY <1>3, <3>1 DEF CallRecord
    <3>3. QED BY <1>5, <3>1, <3>2
  <2>4. QED BY <2>2, <2>3
<1>10. CASE LR_Fill(t) /\ ~Return(t)
  <2>1. PICK j, k : /\ pc[t] = "lr_fill"
                    /\ loc' = [loc EXCEPT ![t].at = j,
                                 ![t].listed = IF Listable(t, k) THEN @ \cup {k} ELSE @]
                    /\ UNCHANGED pc
    BY <1>10 DEF LR_Fill
  <2>2. Goto(t, "lr_fill")
    BY <1>3, <2>1 DEF Goto
  <2>3. /\ \A u \in Thread : u # t => loc'[u] = loc[u]
        /\ loc'[t].user = c.user /\ loc'[t].requester = c.requester
        /\ loc'[t].cmd = c.cmd
    BY <1>3, <2>1 DEF CallRecord
  <2>4. QED BY <1>5, <2>2, <2>3
<1>11. CASE LN_Count(t) /\ ~Return(t)
  <2>1. PICK k : loc' = [loc EXCEPT ![t].count = k] /\ Goto(t, "ln_fill")
    BY <1>11 DEF LN_Count
  <2>2. /\ \A u \in Thread : u # t => loc'[u] = loc[u]
        /\ loc'[t].user = c.user /\ loc'[t].requester = c.requester
        /\ loc'[t].cmd = c.cmd
    BY <1>3, <2>1 DEF CallRecord
  <2>3. QED BY <1>5, <2>1, <2>2
<1>12. CASE LG_Groups(t) \/ LM_Fill(t) \/ LN_Fill(t)
  BY <1>4, <1>12 DEF LG_Groups, LM_Fill, LN_Fill
<1>13. QED BY <1>4, <1>7, <1>8, <1>9, <1>10, <1>11, <1>12

-----------------------------------------------------------------------------
(* The steps of the running call together. *)
LEMMA StepRefines ==
  ASSUME SerialInv, IInv, IInv', NEW t \in Thread, Step(t), Settles
  PROVE  Refines
<1>1. UNCHANGED calls
  BY DEF Step, bounds
<1>2. CASE CG_Load(t) \/ CG_Store(t) \/ CG_Group(t) \/ CG_Member(t)
  BY <1>1, <1>2, CreateRefines
<1>3. CASE \/ AM_Owner(t) \/ AM_Member(t) \/ AM_Append(t)
           \/ AM_ReadGroup(t) \/ AM_WriteGroup(t)
  BY <1>1, <1>3, AddRefines
<1>4. CASE \/ RM_Owner(t) \/ RM_Target(t) \/ LV_Member(t) \/ LV_Info(t) \/ DG_Owner(t)
           \/ TO_Owner(t) \/ TO_Member(t)
           \/ RJ_Member(t) \/ RJ_Owner(t) \/ RJ_Info(t) \/ IV_Owner(t) \/ IV_Member(t)
           \/ LM_Member(t)
  BY <1>1, <1>4, ChecksRefine
<1>5. CASE RM_Read(t) \/ LV_Read(t)
  BY <1>1, <1>5, DropReadRefines
<1>6. CASE RM_Write(t) \/ LV_Write(t)
  BY <1>1, <1>6, DropWriteRefines
<1>7. CASE RM_ReadGroup(t) \/ LV_ReadGroup(t)
  BY <1>1, <1>7, DropCountRefines
<1>8. CASE RM_WriteGroup(t) \/ LV_WriteGroup(t)
  BY <1>1, <1>8, DropEndRefines
<1>9. CASE LV_Owner(t)
  BY <1>1, <1>9, BranchRefines
<1>10. CASE \/ DG_Read(t) \/ DG_Write(t) \/ DG_ReadMember(t) \/ DG_WriteMember(t)
            \/ DG_Next(t) \/ DG_Cut(t)
  BY <1>1, <1>10, CloseReadRefines, CloseWriteRefines, CloseMemberRefines,
     CloseEndedRefines, CloseNextRefines, CloseCutRefines
<1>11. CASE TO_ReadGroup(t) \/ TO_WriteGroup(t) \/ TO_Scan(t) \/ TO_WriteMember(t)
  BY <1>1, <1>11, TransferReadRefines, TransferWriteRefines, ScanRefines,
     TransferEndRefines, TransferStoreRefines
<1>12. CASE RJ_Lock(t) \/ RJ_Append(t)
  BY <1>1, <1>12, JoinRefines
<1>13. CASE DJ_Lock(t) \/ DJ_Info(t) \/ DJ_Write(t)
  BY <1>1, <1>13, RequestReadRefines, RequestDecisionRefines
<1>14. CASE IV_Lock(t) \/ IV_Append(t)
  BY <1>1, <1>14, InviteRefines
<1>15. CASE DI_Lock(t) \/ DI_Info(t) \/ DI_Write(t)
  BY <1>1, <1>15, InviteReadRefines, InviteDecisionRefines
<1>16. CASE \/ LG_Members(t) \/ LG_Groups(t) \/ LM_Count(t) \/ LM_Fill(t)
            \/ LR_Lock(t) \/ LR_Count(t) \/ LR_Fill(t) \/ LN_Count(t) \/ LN_Fill(t)
  BY <1>1, <1>16, ListingsRefine
<1>17. QED
  BY <1>2, <1>3, <1>4, <1>5, <1>6, <1>7, <1>8, <1>9, <1>10, <1>11, <1>12, <1>13, <1>14,
     <1>15, <1>16 DEF Step

(* A call begins. *)
LEMMA CallersFit ==
  ASSUME NEW c \in Calls
  PROVE  /\ c.user \in Account /\ c.requester = c.user
         /\ c.cmd \in {"leave_group", "request_join"} => c.name = c.user
         /\ c.cmd = "invite" => c.name \in Account \ {c.user}
<1>1. ASSUME NEW cmd \in OnNothing \cup {"list_requests"}, NEW u \in Account,
             c = NewCall(cmd, u)
      PROVE  /\ c.user \in Account /\ c.requester = c.user /\ c.name = c.user
             /\ c.cmd # "invite"
  BY <1>1 DEF NewCall, OnNothing
<1>2. ASSUME NEW cmd \in OnGroup, NEW u \in Account, NEW g \in GroupId,
             c = [NewCall(cmd, u) EXCEPT !.gid = g]
      PROVE  /\ c.user \in Account /\ c.requester = c.user /\ c.name = c.user
             /\ c.cmd # "invite"
  BY <1>2 DEF NewCall, OnGroup
<1>3. ASSUME NEW cmd \in OnMember, NEW u \in Account, NEW g \in GroupId, NEW v \in Name,
             c = MemberCall(cmd, u, g, v)
      PROVE  /\ c.user \in Account /\ c.requester = c.user
             /\ c.cmd \notin {"leave_group", "request_join", "invite"}
  BY <1>3 DEF NewCall, MemberCall, OnMember
<1>4. ASSUME NEW u \in Account, NEW g \in GroupId, NEW v \in Account,
             c = MemberCall("invite", u, g, v), c.name # c.user
      PROVE  /\ c.user \in Account /\ c.requester = c.user
             /\ c.cmd = "invite" /\ c.name \in Account \ {c.user}
  BY <1>4 DEF NewCall, MemberCall
<1>5. ASSUME NEW cmd \in OnEntry, NEW u \in Account, NEW i \in EntryId, NEW b \in BOOLEAN,
             c = EntryCall(cmd, u, i, b)
      PROVE  /\ c.user \in Account /\ c.requester = c.user /\ c.name = c.user
             /\ c.cmd # "invite"
  BY <1>5 DEF NewCall, EntryCall, OnEntry
<1>6. \/ c \in {NewCall(cmd, u) : cmd \in OnNothing \cup {"list_requests"}, u \in Account}
      \/ c \in {[NewCall(cmd, u) EXCEPT !.gid = g] :
                   cmd \in OnGroup, u \in Account, g \in GroupId}
      \/ c \in {MemberCall(cmd, u, g, v) :
                   cmd \in OnMember, u \in Account, g \in GroupId, v \in Name}
      \/ /\ c \in {MemberCall("invite", u, g, v) :
                     u \in Account, g \in GroupId, v \in Account}
         /\ c.name # c.user
      \/ c \in {EntryCall(cmd, u, i, b) :
                   cmd \in OnEntry, u \in Account, i \in EntryId, b \in BOOLEAN}
  BY DEF Calls
<1>7. QED BY <1>1, <1>2, <1>3, <1>4, <1>5, <1>6

(* Where the calls begin, nothing is known or needed yet.                  *)
LEMMA EntryLabels ==
  ASSUME NEW cmd \in DOMAIN Entry, NEW l, l = Entry[cmd]
  PROVE  /\ l \in Simple
         /\ l \in ByOneself => cmd \in {"leave_group", "request_join"}
         /\ l \in {"iv_owner", "iv_member", "iv_lock", "iv_append"} => cmd = "invite"
         /\ l \in Adding => cmd \notin OnEntry
         /\ \A c, g, m : Known(l, c, g, m)
<1>1. \/ cmd = "create_group" /\ l = "cg_load"
      \/ cmd = "add_member" /\ l = "am_owner"
      \/ cmd = "remove_member" /\ l = "rm_owner"
      \/ cmd = "leave_group" /\ l = "lv_member"
      \/ cmd = "transfer_owner" /\ l = "to_owner"
      \/ cmd = "request_join" /\ l = "rj_member"
      \/ cmd = "decide_request" /\ l = "dj_lock"
      \/ cmd = "invite" /\ l = "iv_owner"
      \/ cmd = "decide_invite" /\ l = "di_lock"
      \/ cmd = "list_groups" /\ l = "lg_members"
      \/ cmd = "list_members" /\ l = "lm_member"
      \/ cmd = "list_requests" /\ l = "lr_lock"
      \/ cmd = "list_invites" /\ l = "ln_count"
  BY DEF Entry
<1>2. l \in Simple
  BY <1>1 DEF Simple, Unchanging, Labels, Changing
<1>3. \A c, g, m : Known(l, c, g, m)
  BY <1>1 DEF Known, ByOwner, OnOther, OfMember, OfOutsider, Closing
<1>4. QED BY <1>1, <1>2, <1>3 DEF ByOneself, Adding, OnEntry

(* The call takes its place: a stutter of GroupDB.                         *)
LEMMA BeginRefines ==
  ASSUME SerialInv, IInv, Quiet, NEW t \in Thread, Begin(t), Settles
  PROVE  Refines
<1>1. PICK c \in Calls : loc' = [loc EXCEPT ![t] = c] /\ Goto(t, Entry[c.cmd])
  BY DEF Begin, Goto
<1>2. /\ c \in CallRecord /\ c.cmd \in DOMAIN Entry
      /\ c.user \in Account /\ c.requester = c.user
      /\ c.cmd \in {"leave_group", "request_join"} => c.name = c.user
      /\ c.cmd = "invite" => c.name \in Account \ {c.user}
  BY CallsFit, CallersFit
<1>3. PICK l : l = Entry[c.cmd]
  OBVIOUS
<1>4. /\ l \in Simple
      /\ l \in ByOneself => c.cmd \in {"leave_group", "request_join"}
      /\ l \in {"iv_owner", "iv_member", "iv_lock", "iv_append"} => c.cmd = "invite"
      /\ l \in Adding => c.cmd \notin OnEntry
      /\ \A d, g, m : Known(l, d, g, m)
  BY <1>2, <1>3, EntryLabels
<1>5. Caller(l, c)
  BY <1>2, <1>4 DEF Caller
<1>6. l \in Labels /\ l # "idle"
  BY <1>4 DEF Simple, Unchanging
<1>7. OthersStay(t) /\ pc'[t] = l /\ loc'[t] = c
  BY <1>1, <1>2, <1>3, <1>6, NewLocals, DoesOnlyItsOwn
<1>8. \A u \in Thread : u # t => pc'[u] = "idle"
  BY <1>7 DEF OthersStay, Quiet
<1>9. ~Quiet' /\ settled' = settled
  BY <1>6, <1>7 DEF Quiet, Settles
<1>10. /\ UNCHANGED <<groups, members, requests, invites>>
       /\ UNCHANGED <<next_group_id, next_join_request_id, next_invite_id>>
       /\ calls' = calls + 1 /\ calls < MaxCalls
  BY DEF Begin, disk, counters
<1>11. /\ groups = settled[1][1] /\ members = settled[1][2]
       /\ next_group_id = settled[2][1]
  BY DEF SerialInv
<1>12. Progress(l, c, settled[1][1], settled[1][2], settled[2][1],
                groups', members', next_group_id')
  BY <1>4, <1>5, <1>10, <1>11, SimpleProgress
<1>13. \A u \in Thread :
         pc'[u] # "idle" =>
           Progress(pc'[u], loc'[u], settled[1][1], settled[1][2], settled[2][1],
                    groups', members', next_group_id')
  BY <1>7, <1>8, <1>12
<1>14. /\ calls' \in Nat /\ calls' <= MaxCalls
       /\ SizesOK(settled[1][1], settled[1][2], settled[1][3], settled[1][4], calls' - 1)
  <2>1. calls \in Nat /\ MaxCalls \in Nat
    BY BoundsAssumption DEF SerialInv
  <2>2. calls' \in Nat /\ calls' <= MaxCalls /\ calls' - 1 = calls
    BY <1>10, <2>1
  <2>3. SizesOK(settled[1][1], settled[1][2], settled[1][3], settled[1][4], calls)
    BY DEF SerialInv
  <2>4. QED BY <2>2, <2>3
<1>15. OneAtATime'
  BY <1>8 DEF OneAtATime
<1>16. SerialInv'
  BY <1>9, <1>10, <1>13, <1>14, <1>15 DEF SerialInv
<1>17. QED BY <1>9, <1>16 DEF Refines, DB!vars, DB!files, DB!counters

(* A process that stops between calls finds its counters again: ids are    *)
(* positions, so that none is given out twice.                             *)
LEMMA CountersFound ==
  ASSUME NEW g, NEW m, NEW r, NEW v, NEW n1, NEW n2, NEW n3,
         DirectoryOK(g, m, r, v, n1, n2, n3)
  PROVE  FirstGroupId(g) = n1 /\ FirstRequestId(r) = n2 /\ FirstInviteId(v) = n3
<1>1. /\ Len(g) \in Nat /\ DOMAIN g = 1..Len(g) /\ \A i \in DOMAIN g : g[i].group_id = i
      /\ Len(r) \in Nat /\ DOMAIN r = 1..Len(r) /\ \A i \in DOMAIN r : r[i].request_id = i
      /\ Len(v) \in Nat /\ DOMAIN v = 1..Len(v) /\ \A i \in DOMAIN v : v[i].invite_id = i
      /\ n1 = Len(g) + 1 /\ n2 = Len(r) + 1 /\ n3 = Len(v) + 1
  BY DEF DirectoryOK, Consistent, Counted, RequestsOK, InvitesOK
<1>2. /\ {g[k].group_id : k \in DOMAIN g} = 1..Len(g)
      /\ {r[k].request_id : k \in DOMAIN r} = 1..Len(r)
      /\ {v[k].invite_id : k \in DOMAIN v} = 1..Len(v)
  BY <1>1
<1>3. QED BY <1>1, <1>2, NextIdFollows DEF FirstGroupId, FirstRequestId, FirstInviteId

(* So the restart is a stutter of GroupDB.                                 *)
LEMMA CrashRefines ==
  ASSUME SerialInv, Quiet, Crash, Settles
  PROVE  Refines
<1>1. /\ DirectoryOK(groups, members, requests, invites,
                     next_group_id, next_join_request_id, next_invite_id)
      /\ groups = settled[1][1] /\ members = settled[1][2]
      /\ requests = settled[1][3] /\ invites = settled[1][4]
      /\ next_group_id = settled[2][1] /\ next_join_request_id = settled[2][2]
      /\ next_invite_id = settled[2][3]
      /\ SizesOK(groups, members, requests, invites, calls)
      /\ calls \in Nat /\ calls <= MaxCalls
  BY DEF SerialInv
<1>2. /\ next_group_id' = next_group_id
      /\ next_join_request_id' = next_join_request_id
      /\ next_invite_id' = next_invite_id
  BY <1>1, CountersFound DEF Crash
<1>3. /\ UNCHANGED <<groups, members, requests, invites, calls>>
      /\ \A t \in Thread : pc'[t] = "idle"
  BY DEF Crash, disk
<1>4. Quiet' /\ OneAtATime'
  BY <1>3 DEF Quiet, OneAtATime
<1>5. /\ settled'[1][1] = groups' /\ settled'[1][2] = members'
      /\ settled'[1][3] = requests' /\ settled'[1][4] = invites'
      /\ settled'[2][1] = next_group_id'
      /\ settled'[2][2] = next_join_request_id' /\ settled'[2][3] = next_invite_id'
  BY <1>4 DEF Settles, disk, counters
<1>6. SerialInv'
  BY <1>1, <1>2, <1>3, <1>4, <1>5 DEF SerialInv
<1>7. UNCHANGED DB!vars
  BY <1>1, <1>2, <1>3, <1>5 DEF DB!vars, DB!files, DB!counters
<1>8. QED BY <1>6, <1>7 DEF Refines

(* Neither is a step of anything else.                                     *)
LEMMA NothingRefines ==
  ASSUME SerialInv, UNCHANGED <<vars, settled>>
  PROVE  Refines
<1>1. /\ UNCHANGED <<groups, members, requests, invites>>
      /\ UNCHANGED <<next_group_id, next_join_request_id, next_invite_id>>
      /\ UNCHANGED <<pc, loc, calls, settled>>
  BY DEF vars, disk, counters, bounds
<1>2. SerialInv'
  BY <1>1 DEF SerialInv, OneAtATime, Quiet
<1>3. QED BY <1>1, <1>2 DEF Refines, DB!vars, DB!files, DB!counters

-----------------------------------------------------------------------------
(* The specification. *)
LEMMA SerialStart ==
  ASSUME EmptyDirectory, SerialInit
  PROVE  SerialInv /\ DB!Init
<1>1. /\ groups = <<>> /\ members = <<>> /\ requests = <<>> /\ invites = <<>>
      /\ settled = <<disk, counters>> /\ calls = 0
      /\ \A t \in Thread : pc[t] = "idle"
  BY DEF EmptyDirectory, SerialInit, Init
<1>2. DirectoryOK(<<>>, <<>>, <<>>, <<>>, 1, 1, 1)
  <2>1. Consistent(<<>>, <<>>)
    BY DEF Consistent, Counted, Named
  <2>2. RequestsOK(<<>>, 1) /\ InvitesOK(<<>>, 1)
    BY DEF RequestsOK, InvitesOK
  <2>3. QED BY <2>1, <2>2 DEF DirectoryOK
<1>3. next_group_id = 1 /\ next_join_request_id = 1 /\ next_invite_id = 1
  BY <1>1, <1>2, CountersFound DEF SerialInit, Init
<1>4. Quiet /\ OneAtATime
  BY <1>1 DEF Quiet, OneAtATime
<1>5. /\ settled[1][1] = <<>> /\ settled[1][2] = <<>>
      /\ settled[1][3] = <<>> /\ settled[1][4] = <<>>
      /\ settled[2][1] = 1 /\ settled[2][2] = 1 /\ settled[2][3] = 1
  BY <1>1, <1>3 DEF disk, counters
<1>6. SizesOK(<<>>, <<>>, <<>>, <<>>, 0)
  BY DEF SizesOK
<1>7. SerialInv
  BY <1>1, <1>2, <1>3, <1>4, <1>5, <1>6, BoundsAssumption DEF SerialInv
<1>8. QED BY <1>5, <1>7 DEF DB!Init

(* Every step keeps the invariant and is one of GroupDB or a stutter of    *)
(* it.                                                                     *)
LEMMA SerialStep ==
  SerialInv /\ IInv /\ IInv' /\ [SerialNext]_<<vars, settled>> =>
    SerialInv' /\ [DB!Next]_(DB!vars)
<1>1. SUFFICES ASSUME SerialInv, IInv, IInv', [SerialNext]_<<vars, settled>>
               PROVE  Refines
  BY DEF Refines
<1>2. CASE SerialNext
  <2>1. Settles
    BY <1>2 DEF SerialNext, Settles
  <2>2. QED BY <1>1, <1>2, <2>1, CrashRefines, BeginRefines, StepRefines DEF SerialNext
<1>3. CASE UNCHANGED <<vars, settled>>
  BY <1>1, <1>3, NothingRefines
<1>4. QED BY <1>1, <1>2, <1>3

(* Calls one after the other are a case of calls that overlap, so that     *)
(* what GroupServerProofs shows of those holds of them.                    *)
LEMMA SerialIsSpec == SerialSpec => Spec
<1>1. SerialInit => Init
  BY DEF SerialInit
<1>2. [SerialNext]_<<vars, settled>> => [Next]_vars
  BY DEF SerialNext, Next
<1>3. QED BY <1>1, <1>2, PTL DEF SerialSpec, Spec

(* How far the running call has got: the inductive invariant. *)
THEOREM SerialInvariance == EmptyDirectory => (SerialSpec => []SerialInv)
<1>1. SUFFICES ASSUME EmptyDirectory PROVE SerialSpec => []SerialInv
  OBVIOUS
<1>2. SerialInit => SerialInv
  BY <1>1, SerialStart
<1>3. QED
  BY <1>2, SerialStep, SerialIsSpec, Invariance, PTL DEF SerialSpec

(* A call that runs alone has the effect of one atomic step of GroupDB or  *)
(* none, for any number of threads, names, ids, calls and restarts between *)
(* them: the order of its checks and writes makes no difference, and       *)
(* neither do the copies of records that it holds.                         *)
THEOREM CallsAloneAreAtomic == EmptyDirectory => (SerialSpec => CallsAreAtomic)
<1>1. SUFFICES ASSUME EmptyDirectory PROVE SerialSpec => CallsAreAtomic
  OBVIOUS
<1>2. SerialInit => SerialInv /\ DB!Init
  BY <1>1, SerialStart
<1>3. QED
  BY <1>2, SerialStep, SerialIsSpec, Invariance, PTL
     DEF SerialSpec, CallsAreAtomic, DB!Spec

(* Between two calls that did not overlap the directory is in order: every *)
(* count is exact, one that has ended has nobody left, the ids on disk are *)
(* positions, and, if no name has more than 44 characters, nobody is in a  *)
(* group twice and every group that goes on has its owner inside (what     *)
(* Consistent and DirectoryOK say of files).                               *)
THEOREM InOrderBetweenCalls ==
  EmptyDirectory =>
    (SerialSpec => [](Quiet => DirectoryOK(groups, members, requests, invites,
                                           next_group_id, next_join_request_id,
                                           next_invite_id)))
<1>1. SUFFICES ASSUME EmptyDirectory
               PROVE  SerialSpec =>
                        [](Quiet => DirectoryOK(groups, members, requests, invites,
                                                next_group_id, next_join_request_id,
                                                next_invite_id))
  OBVIOUS
<1>2. SerialInv => (Quiet => DirectoryOK(groups, members, requests, invites,
                                         next_group_id, next_join_request_id,
                                         next_invite_id))
  BY DEF SerialInv
<1>3. QED BY <1>1, <1>2, SerialInvariance, PTL
=============================================================================
