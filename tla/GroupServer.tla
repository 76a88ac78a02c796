----------------------------- MODULE GroupServer -----------------------------
(***************************************************************************)
(* server/group_db.c as it runs: one detached thread per connection, the   *)
(* record files shared by all of them, and only join_req_mutex and         *)
(* invite_mutex between them.                                              *)
(*                                                                         *)
(* One step is one access to a file.  A scan reads the file in one go      *)
(* (stdio's buffer holds a small file whole) and a record is written when  *)
(* its stream is closed, so that an update in place is two steps: read the *)
(* record into a local, then write ALL of that copy back at its position.  *)
(* An append is one step (O_APPEND).  Taking a mutex is one step with the  *)
(* scan of the file it guards, releasing it one step with the last access. *)
(*                                                                         *)
(* Opening a file may fail, at the labels of MayFail.  A write to a file   *)
(* that is open is taken to succeed: the code checks no in-place write and *)
(* no fclose, where a full disk would show.                                *)
(*                                                                         *)
(* The process may be killed between any two steps (nothing handles a      *)
(* signal, and a write to a closed socket raises SIGPIPE); what survives   *)
(* is the files.                                                           *)
(*                                                                         *)
(* A definition with a suffix, such as AddFailed_NoUnlock, is the          *)
(* definition it is named after with one plausible mistake in it: the      *)
(* properties are tried against it, and no specification uses it.          *)
(***************************************************************************)
EXTENDS GroupRecords

CONSTANTS
  Account,     (* The registered names; a thread serves a logged-in user.  *)
  Thread,      (* The threads running client_handler.                      *)
  Nobody,      (* The holder of a mutex that is free.                      *)
  Commands,    (* The commands clients send.                               *)
  GroupId,     (* The ids clients put into requests.                       *)
  EntryId,
  MayFail,     (* The labels whose fopen may fail.                         *)
  SeedGroups,  (* The data directory the first process starts from.        *)
  SeedMembers,
  SeedRequests,
  SeedInvites,
  MaxCalls,    (* Bound of the model on the calls clients make.            *)
  MaxCrashes   (* Bound of the model on the crashes of the process.        *)

ASSUME AccountAssumption == Account \subseteq Name
ASSUME NobodyAssumption == Nobody \notin Thread
ASSUME IdAssumption == GroupId \subseteq Nat /\ EntryId \subseteq Nat
ASSUME SeedAssumption ==
  /\ SeedGroups \in Seq(GroupRecordDB)
  /\ SeedMembers \in Seq(MemberRecordDB)
  /\ SeedRequests \in Seq(JoinRequestRecordDB)
  /\ SeedInvites \in Seq(GroupInviteRecordDB)
ASSUME BoundsAssumption == MaxCalls \in Nat /\ MaxCrashes \in Nat

(* What the files say of each other and a directory is left with, however  *)
(* the process ended: members are of groups, and approvals of members.  A  *)
(* name may have been cut since by delete_group's pass.                    *)
HasGroup(g, gid) == \E i \in DOMAIN g : g[i].group_id = gid

HasRecord(m, gid, u) ==
  \E k \in DOMAIN m :
    m[k].group_id = gid /\ Prefix44[m[k].username] = Prefix44[u]

MembersHaveGroups(m, g) == \A k \in DOMAIN m : HasGroup(g, m[k].group_id)

ApprovalsHaveMembers(r, v, m) ==
  /\ \A i \in DOMAIN r :
       r[i].status = Approved => HasRecord(m, r[i].group_id, r[i].requester)
  /\ \A i \in DOMAIN v :
       v[i].status = Approved => HasRecord(m, v[i].group_id, v[i].invitee)

ASSUME DirectoryAssumption ==
  /\ MembersHaveGroups(SeedMembers, SeedGroups)
  /\ ApprovalsHaveMembers(SeedRequests, SeedInvites, SeedMembers)
  /\ \A i \in DOMAIN SeedRequests :
       /\ SeedRequests[i].request_id = i /\ SeedRequests[i].group_id \in GroupId
       /\ \A j \in DOMAIN SeedRequests :
            /\ SeedRequests[i].status = Pending /\ SeedRequests[j].status = Pending
            /\ SeedRequests[i].group_id = SeedRequests[j].group_id
            /\ SeedRequests[i].requester = SeedRequests[j].requester
            => i = j
  /\ \A i \in DOMAIN SeedInvites :
       /\ SeedInvites[i].invite_id = i /\ SeedInvites[i].group_id \in GroupId
       /\ \A j \in DOMAIN SeedInvites :
            /\ SeedInvites[i].status = Pending /\ SeedInvites[j].status = Pending
            /\ SeedInvites[i].group_id = SeedInvites[j].group_id
            /\ SeedInvites[i].invitee = SeedInvites[j].invitee
            => i = j

VARIABLES
  groups, members, requests, invites,    (* The files.                     *)
  next_group_id, next_join_request_id, next_invite_id,
  holder,      (* Who holds join_req_mutex and invite_mutex.               *)
  pc,          (* The next step of each thread, "idle" between requests.   *)
  loc,         (* The arguments and locals of the call of each thread.     *)
  calls,       (* How many calls were made.                                *)
  crashes      (* How often the process was killed.                        *)

disk     == <<groups, members, requests, invites>>
counters == <<next_group_id, next_join_request_id, next_invite_id>>
bounds   == <<calls, crashes>>
vars     == <<disk, counters, holder, pc, loc, bounds>>

Mutex == {"join_req_mutex", "invite_mutex"}

-----------------------------------------------------------------------------
(* The locals of a call.  gid, name and requester are the arguments of the *)
(* function that runs; at and rec are the position and the copy of the     *)
(* record of groups.dat or members.dat being updated; pos and entry those  *)
(* of the join request or invitation being decided; count and listed what  *)
(* the two passes of a listing under a mutex found.                        *)
NoRecord == [group_id |-> 0]

NewCall(cmd, u) ==
  [cmd |-> cmd, user |-> u, gid |-> 0, name |-> u, requester |-> u, id |-> 0,
   approve |-> FALSE, at |-> 0, rec |-> NoRecord, pos |-> 0, entry |-> NoRecord,
   count |-> 0, listed |-> {}]

MemberCall(cmd, u, g, v) == [NewCall(cmd, u) EXCEPT !.gid = g, !.name = v]
EntryCall(cmd, u, i, b)  == [NewCall(cmd, u) EXCEPT !.id = i, !.approve = b]

NoCall == NewCall("none", NoName)

(* Where each command starts. *)
Entry == [create_group |-> "cg_load", add_member |-> "am_owner",
          remove_member |-> "rm_owner", leave_group |-> "lv_member",
          transfer_owner |-> "to_owner", request_join |-> "rj_member",
          decide_request |-> "dj_lock", invite |-> "iv_owner",
          decide_invite |-> "di_lock", list_groups |-> "lg_members",
          list_members |-> "lm_member", list_requests |-> "lr_lock",
          list_invites |-> "ln_count"]

OnNothing == {"create_group", "list_groups", "list_invites"}
OnGroup  == {"leave_group", "request_join", "list_members", "list_requests"}
OnMember == {"add_member", "remove_member", "transfer_owner"}
OnEntry  == {"decide_request", "decide_invite"}

(* The requests of a logged-in user.  handle_invite_user turns away names  *)
(* that are not registered and the inviting user's own.                    *)
Calls ==
  UNION {
    {NewCall(c, u) : c \in OnNothing \cup {"list_requests"}, u \in Account},
    {[NewCall(c, u) EXCEPT !.gid = g] :
       c \in OnGroup, u \in Account, g \in GroupId},
    {MemberCall(c, u, g, v) :
       c \in OnMember, u \in Account, g \in GroupId, v \in Name},
    {k \in {MemberCall("invite", u, g, v) :
              u \in Account, g \in GroupId, v \in Account} : k.name # k.user},
    {EntryCall(c, u, i, b) :
       c \in OnEntry, u \in Account, i \in EntryId, b \in BOOLEAN} }

-----------------------------------------------------------------------------
(* What every process starts with: init_group_db, free mutexes, no calls.  *)
FirstGroupId(file)   == NextIdAfter({file[k].group_id : k \in DOMAIN file})
FirstRequestId(file) == NextIdAfter({file[k].request_id : k \in DOMAIN file})
FirstInviteId(file)  == NextIdAfter({file[k].invite_id : k \in DOMAIN file})

Init ==
  /\ groups = SeedGroups /\ members = SeedMembers
  /\ requests = SeedRequests /\ invites = SeedInvites
  /\ next_group_id = FirstGroupId(groups)
  /\ next_join_request_id = FirstRequestId(requests)
  /\ next_invite_id = FirstInviteId(invites)
  /\ holder = [m \in Mutex |-> Nobody]
  /\ pc = [t \in Thread |-> "idle"]
  /\ loc = [t \in Thread |-> NoCall]
  /\ calls = 0 /\ crashes = 0

Crash ==
  /\ crashes < MaxCrashes
  /\ next_group_id' = FirstGroupId(groups)
  /\ next_join_request_id' = FirstRequestId(requests)
  /\ next_invite_id' = FirstInviteId(invites)
  /\ holder' = [m \in Mutex |-> Nobody]
  /\ pc' = [t \in Thread |-> "idle"]
  /\ loc' = [t \in Thread |-> NoCall]
  /\ crashes' = crashes + 1
  /\ UNCHANGED <<disk, calls>>

Begin(t) ==
  /\ pc[t] = "idle"
  /\ calls < MaxCalls
  /\ \E c \in Calls :
       /\ c.cmd \in Commands
       /\ loc' = [loc EXCEPT ![t] = c]
       /\ pc' = [pc EXCEPT ![t] = Entry[c.cmd]]
  /\ calls' = calls + 1
  /\ UNCHANGED <<disk, counters, holder, crashes>>

-----------------------------------------------------------------------------
(* The pieces of a step. *)
Goto(t, label) == pc' = [pc EXCEPT ![t] = label]

Return(t) ==
  /\ pc' = [pc EXCEPT ![t] = "idle"]
  /\ loc' = [loc EXCEPT ![t] = NoCall]

(* Read a record to update it: remember its position and its new contents. *)
Hold(t, at, rec) == loc' = [loc EXCEPT ![t].at = at, ![t].rec = rec]

Lock(t, m)  == holder[m] = Nobody /\ holder' = [holder EXCEPT ![m] = t]
Unlock(m)   == holder' = [holder EXCEPT ![m] = Nobody]

(* A check that reads a file, holds no mutex and gives up when it fails. *)
Check(t, label, ok, next) ==
  /\ pc[t] = label
  /\ IF ok THEN Goto(t, next) /\ UNCHANGED loc ELSE Return(t)
  /\ UNCHANGED <<disk, counters, holder>>

(* Write the copy in loc back to groups.dat or members.dat. *)
StoreGroup(t, label) ==
  /\ pc[t] = label
  /\ groups' = [groups EXCEPT ![loc[t].at] = loc[t].rec]
  /\ UNCHANGED <<members, requests, invites, counters, holder>>

StoreMember(t, label) ==
  /\ pc[t] = label
  /\ members' = [members EXCEPT ![loc[t].at] = loc[t].rec]
  /\ UNCHANGED <<groups, requests, invites, counters, holder>>

-----------------------------------------------------------------------------
(* create_group.  next_group_id++ is not guarded: a load and a store that  *)
(* other threads' loads and stores come between.                           *)
CG_Load(t) ==
  /\ pc[t] = "cg_load"
  /\ loc' = [loc EXCEPT ![t].gid = next_group_id]
  /\ Goto(t, "cg_store")
  /\ UNCHANGED <<disk, counters, holder>>

CG_Store(t) ==
  /\ pc[t] = "cg_store"
  /\ next_group_id' = loc[t].gid + 1
  /\ Goto(t, "cg_group")
  /\ UNCHANGED <<disk, next_join_request_id, next_invite_id, holder, loc>>

CG_Group_ReadsCounterAgain(t) ==
  /\ pc[t] = "cg_group"
  /\ groups' = Append(groups, NewGroup(next_group_id, loc[t].user))
  /\ Goto(t, "cg_member")
  /\ UNCHANGED <<members, requests, invites, counters, holder, loc>>

CG_Group(t) ==
  /\ pc[t] = "cg_group"
  /\ groups' = Append(groups, NewGroup(loc[t].gid, loc[t].user))
  /\ Goto(t, "cg_member")
  /\ UNCHANGED <<members, requests, invites, counters, holder, loc>>

CG_Member(t) ==
  /\ pc[t] = "cg_member"
  /\ members' = Append(members, NewMember(loc[t].gid, loc[t].user, TRUE))
  /\ Return(t)
  /\ UNCHANGED <<groups, requests, invites, counters, holder>>

-----------------------------------------------------------------------------
(* add_member_to_group, called by handle_add_member without a mutex and by *)
(* the two decisions under theirs.                                         *)
MutexOf == [decide_request |-> "join_req_mutex", decide_invite |-> "invite_mutex"]

AddDone(t) ==
  /\ CASE loc[t].cmd = "decide_request" -> Goto(t, "dj_write") /\ UNCHANGED loc
       [] loc[t].cmd = "decide_invite"  -> Goto(t, "di_write") /\ UNCHANGED loc
       [] OTHER                         -> Return(t)
  /\ UNCHANGED holder

AddFailed_Ignored(t) == AddDone(t)

AddFailed_NoUnlock(t) == Return(t) /\ UNCHANGED holder

AddFailed(t) ==
  /\ Return(t)
  /\ IF loc[t].cmd \in OnEntry THEN Unlock(MutexOf[loc[t].cmd])
                                ELSE UNCHANGED holder

AM_Owner(t) ==
  /\ pc[t] = "am_owner"
  /\ IF IsGroupOwner(groups, loc[t].gid, loc[t].requester)
     THEN Goto(t, "am_member") /\ UNCHANGED <<loc, holder>>
     ELSE AddFailed(t)
  /\ UNCHANGED <<disk, counters>>

AM_Member_NoCheck(t) ==
  /\ pc[t] = "am_member"
  /\ Goto(t, "am_append")
  /\ UNCHANGED <<disk, counters, loc, holder>>

AM_Member_CountAnyway(t) ==
  /\ pc[t] = "am_member"
  /\ Goto(t, IF IsMemberOfGroup(members, loc[t].gid, loc[t].name)
             THEN "am_gread" ELSE "am_append")
  /\ UNCHANGED <<disk, counters, loc, holder>>

AM_Member(t) ==
  /\ pc[t] = "am_member"
  /\ IF IsMemberOfGroup(members, loc[t].gid, loc[t].name)
     THEN AddFailed(t)
     ELSE Goto(t, "am_append") /\ UNCHANGED <<loc, holder>>
  /\ UNCHANGED <<disk, counters>>

AM_Append(t) ==
  /\ pc[t] = "am_append"
  /\ members' = Append(members, NewMember(loc[t].gid, loc[t].name, FALSE))
  /\ Goto(t, "am_gread")
  /\ UNCHANGED <<groups, requests, invites, counters, holder, loc>>

AM_ReadGroup(t) ==
  LET at == ActiveGroupAt(groups, loc[t].gid) IN
  /\ pc[t] = "am_gread"
  /\ IF at = 0
     THEN AddDone(t)
     ELSE /\ Hold(t, at, [groups[at] EXCEPT !.member_count = @ + 1])
          /\ Goto(t, "am_gwrite")
          /\ UNCHANGED holder
  /\ UNCHANGED <<disk, counters>>

AM_WriteGroup(t) ==
  /\ pc[t] = "am_gwrite"
  /\ groups' = [groups EXCEPT ![loc[t].at] = loc[t].rec]
  /\ AddDone(t)
  /\ UNCHANGED <<members, requests, invites, counters>>

-----------------------------------------------------------------------------
(* remove_member_from_group. *)
RM_Owner(t) ==
  Check(t, "rm_owner", IsGroupOwner(groups, loc[t].gid, loc[t].user), "rm_target")

RM_Target(t) ==
  Check(t, "rm_target", ~IsGroupOwner(groups, loc[t].gid, loc[t].name), "rm_read")

ReadMemberToDeactivate_FirstPosition(t, label, next) ==
  LET at == ActiveMemberAt(members, loc[t].gid, loc[t].name) IN
  /\ pc[t] = label
  /\ IF at = 0
     THEN Return(t)
     ELSE Hold(t, 1, [members[at] EXCEPT !.is_active = FALSE]) /\ Goto(t, next)
  /\ UNCHANGED <<disk, counters, holder>>

(* Read the member's active record, to be written back deactivated. *)
ReadMemberToDeactivate(t, label, next) ==
  LET at == ActiveMemberAt(members, loc[t].gid, loc[t].name) IN
  /\ pc[t] = label
  /\ IF at = 0
     THEN Return(t)
     ELSE Hold(t, at, [members[at] EXCEPT !.is_active = FALSE]) /\ Goto(t, next)
  /\ UNCHANGED <<disk, counters, holder>>

RM_Read(t)  == ReadMemberToDeactivate(t, "rm_read", "rm_write")
RM_Write(t) == StoreMember(t, "rm_write") /\ Goto(t, "rm_gread") /\ UNCHANGED loc

RM_ReadGroup(t) ==
  LET at == ActiveGroupAt(groups, loc[t].gid) IN
  /\ pc[t] = "rm_gread"
  /\ IF at = 0
     THEN Return(t)
     ELSE /\ Hold(t, at, [groups[at] EXCEPT !.member_count = @ - 1])
          /\ Goto(t, "rm_gwrite")
  /\ UNCHANGED <<disk, counters, holder>>

RM_WriteGroup(t) == StoreGroup(t, "rm_gwrite") /\ Return(t)

-----------------------------------------------------------------------------
(* leave_group, and delete_group under it. *)
LV_Member(t) ==
  Check(t, "lv_member", IsMemberOfGroup(members, loc[t].gid, loc[t].user), "lv_owner")

LV_Owner(t) ==
  /\ pc[t] = "lv_owner"
  /\ Goto(t, IF IsGroupOwner(groups, loc[t].gid, loc[t].user)
             THEN "lv_info" ELSE "lv_read")
  /\ UNCHANGED <<disk, counters, holder, loc>>

LV_Info_OffByOne(t) ==
  LET at == ActiveGroupAt(groups, loc[t].gid) IN
  Check(t, "lv_info", at # 0 /\ groups[at].member_count <= 2, "dg_owner")

LV_Info(t) ==
  LET at == ActiveGroupAt(groups, loc[t].gid) IN
  Check(t, "lv_info", at # 0 /\ groups[at].member_count <= 1, "dg_owner")

LV_Read(t)  == ReadMemberToDeactivate(t, "lv_read", "lv_write")
LV_Write(t) == StoreMember(t, "lv_write") /\ Goto(t, "lv_gread") /\ UNCHANGED loc

LV_ReadGroup(t) ==
  LET at == ActiveGroupAt(groups, loc[t].gid) IN
  /\ pc[t] = "lv_gread"
  /\ IF at = 0
     THEN Return(t)
     ELSE /\ Hold(t, at, [groups[at] EXCEPT !.member_count = IF @ > 0 THEN @ - 1
                                                            ELSE @])
          /\ Goto(t, "lv_gwrite")
  /\ UNCHANGED <<disk, counters, holder>>

LV_WriteGroup(t) == StoreGroup(t, "lv_gwrite") /\ Return(t)

DG_Owner(t) ==
  Check(t, "dg_owner", IsGroupOwner(groups, loc[t].gid, loc[t].user), "dg_read")

DG_Read(t) ==
  LET at == ActiveGroupAt(groups, loc[t].gid) IN
  /\ pc[t] = "dg_read"
  /\ IF at = 0
     THEN Return(t)
     ELSE Hold(t, at, [groups[at] EXCEPT !.is_active = FALSE]) /\ Goto(t, "dg_write")
  /\ UNCHANGED <<disk, counters, holder>>

DG_Write(t) == StoreGroup(t, "dg_write") /\ Goto(t, "dg_mread") /\ UNCHANGED loc

(* The pass over the members: the record it ends and, misaligned from      *)
(* there on, the name it may cut.                                          *)
DG_ReadMember(t) ==
  LET at == FirstActiveMemberAt(members, loc[t].gid) IN
  /\ pc[t] = "dg_mread"
  /\ IF at = 0
     THEN Return(t)
     ELSE Hold(t, at, [members[at] EXCEPT !.is_active = FALSE]) /\ Goto(t, "dg_mwrite")
  /\ UNCHANGED <<disk, counters, holder>>

DG_WriteMember(t) ==
  StoreMember(t, "dg_mwrite") /\ Goto(t, "dg_next") /\ UNCHANGED loc

DG_Next(t) ==
  LET j == MisreadAt(members, loc[t].gid, loc[t].at) IN
  /\ pc[t] = "dg_next"
  /\ IF j = 0
     THEN Return(t)
     ELSE Hold(t, j, Misread(members, j)) /\ Goto(t, "dg_cut")
  /\ UNCHANGED <<disk, counters, holder>>

DG_Cut(t) ==
  /\ pc[t] = "dg_cut"
  /\ members' = StoreMisread(members, loc[t].at, loc[t].rec)
  /\ Return(t)
  /\ UNCHANGED <<groups, requests, invites, counters, holder>>

-----------------------------------------------------------------------------
(* transfer_group_owner. *)
TO_Owner(t) ==
  Check(t, "to_owner", IsGroupOwner(groups, loc[t].gid, loc[t].user), "to_member")

TO_Member(t) ==
  Check(t, "to_member", IsMemberOfGroup(members, loc[t].gid, loc[t].name), "to_gread")

TO_ReadGroup(t) ==
  LET at == ActiveGroupAt(groups, loc[t].gid) IN
  /\ pc[t] = "to_gread"
  /\ IF at = 0
     THEN Return(t)
     ELSE Hold(t, at, [groups[at] EXCEPT !.owner = loc[t].name]) /\ Goto(t, "to_gwrite")
  /\ UNCHANGED <<disk, counters, holder>>

TO_WriteGroup(t) ==
  /\ StoreGroup(t, "to_gwrite")
  /\ Hold(t, 0, NoRecord)
  /\ Goto(t, "to_scan")

(* The pass over the members: each match is written before the next is     *)
(* read, and the records behind it are read anew.                          *)
RolesBehind(t) ==
  {k \in DOMAIN members :
     /\ k > loc[t].at
     /\ members[k].group_id = loc[t].gid /\ members[k].is_active
     /\ members[k].username \in {loc[t].user, loc[t].name}}

TO_Scan(t) ==
  /\ pc[t] = "to_scan"
  /\ IF RolesBehind(t) = {}
     THEN Return(t)
     ELSE LET at == Min(RolesBehind(t)) IN
          /\ Hold(t, at, RoleAfterTransfer(members[at], loc[t].gid,
                                           loc[t].user, loc[t].name))
          /\ Goto(t, "to_mwrite")
  /\ UNCHANGED <<disk, counters, holder>>

TO_WriteMember(t) ==
  StoreMember(t, "to_mwrite") /\ Goto(t, "to_scan") /\ UNCHANGED loc

-----------------------------------------------------------------------------
(* handle_request_join and create_join_request. *)
RJ_Member(t) ==
  Check(t, "rj_member", ~IsMemberOfGroup(members, loc[t].gid, loc[t].user), "rj_owner")

RJ_Owner(t) ==
  Check(t, "rj_owner", ~IsGroupOwner(groups, loc[t].gid, loc[t].user), "rj_info")

RJ_Info(t) ==
  Check(t, "rj_info", ActiveGroupAt(groups, loc[t].gid) # 0, "rj_lock")

RJ_Lock_NoMutex(t) ==
  /\ pc[t] = "rj_lock"
  /\ IF PendingRequestExists(requests, loc[t].gid, loc[t].user)
     THEN Return(t)
     ELSE Goto(t, "rj_append") /\ UNCHANGED loc
  /\ UNCHANGED <<disk, counters, holder>>

RJ_Lock(t) ==
  /\ pc[t] = "rj_lock"
  /\ holder["join_req_mutex"] = Nobody
  /\ IF PendingRequestExists(requests, loc[t].gid, loc[t].user)
     THEN Return(t) /\ UNCHANGED holder
     ELSE Lock(t, "join_req_mutex") /\ Goto(t, "rj_append") /\ UNCHANGED loc
  /\ UNCHANGED <<disk, counters>>

RJ_Append(t) ==
  /\ pc[t] = "rj_append"
  /\ requests' = Append(requests, NewRequest(next_join_request_id, loc[t].gid,
                                             loc[t].user))
  /\ next_join_request_id' = next_join_request_id + 1
  /\ Unlock("join_req_mutex") /\ Return(t)
  /\ UNCHANGED <<groups, members, invites, next_group_id, next_invite_id>>

DJ_Lock_NoMutex(t) ==
  LET at == RequestAt(requests, loc[t].id) IN
  /\ pc[t] = "dj_lock"
  /\ IF at = 0
     THEN Return(t)
     ELSE /\ loc' = [loc EXCEPT ![t].pos = at, ![t].entry = requests[at],
                                ![t].gid = requests[at].group_id,
                                ![t].name = requests[at].requester]
          /\ Goto(t, "dj_info")
  /\ UNCHANGED <<disk, counters, holder>>

(* decide_join_request. *)
DJ_Lock(t) ==
  LET at == RequestAt(requests, loc[t].id) IN
  /\ pc[t] = "dj_lock"
  /\ holder["join_req_mutex"] = Nobody
  /\ IF at = 0
     THEN Return(t) /\ UNCHANGED holder
     ELSE /\ Lock(t, "join_req_mutex")
          /\ loc' = [loc EXCEPT ![t].pos = at, ![t].entry = requests[at],
                                ![t].gid = requests[at].group_id,
                                ![t].name = requests[at].requester]
          /\ Goto(t, "dj_info")
  /\ UNCHANGED <<disk, counters>>

DJ_Info(t) ==
  /\ pc[t] = "dj_info"
  /\ IF /\ IsGroupOwner(groups, loc[t].gid, loc[t].user)
        /\ loc[t].entry.status = Pending
     THEN Goto(t, IF loc[t].approve THEN "am_owner" ELSE "dj_write")
          /\ UNCHANGED <<loc, holder>>
     ELSE Return(t) /\ Unlock("join_req_mutex")
  /\ UNCHANGED <<disk, counters>>

Decided(t) ==
  [loc[t].entry EXCEPT !.status = IF loc[t].approve THEN Approved ELSE Rejected,
                       !.reviewed_by = loc[t].user]

DJ_Write(t) ==
  /\ pc[t] = "dj_write"
  /\ requests' = [requests EXCEPT ![loc[t].pos] = Decided(t)]
  /\ Unlock("join_req_mutex") /\ Return(t)
  /\ UNCHANGED <<groups, members, invites, counters>>

-----------------------------------------------------------------------------
(* create_group_invite. *)
IV_Owner(t) ==
  Check(t, "iv_owner", IsGroupOwner(groups, loc[t].gid, loc[t].user), "iv_member")

IV_Member(t) ==
  Check(t, "iv_member", ~IsMemberOfGroup(members, loc[t].gid, loc[t].name), "iv_lock")

IV_Lock(t) ==
  /\ pc[t] = "iv_lock"
  /\ holder["invite_mutex"] = Nobody
  /\ IF PendingInviteExists(invites, loc[t].gid, loc[t].name)
     THEN Return(t) /\ UNCHANGED holder
     ELSE Lock(t, "invite_mutex") /\ Goto(t, "iv_append") /\ UNCHANGED loc
  /\ UNCHANGED <<disk, counters>>

IV_Append(t) ==
  /\ pc[t] = "iv_append"
  /\ invites' = Append(invites, NewInvite(next_invite_id, loc[t].gid, loc[t].user,
                                          loc[t].name))
  /\ next_invite_id' = next_invite_id + 1
  /\ Unlock("invite_mutex") /\ Return(t)
  /\ UNCHANGED <<groups, members, requests, next_group_id, next_join_request_id>>

DI_Lock_AnyStatus(t) ==
  LET at == InviteAt(invites, loc[t].id) IN
  /\ pc[t] = "di_lock"
  /\ holder["invite_mutex"] = Nobody
  /\ IF at # 0 /\ invites[at].invitee = loc[t].user
     THEN /\ Lock(t, "invite_mutex")
          /\ loc' = [loc EXCEPT ![t].pos = at, ![t].entry = invites[at],
                                ![t].gid = invites[at].group_id]
          /\ Goto(t, "di_info")
     ELSE Return(t) /\ UNCHANGED holder
  /\ UNCHANGED <<disk, counters>>

(* decide_invitation.  The member is added in the name of the owner that   *)
(* get_group_info reads, which add_member_to_group checks once more.       *)
DI_Lock(t) ==
  LET at == InviteAt(invites, loc[t].id) IN
  /\ pc[t] = "di_lock"
  /\ holder["invite_mutex"] = Nobody
  /\ IF at # 0 /\ invites[at].invitee = loc[t].user /\ invites[at].status = Pending
     THEN /\ Lock(t, "invite_mutex")
          /\ loc' = [loc EXCEPT ![t].pos = at, ![t].entry = invites[at],
                                ![t].gid = invites[at].group_id]
          /\ Goto(t, "di_info")
     ELSE Return(t) /\ UNCHANGED holder
  /\ UNCHANGED <<disk, counters>>

DI_Info(t) ==
  LET at == ActiveGroupAt(groups, loc[t].gid) IN
  /\ pc[t] = "di_info"
  /\ IF at = 0
     THEN Return(t) /\ Unlock("invite_mutex")
     ELSE /\ loc' = [loc EXCEPT ![t].requester = groups[at].owner]
          /\ Goto(t, IF loc[t].approve THEN "am_owner" ELSE "di_write")
          /\ UNCHANGED holder
  /\ UNCHANGED <<disk, counters>>

DI_Write(t) ==
  /\ pc[t] = "di_write"
  /\ invites' = [invites EXCEPT ![loc[t].pos] = Decided(t)]
  /\ Unlock("invite_mutex") /\ Return(t)
  /\ UNCHANGED <<groups, members, requests, counters>>

-----------------------------------------------------------------------------
(* The listings change no file.  get_user_groups reads members.dat and     *)
(* then groups.dat; the other three read their file twice, once to count   *)
(* the records and once to copy them into the array allocated in between.  *)
(* The arrays are left out: those that two listings fill without a mutex   *)
(* are too small if a member is added between their passes.                *)
LG_Members(t) ==
  Check(t, "lg_members",
        \E k \in DOMAIN members :
          members[k].username = loc[t].user /\ members[k].is_active,
        "lg_groups")

LG_Groups(t) ==
  /\ pc[t] = "lg_groups"
  /\ Return(t)
  /\ UNCHANGED <<disk, counters, holder>>

LM_Member(t) ==
  Check(t, "lm_member", IsMemberOfGroup(members, loc[t].gid, loc[t].user), "lm_count")

LM_Count(t) ==
  Check(t, "lm_count", ActiveMembers(members, loc[t].gid) # {}, "lm_fill")

LM_Fill(t) ==
  /\ pc[t] = "lm_fill"
  /\ Return(t)
  /\ UNCHANGED <<disk, counters, holder>>

(* list_join_requests_for_owner asks get_group_info about each pending     *)
(* request, in both passes; gid = 0 stands for all groups.                 *)
PendingBehind(t) ==
  {k \in DOMAIN requests : k > loc[t].at /\ requests[k].status = Pending}

Listable(t, k) ==
  /\ IsGroupOwner(groups, requests[k].group_id, loc[t].user)
  /\ loc[t].gid \in {0, requests[k].group_id}

LR_Lock_NoMutex(t) ==
  /\ pc[t] = "lr_lock"
  /\ Goto(t, "lr_count")
  /\ UNCHANGED <<disk, counters, holder, loc>>

LR_Lock(t) ==
  /\ pc[t] = "lr_lock"
  /\ Lock(t, "join_req_mutex")
  /\ Goto(t, "lr_count")
  /\ UNCHANGED <<disk, counters, loc>>

LR_Count(t) ==
  /\ pc[t] = "lr_count"
  /\ IF PendingBehind(t) # {}
     THEN LET k == Min(PendingBehind(t)) IN
          /\ loc' = [loc EXCEPT ![t].at = k,
                                ![t].count = IF Listable(t, k) THEN @ + 1 ELSE @]
          /\ UNCHANGED <<pc, holder>>
     ELSE IF loc[t].count = 0
     THEN Return(t) /\ Unlock("join_req_mutex")
     ELSE loc' = [loc EXCEPT ![t].at = 0] /\ Goto(t, "lr_fill") /\ UNCHANGED holder
  /\ UNCHANGED <<disk, counters>>

LR_Fill(t) ==
  /\ pc[t] = "lr_fill"
  /\ IF PendingBehind(t) # {} /\ Cardinality(loc[t].listed) < loc[t].count
     THEN LET k == Min(PendingBehind(t)) IN
          /\ loc' = [loc EXCEPT ![t].at = k,
                                ![t].listed = IF Listable(t, k) THEN @ \cup {k} ELSE @]
          /\ UNCHANGED <<pc, holder>>
     ELSE Return(t) /\ Unlock("join_req_mutex")
  /\ UNCHANGED <<disk, counters>>

InvitesFor(u) ==
  {k \in DOMAIN invites : invites[k].status = Pending /\ invites[k].invitee = u}

LN_Count(t) ==
  /\ pc[t] = "ln_count"
  /\ holder["invite_mutex"] = Nobody
  /\ IF InvitesFor(loc[t].user) = {}
     THEN Return(t) /\ UNCHANGED holder
     ELSE /\ Lock(t, "invite_mutex")
          /\ loc' = [loc EXCEPT ![t].count = Cardinality(InvitesFor(loc[t].user))]
          /\ Goto(t, "ln_fill")
  /\ UNCHANGED <<disk, counters>>

LN_Fill(t) ==
  /\ pc[t] = "ln_fill"
  /\ Unlock("invite_mutex") /\ Return(t)
  /\ UNCHANGED <<disk, counters>>

-----------------------------------------------------------------------------
(* A file that cannot be opened, for want of a descriptor or of memory.    *)

(* The call gives up and holds no mutex. *)
OpenOrReturn ==
  {"cg_group", "cg_member", "rm_owner", "rm_read", "rm_gread", "lv_member",
   "lv_info", "lv_read", "lv_gread", "dg_owner", "dg_read", "dg_mread",
   "to_owner", "to_member", "to_gread", "rj_info", "iv_owner",
   "lg_members", "lg_groups", "lm_member", "lm_count"}

(* It gives up where it has just taken the mutex ... *)
OpenAfterLock ==
  [rj_lock |-> "join_req_mutex", dj_lock |-> "join_req_mutex",
   lr_lock |-> "join_req_mutex", iv_lock |-> "invite_mutex",
   di_lock |-> "invite_mutex", ln_count |-> "invite_mutex"]

(* ... or inside the critical section. *)
OpenInside ==
  [rj_append |-> "join_req_mutex", dj_info |-> "join_req_mutex",
   iv_append |-> "invite_mutex", di_info |-> "invite_mutex"]

(* is_group_owner and is_member_of_group answer "no", which lets some of   *)
(* their callers go on.                                                    *)
OpenOrNo ==
  [am_member |-> "am_append", rm_target |-> "rm_read", lv_owner |-> "lv_read",
   rj_member |-> "rj_owner", rj_owner |-> "rj_info", iv_member |-> "iv_lock"]

OpenFailsInside_KeepsMutex(t) ==
  pc[t] \in DOMAIN OpenInside /\ Return(t) /\ UNCHANGED holder

OpenFailsInside(t) ==
  pc[t] \in DOMAIN OpenInside /\ Return(t) /\ Unlock(OpenInside[pc[t]])

OpenFails(t) ==
  /\ pc[t] \in MayFail
  /\ \/ pc[t] \in OpenOrReturn /\ Return(t) /\ UNCHANGED holder
     \/ pc[t] = "to_scan" /\ loc[t].at = 0 /\ Return(t) /\ UNCHANGED holder
     \/ /\ pc[t] \in DOMAIN OpenAfterLock /\ holder[OpenAfterLock[pc[t]]] = Nobody
        /\ Return(t) /\ UNCHANGED holder
     \/ OpenFailsInside(t)
     \/ pc[t] \in {"am_owner", "am_append"} /\ AddFailed(t)
     \/ pc[t] = "am_gread" /\ AddDone(t)
     \/ /\ pc[t] \in DOMAIN OpenOrNo
        /\ Goto(t, OpenOrNo[pc[t]]) /\ UNCHANGED <<loc, holder>>
     \/ /\ pc[t] \in {"lr_count", "lr_fill"} /\ PendingBehind(t) # {}
        /\ pc[t] = "lr_fill" => Cardinality(loc[t].listed) < loc[t].count
        /\ loc' = [loc EXCEPT ![t].at = Min(PendingBehind(t))]
        /\ UNCHANGED <<pc, holder>>
  /\ UNCHANGED <<disk, counters, bounds>>

-----------------------------------------------------------------------------
Step(t) ==
  /\ \/ CG_Load(t) \/ CG_Store(t) \/ CG_Group(t) \/ CG_Member(t)
     \/ AM_Owner(t) \/ AM_Member(t) \/ AM_Append(t)
     \/ AM_ReadGroup(t) \/ AM_WriteGroup(t)
     \/ RM_Owner(t) \/ RM_Target(t) \/ RM_Read(t) \/ RM_Write(t)
     \/ RM_ReadGroup(t) \/ RM_WriteGroup(t)
     \/ LV_Member(t) \/ LV_Owner(t) \/ LV_Info(t) \/ LV_Read(t) \/ LV_Write(t)
     \/ LV_ReadGroup(t) \/ LV_WriteGroup(t)
     \/ DG_Owner(t) \/ DG_Read(t) \/ DG_Write(t)
     \/ DG_ReadMember(t) \/ DG_WriteMember(t) \/ DG_Next(t) \/ DG_Cut(t)
     \/ TO_Owner(t) \/ TO_Member(t) \/ TO_ReadGroup(t) \/ TO_WriteGroup(t)
     \/ TO_Scan(t) \/ TO_WriteMember(t)
     \/ RJ_Member(t) \/ RJ_Owner(t) \/ RJ_Info(t) \/ RJ_Lock(t) \/ RJ_Append(t)
     \/ DJ_Lock(t) \/ DJ_Info(t) \/ DJ_Write(t)
     \/ IV_Owner(t) \/ IV_Member(t) \/ IV_Lock(t) \/ IV_Append(t)
     \/ DI_Lock(t) \/ DI_Info(t) \/ DI_Write(t)
     \/ LG_Members(t) \/ LG_Groups(t)
     \/ LM_Member(t) \/ LM_Count(t) \/ LM_Fill(t)
     \/ LR_Lock(t) \/ LR_Count(t) \/ LR_Fill(t) \/ LN_Count(t) \/ LN_Fill(t)
  /\ UNCHANGED bounds

Next == Crash \/ \E t \in Thread : Begin(t) \/ Step(t) \/ OpenFails(t)

Spec == Init /\ [][Next]_vars

(* A thread that can run does: the scheduler starves nobody.  Nothing      *)
(* makes a client send a request, or a waiting thread get the mutex before *)
(* another one.                                                            *)
FairSpec == Spec /\ \A t \in Thread : WF_vars(Step(t))

-----------------------------------------------------------------------------
Labels == {"idle", "cg_load", "cg_store", "cg_group", "cg_member",
           "am_owner", "am_member", "am_append", "am_gread", "am_gwrite",
           "rm_owner", "rm_target", "rm_read", "rm_write", "rm_gread", "rm_gwrite",
           "lv_member", "lv_owner", "lv_info", "lv_read", "lv_write", "lv_gread",
           "lv_gwrite", "dg_owner", "dg_read", "dg_write", "dg_mread", "dg_mwrite",
           "dg_next", "dg_cut",
           "to_owner", "to_member", "to_gread", "to_gwrite", "to_scan", "to_mwrite",
           "rj_member", "rj_owner", "rj_info", "rj_lock", "rj_append",
           "dj_lock", "dj_info", "dj_write", "iv_owner", "iv_member", "iv_lock",
           "iv_append", "di_lock", "di_info", "di_write",
           "lg_members", "lg_groups", "lm_member", "lm_count", "lm_fill",
           "lr_lock", "lr_count", "lr_fill", "ln_count", "ln_fill"}

Adding == {"am_owner", "am_member", "am_append", "am_gread", "am_gwrite"}

(* Inside the critical sections of the two mutexes. *)
DecidingRequest(t) ==
  \/ pc[t] \in {"dj_info", "dj_write"}
  \/ pc[t] \in Adding /\ loc[t].cmd = "decide_request"
DecidingInvite(t) ==
  \/ pc[t] \in {"di_info", "di_write"}
  \/ pc[t] \in Adding /\ loc[t].cmd = "decide_invite"

InRequests(t) == DecidingRequest(t) \/ pc[t] \in {"rj_append", "lr_count", "lr_fill"}
InInvites(t)  == DecidingInvite(t) \/ pc[t] \in {"iv_append", "ln_fill"}

(* The files hold whole records, and a mutex is held by the one thread     *)
(* that is between its lock and its unlock.                                *)
TypeOK ==
  /\ groups \in Seq(GroupRecordDB)
  /\ members \in Seq(MemberRecordDB)
  /\ requests \in Seq(JoinRequestRecordDB)
  /\ invites \in Seq(GroupInviteRecordDB)
  /\ {next_group_id, next_join_request_id, next_invite_id} \subseteq Nat \ {0}
  /\ pc \in [Thread -> Labels]
  /\ holder \in [Mutex -> Thread \cup {Nobody}]
  /\ \A t \in Thread : InRequests(t) <=> holder["join_req_mutex"] = t
  /\ \A t \in Thread : InInvites(t) <=> holder["invite_mutex"] = t

(* A decision writes back the whole entry it read before it checked the    *)
(* owner and added the member.  Nobody changed the entry in between: what  *)
(* is written back is still what the file holds (decide_join_request,      *)
(* decide_invitation).                                                     *)
EntryIsCurrent ==
  \A t \in Thread :
    /\ DecidingRequest(t) =>
         loc[t].pos \in DOMAIN requests /\ requests[loc[t].pos] = loc[t].entry
    /\ DecidingInvite(t) =>
         loc[t].pos \in DOMAIN invites /\ invites[loc[t].pos] = loc[t].entry

(* The two listings that hold a mutex show what the file says when they    *)
(* end: no request is decided while it is being listed, and the second     *)
(* pass over the invitations finds as many as the first made room for      *)
(* (list_join_requests_for_owner, list_invites_for_user).                  *)
PendingListsAreCurrent ==
  \A t \in Thread :
    /\ pc[t] = "lr_fill" =>
         \A k \in loc[t].listed : k \in DOMAIN requests /\ requests[k].status = Pending
    /\ pc[t] = "ln_fill" => loc[t].count = Cardinality(InvitesFor(loc[t].user))

(* An approved request or an accepted invitation has led to a membership:  *)
(* whatever the order of the threads and wherever the process was killed,  *)
(* the member record is on disk before the decision is.                    *)
ApprovedHasMember == ApprovalsHaveMembers(requests, invites, members)

(* No member record is of a group that is not on disk, also when the       *)
(* process is killed inside create_group.                                  *)
NoOrphanMember == MembersHaveGroups(members, groups)

(* Updates in place hit the record they were made from: files only grow,   *)
(* and no stale copy is written over another group's, member's or entry's  *)
(* record.  A member's name keeps its first 44 characters and no more: the *)
(* misaligned pass of delete_group cuts the rest, and a copy read earlier  *)
(* brings it back.                                                         *)
RecordsKeepIdentity ==
  [][/\ \A i \in DOMAIN groups :
          i \in DOMAIN groups' /\ groups'[i].group_id = groups[i].group_id
     /\ \A i \in DOMAIN members :
          /\ i \in DOMAIN members'
          /\ members'[i].group_id = members[i].group_id
          /\ Prefix44[members'[i].username] = Prefix44[members[i].username]
     /\ \A i \in DOMAIN requests :
          /\ i \in DOMAIN requests'
          /\ requests'[i].request_id = requests[i].request_id
          /\ requests'[i].requester = requests[i].requester
     /\ \A i \in DOMAIN invites :
          /\ i \in DOMAIN invites'
          /\ invites'[i].invite_id = invites[i].invite_id
          /\ invites'[i].invitee = invites[i].invitee]_vars

(* Every path out of a critical section unlocks, the early returns of the  *)
(* two decisions included: a thread that holds a mutex gives it back.      *)
MutexIsReleased ==
  \A t \in Thread, m \in Mutex : holder[m] = t ~> holder[m] # t

(* Nobody is an active member of a group twice ("already a member",        *)
(* add_member_to_group).  It holds while all additions are approvals of    *)
(* join requests, which exclude one another.                               *)
OneActiveMembership ==
  \A i, j \in DOMAIN members :
    /\ members[i].is_active /\ members[j].is_active
    /\ members[i].group_id = members[j].group_id
    /\ members[i].username = members[j].username
    => i = j

(* member_count is never more than the active members: an approval adds    *)
(* the record first and counts it after, and a crash in between can only   *)
(* lose the count.  It holds while members only join.                      *)
CountNeverOverstates ==
  \A i \in DOMAIN groups :
    groups[i].is_active =>
      groups[i].member_count <= Cardinality(ActiveMembers(members, groups[i].group_id))

-----------------------------------------------------------------------------
(* Join requests and invitations each are a RequestBook, under all         *)
(* interleavings and across crashes: ids without gap or repetition, one    *)
(* entry waiting for each user and group, decisions made once.             *)
JoinRequests == INSTANCE RequestBook WITH
  book <- [i \in DOMAIN requests |->
             [id |-> requests[i].request_id, group_id |-> requests[i].group_id,
              who |-> requests[i].requester, status |-> requests[i].status,
              reviewed_by |-> requests[i].reviewed_by]]

Invitations == INSTANCE RequestBook WITH
  book <- [i \in DOMAIN invites |->
             [id |-> invites[i].invite_id, group_id |-> invites[i].group_id,
              who |-> invites[i].invitee, status |-> invites[i].status,
              reviewed_by |-> invites[i].reviewed_by]]

(* create_join_request and decide_join_request implement the book. *)
JoinRequestsAreABook == JoinRequests!Spec

(* create_group_invite and decide_invitation implement the book. *)
InvitationsAreABook == Invitations!Spec

-----------------------------------------------------------------------------
(* Two more properties, which the missing locks break.                    *)

(* "The owner leaves only when nobody is left in the group (or after a     *)
(* transfer)": a group is deleted only while its owner is its one active   *)
(* member (the comment on leave_group).                                    *)
OwnerLeavesLast ==
  [][\A i \in DOMAIN groups :
       groups[i].is_active /\ ~groups'[i].is_active =>
         \A j \in ActiveMembers(members, groups[i].group_id) :
           members[j].username = groups[i].owner]_vars

(* Each group is created under an id of its own (the comment on the        *)
(* largest id in init_group_db).                                           *)
GroupIdsAreUnique ==
  \A i, j \in DOMAIN groups : groups[i].group_id = groups[j].group_id => i = j
=============================================================================
