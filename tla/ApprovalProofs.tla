--------------------------- MODULE ApprovalProofs ---------------------------
(***************************************************************************)
(* What join_req_mutex is enough for.  While nobody comes in but by an     *)
(* approved join request, and nobody goes, all additions run inside of one *)
(* mutex: nobody gets two active records, and member_count is never more   *)
(* than the members, with any number of threads, calls and crashes.  (The  *)
(* run two_mutexes shows what a second way in, with its own mutex, does.)  *)
(***************************************************************************)
EXTENDS GroupServerProofs

(* The calls that change groups or members in another way. *)
OtherChanges == {"create_group", "add_member", "remove_member", "leave_group",
                 "transfer_owner", "decide_invite"}

(* Where a thread is that makes none of them, outside of an approval. *)
JoinLabels == {"idle", "rj_member", "rj_owner", "rj_info", "rj_lock", "rj_append",
               "dj_lock", "dj_info", "dj_write", "iv_owner", "iv_member", "iv_lock",
               "iv_append", "lg_members", "lg_groups", "lm_member", "lm_count",
               "lm_fill", "lr_lock", "lr_count", "lr_fill", "ln_count", "ln_fill"}

OneActive(m) ==
  \A i, j \in DOMAIN m :
    /\ m[i].is_active /\ m[j].is_active
    /\ m[i].group_id = m[j].group_id /\ m[i].username = m[j].username
    => i = j

NeverOverstated(g, m) ==
  \A i \in DOMAIN g :
    g[i].is_active => g[i].member_count <= Cardinality(ActiveMembers(m, g[i].group_id))

(* The group has a member more than it counts. *)
RoomToCount(g, m, gid) ==
  \A i \in DOMAIN g :
    g[i].is_active /\ g[i].group_id = gid =>
      g[i].member_count + 1 <= Cardinality(ActiveMembers(m, gid))

NoActiveMember(m, gid, name) ==
  \A k \in DOMAIN m :
    ~(m[k].group_id = gid /\ m[k].username = name /\ m[k].is_active)

JoinFit(g, m, l, c) ==
  /\ l \in JoinLabels \/ Deciding(l, c, "decide_request")
  /\ l = "am_append" => NoActiveMember(m, c.gid, c.name)
  /\ l = "am_gread" => RoomToCount(g, m, c.gid)
  /\ l = "am_gwrite" =>
       /\ c.rec.group_id = c.gid
       /\ c.rec.member_count <= Cardinality(ActiveMembers(m, c.gid))

JoinInv ==
  /\ OneActive(members) /\ NeverOverstated(groups, members)
  /\ \A t \in Thread : JoinFit(groups, members, pc[t], loc[t])

(* The seeds of a directory in which nothing is wrong yet, and a server    *)
(* that can always look for the member it is about to add.                 *)
OnlyApprovals ==
  /\ Commands \cap OtherChanges = {} /\ "am_member" \notin MayFail
  /\ OneActive(SeedMembers) /\ NeverOverstated(SeedGroups, SeedMembers)

-----------------------------------------------------------------------------
LEMMA JoinLabelsFit ==
  ASSUME NEW l \in JoinLabels, NEW c, NEW g, NEW m
  PROVE  JoinFit(g, m, l, c) /\ l \notin Adding
BY DEF JoinFit, JoinLabels, Adding

LEMMA QuietStep ==
  ASSUME JoinInv, NEW t \in Thread, OthersStay(t), UNCHANGED <<groups, members>>,
         JoinFit(groups, members, pc'[t], loc'[t])
  PROVE  JoinInv'
<1>1. ASSUME NEW u \in Thread
      PROVE  JoinFit(groups, members, pc'[u], loc'[u])
  <2>1. CASE u = t
    BY <2>1
  <2>2. CASE u # t
    BY <2>2 DEF JoinInv, OthersStay
  <2>3. QED BY <2>1, <2>2
<1>2. QED BY <1>1 DEF JoinInv

(* While a thread adds a member, no other one does. *)
LEMMA AddingAlone ==
  ASSUME IInv, JoinInv, NEW t \in Thread, pc[t] \in Adding,
         NEW u \in Thread, u # t
  PROVE  pc[u] \in JoinLabels
<1>1. InReq(pc[t], loc[t])
  BY JoinLabelsFit DEF JoinInv, JoinFit, InReq
<1>2. ~InReq(pc[u], loc[u])
  BY <1>1 DEF IInv, MutexesFit
<1>3. QED BY <1>2 DEF JoinInv, JoinFit, InReq

LEMMA AddingStep ==
  ASSUME IInv, JoinInv, NEW t \in Thread, pc[t] \in Adding, OthersStay(t),
         OneActive(members'), NeverOverstated(groups', members'),
         JoinFit(groups', members', pc'[t], loc'[t])
  PROVE  JoinInv'
<1>1. ASSUME NEW u \in Thread
      PROVE  JoinFit(groups', members', pc'[u], loc'[u])
  <2>1. CASE u = t
    BY <2>1
  <2>2. CASE u # t
    <3>1. pc'[u] \in JoinLabels
      BY <2>2, AddingAlone DEF OthersStay
    <3>2. QED BY <3>1, JoinLabelsFit
  <2>3. QED BY <2>1, <2>2
<1>2. QED BY <1>1 DEF JoinInv

-----------------------------------------------------------------------------
(* The calls that are not made are nowhere under way. *)
LEMMA OthersAreNotMade ==
  ASSUME JoinInv, NEW t \in Thread
  PROVE  /\ ~(CG_Load(t) \/ CG_Store(t) \/ CG_Group(t) \/ CG_Member(t))
         /\ ~(\/ RM_Owner(t) \/ RM_Target(t) \/ RM_Read(t) \/ RM_Write(t)
              \/ RM_ReadGroup(t) \/ RM_WriteGroup(t))
         /\ ~(\/ LV_Member(t) \/ LV_Owner(t) \/ LV_Info(t) \/ LV_Read(t) \/ LV_Write(t)
              \/ LV_ReadGroup(t) \/ LV_WriteGroup(t))
         /\ ~(\/ DG_Owner(t) \/ DG_Read(t) \/ DG_Write(t)
              \/ DG_ReadMember(t) \/ DG_WriteMember(t) \/ DG_Next(t) \/ DG_Cut(t))
         /\ ~(\/ TO_Owner(t) \/ TO_Member(t) \/ TO_ReadGroup(t) \/ TO_WriteGroup(t)
              \/ TO_Scan(t) \/ TO_WriteMember(t))
         /\ ~(DI_Lock(t) \/ DI_Info(t) \/ DI_Write(t))
<1>1. pc[t] \in JoinLabels \cup Adding
  BY DEF JoinInv, JoinFit, Deciding
<1>2. pc[t] \notin {"cg_load", "cg_store", "cg_group", "cg_member",
                    "rm_owner", "rm_target", "rm_read", "rm_write", "rm_gread",
                    "rm_gwrite"}
  BY <1>1 DEF JoinLabels, Adding
<1>3. pc[t] \notin {"lv_member", "lv_owner", "lv_info", "lv_read", "lv_write",
                    "lv_gread", "lv_gwrite", "dg_owner", "dg_read", "dg_write",
                    "dg_mread", "dg_mwrite", "dg_next", "dg_cut"}
  BY <1>1 DEF JoinLabels, Adding
<1>4. pc[t] \notin {"to_owner", "to_member", "to_gread", "to_gwrite", "to_scan",
                    "to_mwrite", "di_lock", "di_info", "di_write"}
  BY <1>1 DEF JoinLabels, Adding
<1>5. /\ ~(CG_Load(t) \/ CG_Store(t) \/ CG_Group(t) \/ CG_Member(t))
      /\ ~(\/ RM_Owner(t) \/ RM_Target(t) \/ RM_Read(t) \/ RM_Write(t)
           \/ RM_ReadGroup(t) \/ RM_WriteGroup(t))
  BY <1>2 DEF CG_Load, CG_Store, CG_Group, CG_Member, RM_Owner, RM_Target, RM_Read,
     RM_Write, RM_ReadGroup, RM_WriteGroup, Check, StoreGroup, StoreMember,
     ReadMemberToDeactivate
<1>6. /\ ~(\/ LV_Member(t) \/ LV_Owner(t) \/ LV_Info(t) \/ LV_Read(t) \/ LV_Write(t)
           \/ LV_ReadGroup(t) \/ LV_WriteGroup(t))
      /\ ~(\/ DG_Owner(t) \/ DG_Read(t) \/ DG_Write(t)
           \/ DG_ReadMember(t) \/ DG_WriteMember(t) \/ DG_Next(t) \/ DG_Cut(t))
  BY <1>3 DEF LV_Member, LV_Owner, LV_Info, LV_Read, LV_Write, LV_ReadGroup,
     LV_WriteGroup, DG_Owner, DG_Read, DG_Write, DG_ReadMember, DG_WriteMember,
     DG_Next, DG_Cut, Check, StoreGroup, StoreMember, ReadMemberToDeactivate
<1>7. /\ ~(\/ TO_Owner(t) \/ TO_Member(t) \/ TO_ReadGroup(t) \/ TO_WriteGroup(t)
           \/ TO_Scan(t) \/ TO_WriteMember(t))
      /\ ~(DI_Lock(t) \/ DI_Info(t) \/ DI_Write(t))
  BY <1>4 DEF TO_Owner, TO_Member, TO_ReadGroup, TO_WriteGroup, TO_Scan,
     TO_WriteMember, DI_Lock, DI_Info, DI_Write, Check, StoreGroup, StoreMember
<1>8. QED BY <1>5, <1>6, <1>7

(* Requests, invitations and listings leave groups and members alone. *)
LEMMA QuietSteps ==
  ASSUME IInv, JoinInv, NEW t \in Thread, OthersStay(t),
         \/ RJ_Member(t) \/ RJ_Owner(t) \/ RJ_Info(t) \/ RJ_Lock(t) \/ RJ_Append(t)
         \/ DJ_Lock(t) \/ DJ_Info(t) \/ DJ_Write(t)
         \/ IV_Owner(t) \/ IV_Member(t) \/ IV_Lock(t) \/ IV_Append(t)
         \/ LG_Members(t) \/ LG_Groups(t) \/ LM_Member(t) \/ LM_Count(t) \/ LM_Fill(t)
         \/ LR_Lock(t) \/ LR_Count(t) \/ LR_Fill(t) \/ LN_Count(t) \/ LN_Fill(t)
  PROVE  JoinInv'
<1>1. pc \in [Thread -> Labels]
  BY DEF IInv
<1>2. ASSUME UNCHANGED <<groups, members>>, pc'[t] \in JoinLabels
      PROVE  JoinInv'
  BY <1>2, JoinLabelsFit, QuietStep
<1>3. ASSUME NEW label, NEW ok, NEW next \in JoinLabels, Check(t, label, ok, next)
      PROVE  JoinInv'
  <2>1. pc'[t] \in {next, "idle"} /\ UNCHANGED <<groups, members>>
    BY <1>1, <1>3 DEF Check, Goto, Return, disk
  <2>2. "idle" \in JoinLabels
    BY DEF JoinLabels
  <2>3. QED BY <1>2, <2>1, <2>2
<1>4. CASE \/ RJ_Member(t) \/ RJ_Owner(t) \/ RJ_Info(t) \/ IV_Owner(t) \/ IV_Member(t)
           \/ LG_Members(t) \/ LM_Member(t) \/ LM_Count(t)
  <2>1. {"rj_owner", "rj_info", "rj_lock", "iv_member", "iv_lock", "lg_groups",
         "lm_count", "lm_fill"} \subseteq JoinLabels
    BY DEF JoinLabels
  <2>2. QED
    BY <1>3, <1>4, <2>1 DEF RJ_Member, RJ_Owner, RJ_Info, IV_Owner, IV_Member,
       LG_Members, LM_Member, LM_Count
<1>5. CASE RJ_Lock(t) \/ RJ_Append(t) \/ IV_Lock(t) \/ IV_Append(t)
  <2>1. UNCHANGED <<groups, members>>
    BY <1>5 DEF RJ_Lock, RJ_Append, IV_Lock, IV_Append, disk
  <2>2. pc'[t] \in {"rj_append", "iv_append", "idle"}
    BY <1>1, <1>5 DEF RJ_Lock, RJ_Append, IV_Lock, IV_Append, Goto, Return
  <2>3. QED BY <1>2, <2>1, <2>2 DEF JoinLabels
<1>6. CASE DJ_Lock(t) \/ DJ_Write(t)
  <2>1. UNCHANGED <<groups, members>>
    BY <1>6 DEF DJ_Lock, DJ_Write, disk
  <2>2. pc'[t] \in {"dj_info", "idle"}
    BY <1>1, <1>6 DEF DJ_Lock, DJ_Write, Goto, Return
  <2>3. QED BY <1>2, <2>1, <2>2 DEF JoinLabels
<1>7. CASE DJ_Info(t)
  <2>1. UNCHANGED <<groups, members>>
    BY <1>7 DEF DJ_Info, disk
  <2>2. pc'[t] \in {"dj_write", "idle"} \/ (pc'[t] = "am_owner" /\ loc' = loc)
    BY <1>1, <1>7 DEF DJ_Info, Goto, Return
  <2>3. CASE pc'[t] \in {"dj_write", "idle"}
    BY <1>2, <2>1, <2>3 DEF JoinLabels
  <2>4. CASE pc'[t] = "am_owner" /\ loc' = loc
    <3>1. loc[t].cmd = "decide_request"
      BY <1>7, ThreadFacts DEF ArgsFit, Serves, DJ_Info
    <3>2. JoinFit(groups, members, pc'[t], loc'[t])
      BY <2>4, <3>1 DEF JoinFit, Deciding, Adding
    <3>3. QED BY <2>1, <3>2, QuietStep
  <2>5. QED BY <2>2, <2>3, <2>4
<1>8. CASE LG_Groups(t) \/ LM_Fill(t)
  <2>1. UNCHANGED <<groups, members>>
    BY <1>8 DEF LG_Groups, LM_Fill, disk
  <2>2. pc'[t] = "idle"
    BY <1>1, <1>8 DEF LG_Groups, LM_Fill, Return
  <2>3. QED BY <1>2, <2>1, <2>2 DEF JoinLabels
<1>9. CASE LR_Lock(t) \/ LR_Count(t) \/ LR_Fill(t) \/ LN_Count(t) \/ LN_Fill(t)
  <2>1. UNCHANGED <<groups, members>>
    BY <1>9 DEF LR_Lock, LR_Count, LR_Fill, LN_Count, LN_Fill, disk
  <2>2. pc'[t] \in {"lr_count", "lr_fill", "ln_fill", "idle"}
    BY <1>1, <1>9 DEF LR_Lock, LR_Count, LR_Fill, LN_Count, LN_Fill, Goto, Return
  <2>3. QED BY <1>2, <2>1, <2>2 DEF JoinLabels
<1>10. QED BY <1>4, <1>5, <1>6, <1>7, <1>8, <1>9

-----------------------------------------------------------------------------
(* What an appended member does to the counts and to the others. *)
LEMMA MemberJoins ==
  ASSUME NEW m \in Seq(MemberRecordDB), NEW e \in MemberRecordDB, e.is_active,
         NEW m2, m2 = Append(m, e), NEW g, NeverOverstated(g, m), OneActive(m),
         \A i \in DOMAIN g : g[i].member_count \in Int,
         NoActiveMember(m, e.group_id, e.username)
  PROVE  OneActive(m2) /\ NeverOverstated(g, m2) /\ RoomToCount(g, m2, e.group_id)
<1> DEFINE n == Len(m) + 1
<1>1. /\ Len(m) \in Nat /\ DOMAIN m = 1..Len(m) /\ DOMAIN m2 = 1..n
      /\ \A k \in DOMAIN m : m2[k] = m[k]
      /\ m2[n] = e
  OBVIOUS
<1>2. /\ n \notin DOMAIN m /\ n \in DOMAIN m2 /\ \A k \in DOMAIN m : k \in DOMAIN m2
      /\ \A k \in DOMAIN m2 : k \in DOMAIN m \/ k = n
  BY <1>1
<1> HIDE DEF n
<1>3. OneActive(m2)
  BY <1>1, <1>2 DEF OneActive, NoActiveMember
<1>4. ActiveMembers(m2, e.group_id) = ActiveMembers(m, e.group_id) \cup {n}
  BY <1>1, <1>2 DEF ActiveMembers
<1>5. \A gid : gid # e.group_id => ActiveMembers(m2, gid) = ActiveMembers(m, gid)
  BY <1>1, <1>2 DEF ActiveMembers
<1>6. IsFiniteSet(ActiveMembers(m, e.group_id)) /\ n \notin ActiveMembers(m, e.group_id)
  <2>1. ActiveMembers(m, e.group_id) \subseteq 1..Len(m)
    BY <1>1 DEF ActiveMembers
  <2>2. IsFiniteSet(1..Len(m))
    BY <1>1, FS_Interval
  <2>3. IsFiniteSet(ActiveMembers(m, e.group_id))
    BY <2>1, <2>2, FS_Subset
  <2>4. n \notin ActiveMembers(m, e.group_id)
    BY <1>2 DEF ActiveMembers
  <2>5. QED BY <2>3, <2>4
<1>7. /\ Cardinality(ActiveMembers(m2, e.group_id))
           = Cardinality(ActiveMembers(m, e.group_id)) + 1
      /\ Cardinality(ActiveMembers(m, e.group_id)) \in Nat
  BY <1>4, <1>6, FS_AddElement, FS_CardinalityType
<1>8. PICK a, b : /\ a = Cardinality(ActiveMembers(m, e.group_id))
                  /\ b = Cardinality(ActiveMembers(m2, e.group_id))
                  /\ a \in Nat /\ b = a + 1
  BY <1>7
<1>9. ASSUME NEW i \in DOMAIN g, g[i].is_active
      PROVE  /\ g[i].member_count <= Cardinality(ActiveMembers(m2, g[i].group_id))
             /\ g[i].group_id = e.group_id => g[i].member_count + 1 <= b
  <2>1. g[i].member_count <= Cardinality(ActiveMembers(m, g[i].group_id))
    BY <1>9 DEF NeverOverstated
  <2>2. CASE g[i].group_id = e.group_id
    <3>1. PICK x \in Int : x = g[i].member_count
      OBVIOUS
    <3>2. x <= a
      BY <1>8, <2>1, <2>2, <3>1
    <3>3. x <= b /\ x + 1 <= b
      BY <1>8, <3>2
    <3>4. QED BY <1>8, <2>2, <3>1, <3>3
  <2>3. CASE g[i].group_id # e.group_id
    BY <1>5, <2>1, <2>3
  <2>4. QED BY <2>2, <2>3
<1>10. QED BY <1>3, <1>8, <1>9 DEF NeverOverstated, RoomToCount

(* What a record written back with a count does. *)
LEMMA CountedBack ==
  ASSUME NEW g \in Seq(GroupRecordDB), NEW m, NeverOverstated(g, m),
         NEW at \in DOMAIN g, NEW e \in GroupRecordDB,
         e.member_count <= Cardinality(ActiveMembers(m, e.group_id)),
         NEW g2, g2 = [g EXCEPT ![at] = e]
  PROVE  NeverOverstated(g2, m)
<1>1. /\ DOMAIN g2 = DOMAIN g /\ g2[at] = e
      /\ \A i \in DOMAIN g : i # at => g2[i] = g[i]
  OBVIOUS
<1>2. QED BY <1>1 DEF NeverOverstated

(* is_member_of_group finds nobody where nobody is. *)
LEMMA NotFoundNotMember ==
  ASSUME NEW m \in Seq(MemberRecordDB), NEW gid, NEW name,
         ~IsMemberOfGroup(m, gid, name)
  PROVE  NoActiveMember(m, gid, name)
<1>1. PICK at : at = ActiveMemberAt(m, gid, name)
  OBVIOUS
<1>2. at = 0 /\ 0 \notin DOMAIN m
  BY <1>1 DEF IsMemberOfGroup
<1>3. QED
  <2>1. \/ at = 0 /\ NoActiveMember(m, gid, name)
        \/ at \in DOMAIN m
    <3>1. ASSUME NEW k \in DOMAIN m, m[k].group_id = gid, m[k].username = name,
                 m[k].is_active
          PROVE  at \in DOMAIN m
      BY <1>1, <3>1, ActiveMemberFound
    <3>2. QED BY <1>2, <3>1 DEF NoActiveMember
  <2>2. QED BY <1>2, <2>1

(* add_member_to_group under join_req_mutex. *)
LEMMA ApprovalSteps ==
  ASSUME IInv, JoinInv, NEW t \in Thread, OthersStay(t),
         \/ AM_Owner(t) \/ AM_Member(t) \/ AM_Append(t)
         \/ AM_ReadGroup(t) \/ AM_WriteGroup(t)
  PROVE  JoinInv'
<1>1. /\ pc \in [Thread -> Labels] /\ loc[t] \in CallRecord
      /\ groups \in Seq(GroupRecordDB) /\ members \in Seq(MemberRecordDB)
      /\ ArgsFit(pc[t], loc[t]) /\ GroupFit(groups, pc[t], loc[t])
  BY ThreadFacts DEF IInv, FilesTyped
<1>2. pc[t] \in Adding /\ pc[t] # "idle"
  BY DEF AM_Owner, AM_Member, AM_Append, AM_ReadGroup, AM_WriteGroup, Adding
<1>3. /\ loc[t].cmd = "decide_request" /\ loc[t].gid \in Nat /\ loc[t].name \in Name
      /\ JoinFit(groups, members, pc[t], loc[t])
  BY <1>1, <1>2, JoinLabelsFit DEF JoinInv, JoinFit, Deciding, ArgsFit, CallRecord
<1>4. "idle" \in JoinLabels /\ "dj_write" \in JoinLabels
  BY DEF JoinLabels
<1>5. CASE AM_Owner(t) \/ AM_Member(t)
  <2>1. UNCHANGED <<groups, members>>
    BY <1>5 DEF AM_Owner, AM_Member, disk
  <2>2. CASE AddFailed(t)
    <3>1. pc'[t] = "idle"
      BY <1>1, <2>2 DEF AddFailed, Return
    <3>2. QED BY <1>4, <2>1, <3>1, JoinLabelsFit, QuietStep
  <2>3. CASE AM_Owner(t) /\ ~AddFailed(t)
    <3>1. pc'[t] = "am_member" /\ loc' = loc
      BY <1>1, <2>3 DEF AM_Owner, Goto
    <3>2. JoinFit(groups, members, pc'[t], loc'[t])
      BY <1>3, <3>1 DEF JoinFit, Deciding, Adding
    <3>3. QED BY <2>1, <3>2, QuietStep
  <2>4. CASE AM_Member(t) /\ ~AddFailed(t)
    <3>1. /\ pc'[t] = "am_append" /\ loc' = loc
          /\ ~IsMemberOfGroup(members, loc[t].gid, loc[t].name)
      BY <1>1, <2>4 DEF AM_Member, Goto
    <3>2. NoActiveMember(members, loc[t].gid, loc[t].name)
      BY <1>1, <3>1, NotFoundNotMember
    <3>3. JoinFit(groups, members, pc'[t], loc'[t])
      BY <1>3, <3>1, <3>2 DEF JoinFit, Deciding, Adding
    <3>4. QED BY <2>1, <3>3, QuietStep
  <2>5. QED BY <1>5, <2>2, <2>3, <2>4
<1>6. CASE AM_Append(t)
  <2>1. PICK e : e = NewMember(loc[t].gid, loc[t].name, FALSE)
    OBVIOUS
  <2>2. /\ e \in MemberRecordDB /\ e.is_active
        /\ e.group_id = loc[t].gid /\ e.username = loc[t].name
    BY <1>3, <2>1 DEF NewMember, MemberRecordDB
  <2>3. PICK f : f = members' /\ f = Append(members, e)
    BY <1>6, <2>1 DEF AM_Append
  <2>4. NoActiveMember(members, e.group_id, e.username)
    BY <1>3, <1>6, <2>2 DEF JoinFit, AM_Append
  <2>5. \A i \in DOMAIN groups : groups[i].member_count \in Int
    <3>1. \A i \in DOMAIN groups : groups[i] \in GroupRecordDB
      BY <1>1
    <3>2. QED BY <3>1 DEF GroupRecordDB
  <2>6. /\ OneActive(f) /\ NeverOverstated(groups, f)
        /\ RoomToCount(groups, f, e.group_id)
    BY <1>1, <2>2, <2>3, <2>4, <2>5, MemberJoins DEF JoinInv
  <2>7. groups' = groups /\ pc'[t] = "am_gread" /\ loc' = loc
    BY <1>1, <1>6 DEF AM_Append, Goto
  <2>8. JoinFit(groups', members', pc'[t], loc'[t])
    BY <1>3, <2>2, <2>3, <2>6, <2>7 DEF JoinFit, Deciding, Adding
  <2>9. QED BY <1>2, <2>3, <2>6, <2>7, <2>8, AddingStep
<1>7. CASE AddDone(t)
  <2>1. pc'[t] = "dj_write" /\ members' = members
    BY <1>1, <1>3, <1>7 DEF AddDone, Goto, AM_Owner, AM_Member, AM_Append, AM_ReadGroup,
       AM_WriteGroup, disk
  <2>2. JoinFit(groups', members', pc'[t], loc'[t])
    BY <1>4, <2>1, JoinLabelsFit
  <2>3. NeverOverstated(groups', members)
    <3>1. CASE groups' = groups
      BY <3>1 DEF JoinInv
    <3>2. CASE groups' # groups
      <4>1. pc[t] = "am_gwrite" /\ groups' = [groups EXCEPT ![loc[t].at] = loc[t].rec]
        BY <3>2 DEF AM_Owner, AM_Member, AM_Append, AM_ReadGroup, AM_WriteGroup, disk
      <4>2. PICK at, e, f : at = loc[t].at /\ e = loc[t].rec /\ f = groups'
        OBVIOUS
      <4>3. at \in DOMAIN groups /\ e \in GroupRecordDB /\ e.group_id = loc[t].gid
        BY <1>1, <1>3, <4>1, <4>2 DEF GroupFit, JoinFit
      <4>4. e.member_count <= Cardinality(ActiveMembers(members, e.group_id))
        BY <1>3, <4>1, <4>2, <4>3 DEF JoinFit
      <4>5. f = [groups EXCEPT ![at] = e]
        BY <4>1, <4>2
      <4>6. NeverOverstated(f, members)
        BY <1>1, <4>3, <4>4, <4>5, CountedBack DEF JoinInv
      <4>7. QED BY <4>2, <4>6
    <3>3. QED BY <3>1, <3>2
  <2>4. OneActive(members')
    BY <2>1 DEF JoinInv
  <2>5. QED BY <1>2, <2>1, <2>2, <2>3, <2>4, AddingStep
<1>8. CASE AM_ReadGroup(t) /\ ~AddDone(t)
  <2>1. PICK at : /\ at = ActiveGroupAt(groups, loc[t].gid) /\ at # 0
                  /\ Hold(t, at, [groups[at] EXCEPT !.member_count = @ + 1])
                  /\ Goto(t, "am_gwrite")
    BY <1>8 DEF AM_ReadGroup
  <2>2. /\ at \in DOMAIN groups /\ groups[at].group_id = loc[t].gid
        /\ groups[at].is_active /\ at \in Nat
    BY <1>1, <2>1, ActiveGroupFound
  <2>3. groups[at] \in GroupRecordDB
    BY <1>1, <2>2
  <2>4. PICK rec : rec = [groups[at] EXCEPT !.member_count = @ + 1]
    OBVIOUS
  <2>5. /\ rec \in GroupRecordDB /\ rec.group_id = loc[t].gid
        /\ rec.member_count = groups[at].member_count + 1
    BY <2>2, <2>3, <2>4 DEF GroupRecordDB
  <2>6. PICK c \in CallRecord : /\ Does(t, "am_gwrite", c) /\ c.rec = rec
                                /\ c.cmd = loc[t].cmd /\ c.gid = loc[t].gid
    <3>1. Hold(t, at, rec)
      BY <2>1, <2>4
    <3>2. QED BY <2>1, <2>2, <2>5, <3>1, Held
  <2>7. rec.member_count <= Cardinality(ActiveMembers(members, loc[t].gid))
    BY <1>3, <1>8, <2>2, <2>5 DEF AM_ReadGroup, JoinFit, RoomToCount
  <2>8. pc'[t] = "am_gwrite" /\ loc'[t] = c
    BY <1>1, <2>6 DEF Does, IInv
  <2>9. JoinFit(groups, members, pc'[t], loc'[t])
    BY <1>3, <2>5, <2>6, <2>7, <2>8 DEF JoinFit, Deciding, Adding
  <2>10. QED BY <1>8, <2>9, QuietStep DEF AM_ReadGroup, disk
<1>9. QED BY <1>5, <1>6, <1>7, <1>8 DEF AM_WriteGroup

(* A file that cannot be opened changes nothing, and sends nobody on to an *)
(* addition but from the test that can be relied on.                       *)
LEMMA FailuresAreQuiet ==
  ASSUME OnlyApprovals, IInv, JoinInv, NEW t \in Thread, OpenFails(t)
  PROVE  JoinInv'
<1>1. /\ pc \in [Thread -> Labels] /\ OthersStay(t) /\ UNCHANGED <<groups, members>>
      /\ pc[t] \in JoinLabels \cup Adding /\ ArgsFit(pc[t], loc[t])
      /\ JoinFit(groups, members, pc[t], loc[t])
  BY OpenFailsIsSound, ThreadFacts DEF IInv, Sound, OpenFails, disk, JoinInv, JoinFit,
     Deciding
<1>2. pc'[t] \in JoinLabels
  <2>1. CASE pc'[t] = "idle"
    BY <2>1 DEF JoinLabels
  <2>2. CASE pc[t] = "am_gread" /\ AddDone(t)
    <3>1. loc[t].cmd = "decide_request"
      BY <1>1, <2>2 DEF JoinFit, JoinLabels, Deciding
    <3>2. pc'[t] = "dj_write"
      BY <1>1, <2>2, <3>1 DEF AddDone, Goto
    <3>3. QED BY <3>2 DEF JoinLabels
  <2>3. CASE pc[t] \in DOMAIN OpenOrNo /\ Goto(t, OpenOrNo[pc[t]])
    <3>1. pc[t] # "am_member"
      BY DEF OnlyApprovals, OpenFails
    <3>2. pc[t] \in {"rj_member", "rj_owner", "iv_member"}
      BY <1>1, <2>3, <3>1 DEF OpenOrNo, JoinLabels, Adding
    <3>3. pc'[t] \in {"rj_owner", "rj_info", "iv_lock"}
      BY <1>1, <2>3, <3>2 DEF OpenOrNo, Goto
    <3>4. QED BY <3>3 DEF JoinLabels
  <2>4. CASE pc[t] \in {"lr_count", "lr_fill"} /\ UNCHANGED pc
    BY <2>4 DEF JoinLabels
  <2>5. Return(t) \/ AddFailed(t) \/ OpenFailsInside(t) => pc'[t] = "idle"
    BY <1>1 DEF Return, AddFailed, OpenFailsInside
  <2>6. QED BY <2>1, <2>2, <2>3, <2>4, <2>5 DEF OpenFails
<1>3. QED BY <1>1, <1>2, JoinLabelsFit, QuietStep

-----------------------------------------------------------------------------
(* The steps together. *)
LEMMA InitJoinInv ==
  ASSUME OnlyApprovals, Init
  PROVE  JoinInv
<1>1. "idle" \in JoinLabels
  BY DEF JoinLabels
<1>2. QED BY <1>1, JoinLabelsFit DEF JoinInv, OnlyApprovals, Init

LEMMA BeginsQuietly ==
  ASSUME OnlyApprovals, IInv, JoinInv, NEW t \in Thread, Begin(t)
  PROVE  JoinInv'
<1>1. PICK c \in Calls : /\ c.cmd \in Commands /\ loc' = [loc EXCEPT ![t] = c]
                         /\ pc' = [pc EXCEPT ![t] = Entry[c.cmd]]
  BY DEF Begin
<1>2. c.cmd \in DOMAIN Entry /\ c.cmd \notin OtherChanges
  BY <1>1, CallsFit DEF OnlyApprovals
<1>3. pc'[t] = Entry[c.cmd]
  BY <1>1 DEF IInv
<1>4. Entry[c.cmd] \in JoinLabels
  BY <1>2 DEF Entry, OtherChanges, JoinLabels
<1>5. OthersStay(t)
  BY BeginIsSound DEF Sound
<1>6. QED BY <1>3, <1>4, <1>5, JoinLabelsFit, QuietStep DEF Begin, disk

LEMMA NextJoinInv ==
  ASSUME OnlyApprovals, IInv, JoinInv, [Next]_vars
  PROVE  JoinInv'
<1>1. CASE Crash
  <2>1. "idle" \in JoinLabels
    BY DEF JoinLabels
  <2>2. \A t \in Thread : pc'[t] = "idle"
    BY <1>1 DEF Crash
  <2>3. QED BY <1>1, <2>1, <2>2, JoinLabelsFit DEF Crash, JoinInv, disk
<1>2. CASE UNCHANGED vars
  BY <1>2 DEF vars, disk, JoinInv
<1>3. ASSUME NEW t \in Thread, Step(t)
      PROVE  JoinInv'
  <2>1. OthersStay(t)
    BY <1>3, StepIsSound DEF Sound
  <2>2. QED BY <1>3, <2>1, OthersAreNotMade, QuietSteps, ApprovalSteps DEF Step
<1>4. QED BY <1>1, <1>2, <1>3, BeginsQuietly, FailuresAreQuiet DEF Next

LEMMA JoinInvariance ==
  ASSUME OnlyApprovals
  PROVE  Spec => []JoinInv
<1>1. Init => JoinInv
  BY InitJoinInv
<1>2. IInv /\ JoinInv /\ [Next]_vars => JoinInv'
  BY NextJoinInv
<1>3. QED BY <1>1, <1>2, Invariance, PTL DEF Spec

(* Approvals alone never make anybody a member twice: the test in          *)
(* add_member_to_group and its append are in one critical section of       *)
(* join_req_mutex.                                                         *)
THEOREM ApprovalsExclude == OnlyApprovals => (Spec => []OneActiveMembership)
<1>1. SUFFICES ASSUME OnlyApprovals PROVE Spec => []OneActiveMembership
  OBVIOUS
<1>2. JoinInv => OneActiveMembership
  BY DEF JoinInv, OneActive, OneActiveMembership
<1>3. Spec => []JoinInv
  BY <1>1, JoinInvariance
<1>4. QED BY <1>2, <1>3, PTL

(* The member is appended before it is counted: wherever an approval is    *)
(* interrupted, member_count does not claim a member who is not there.     *)
THEOREM CountedAfterwards == OnlyApprovals => (Spec => []CountNeverOverstates)
<1>1. SUFFICES ASSUME OnlyApprovals PROVE Spec => []CountNeverOverstates
  OBVIOUS
<1>2. JoinInv => CountNeverOverstates
  BY DEF JoinInv, NeverOverstated, CountNeverOverstates
<1>3. Spec => []JoinInv
  BY <1>1, JoinInvariance
<1>4. QED BY <1>2, <1>3, PTL
=============================================================================
