-------------------------- MODULE GroupServerProofs --------------------------
(***************************************************************************)
(* What the threads of server/group_db.c do to its files, for any number   *)
(* of threads, calls and crashes, proved of GroupServer.                   *)
(*                                                                         *)
(* A thread's next step and locals are judged by Fit, a formula about one  *)
(* label, one call record and the contents of the files.  A step of a      *)
(* thread keeps the Fit of every other one, because files only grow, their *)
(* records keep their identity, and a request file changes only under its  *)
(* mutex.  What it does to its own is one lemma for each action.           *)
(***************************************************************************)
EXTENDS GroupServer, GroupFileLemmas

-----------------------------------------------------------------------------
(* The locals of a thread. *)
AnyName == Name \cup {NoName}

CallRecord ==
  [cmd : DOMAIN Entry \cup {"none"}, user : AnyName, gid : Nat, name : AnyName,
   requester : AnyName, id : Nat, approve : BOOLEAN, at : Nat,
   rec : GroupRecordDB \cup MemberRecordDB \cup {NoRecord}, pos : Nat,
   entry : JoinRequestRecordDB \cup GroupInviteRecordDB \cup {NoRecord},
   count : Nat, listed : SUBSET Nat]

(* The commands that lead to a label, for those labels where it matters. *)
Serves(l, cmd) ==
  /\ l \in {"cg_load", "cg_store", "cg_group", "cg_member"} => cmd = "create_group"
  /\ l \in Adding => cmd \in {"add_member"} \cup OnEntry
  /\ l \in {"rj_member", "rj_owner", "rj_info", "rj_lock", "rj_append"} =>
       cmd = "request_join"
  /\ l \in {"dj_lock", "dj_info", "dj_write"} => cmd = "decide_request"
  /\ l \in {"iv_owner", "iv_member", "iv_lock", "iv_append"} => cmd = "invite"
  /\ l \in {"di_lock", "di_info", "di_write"} => cmd = "decide_invite"

ArgsFit(l, c) ==
  /\ c \in CallRecord
  /\ Serves(l, c.cmd)
  /\ l # "idle" => c.user \in Name /\ c.name \in Name
  /\ c.cmd \in {"request_join", "invite"} => c.gid \in GroupId
  /\ c.cmd = "decide_invite" => c.name = c.user
  /\ l \in {"lr_lock", "lr_count"} => c.listed = {}

(* A record read from groups.dat or members.dat to be written back changes *)
(* nobody else's record, wherever the file has got to meanwhile.           *)
GroupFit(g, l, c) ==
  l \in {"am_gwrite", "rm_gwrite", "lv_gwrite", "dg_write", "to_gwrite"} =>
    /\ c.at \in DOMAIN g /\ c.rec \in GroupRecordDB
    /\ c.rec.group_id = g[c.at].group_id

(* Up to what the pass of delete_group cuts off a name. *)
SameMember(rec, old) ==
  /\ rec.group_id = old.group_id
  /\ Prefix44[rec.username] = Prefix44[old.username]

MemberFit(m, l, c) ==
  /\ l \in {"rm_write", "lv_write", "dg_mwrite", "to_mwrite"} =>
       /\ c.at \in DOMAIN m /\ c.rec \in MemberRecordDB
       /\ SameMember(c.rec, m[c.at])
  /\ l = "dg_next" => c.at \in DOMAIN m
  /\ l = "dg_cut" =>
       /\ c.at \in DOMAIN m /\ c.at + 1 \in DOMAIN m /\ c.rec \in MemberRecordDB
       /\ SameMember(c.rec, m[c.at + 1])

(* The group a member record is about to be written for is on disk, and    *)
(* the member record an approval is about to be written for.               *)
FoundFit(g, m, l, c) ==
  /\ l \in {"cg_member", "am_member", "am_append"} => HasGroup(g, c.gid)
  /\ \/ l \in {"am_gread", "am_gwrite"}
     \/ l \in {"dj_write", "di_write"} /\ c.approve
     => HasRecord(m, c.gid, c.name)

Deciding(l, c, cmd) == l \in Adding /\ c.cmd = cmd

(* The part of a call that runs under a mutex. *)
InReq(l, c) == \/ l \in {"dj_info", "dj_write", "rj_append", "lr_count", "lr_fill"}
               \/ Deciding(l, c, "decide_request")
InInv(l, c) == \/ l \in {"di_info", "di_write", "iv_append", "ln_fill"}
               \/ Deciding(l, c, "decide_invite")

RequestFit(r, l, c) ==
  /\ l \in {"dj_info", "dj_write"} \/ Deciding(l, c, "decide_request") =>
       /\ c.pos \in DOMAIN r /\ c.entry = r[c.pos]
       /\ c.gid = r[c.pos].group_id /\ c.name = r[c.pos].requester
       /\ l # "dj_info" => r[c.pos].status = Pending
  /\ l = "rj_append" => ~PendingRequestExists(r, c.gid, c.user)
  /\ l = "lr_fill" => \A k \in c.listed : k \in DOMAIN r /\ r[k].status = Pending

InvitesOf(v, u) == {k \in DOMAIN v : v[k].status = Pending /\ v[k].invitee = u}

InviteFit(v, l, c) ==
  /\ l \in {"di_info", "di_write"} \/ Deciding(l, c, "decide_invite") =>
       /\ c.pos \in DOMAIN v /\ c.entry = v[c.pos]
       /\ c.gid = v[c.pos].group_id /\ c.name = v[c.pos].invitee
       /\ v[c.pos].status = Pending
  /\ l = "iv_append" => ~PendingInviteExists(v, c.gid, c.name)
  /\ l = "ln_fill" => c.count = Cardinality(InvitesOf(v, c.user))

Fit(g, m, r, v, l, c) ==
  /\ ArgsFit(l, c) /\ GroupFit(g, l, c) /\ MemberFit(m, l, c)
  /\ FoundFit(g, m, l, c) /\ RequestFit(r, l, c) /\ InviteFit(v, l, c)

-----------------------------------------------------------------------------
(* The files. *)
FilesTyped(g, m, r, v) ==
  /\ g \in Seq(GroupRecordDB) /\ m \in Seq(MemberRecordDB)
  /\ r \in Seq(JoinRequestRecordDB) /\ v \in Seq(GroupInviteRecordDB)

RequestsNumbered(r, n) ==
  /\ n = Len(r) + 1
  /\ \A i \in DOMAIN r : r[i].request_id = i /\ r[i].group_id \in GroupId

InvitesNumbered(v, n) ==
  /\ n = Len(v) + 1
  /\ \A i \in DOMAIN v : v[i].invite_id = i /\ v[i].group_id \in GroupId

FilesFit(g, m, r, v, n1, n2, n3) ==
  /\ FilesTyped(g, m, r, v)
  /\ n1 \in Nat \ {0} /\ RequestsNumbered(r, n2) /\ InvitesNumbered(v, n3)
  /\ MembersHaveGroups(m, g) /\ ApprovalsHaveMembers(r, v, m)

GroupsKept(f, g) ==
  \A i \in DOMAIN f : i \in DOMAIN g /\ g[i].group_id = f[i].group_id
MembersKept(f, g) ==
  \A i \in DOMAIN f : i \in DOMAIN g /\ SameMember(g[i], f[i])
RequestsKept(f, g) ==
  \A i \in DOMAIN f : /\ i \in DOMAIN g
                      /\ g[i].request_id = f[i].request_id
                      /\ g[i].requester = f[i].requester
InvitesKept(f, g) ==
  \A i \in DOMAIN f : /\ i \in DOMAIN g
                      /\ g[i].invite_id = f[i].invite_id /\ g[i].invitee = f[i].invitee

FilesKept(g, m, r, v, g2, m2, r2, v2) ==
  GroupsKept(g, g2) /\ MembersKept(m, m2) /\ RequestsKept(r, r2) /\ InvitesKept(v, v2)

-----------------------------------------------------------------------------
(* The inductive invariant. *)
MutexesFit ==
  /\ holder \in [Mutex -> Thread \cup {Nobody}]
  /\ \A t \in Thread : InReq(pc[t], loc[t]) <=> holder["join_req_mutex"] = t
  /\ \A t \in Thread : InInv(pc[t], loc[t]) <=> holder["invite_mutex"] = t

IInv ==
  /\ pc \in [Thread -> Labels] /\ loc \in [Thread -> CallRecord]
  /\ MutexesFit
  /\ FilesFit(groups, members, requests, invites,
              next_group_id, next_join_request_id, next_invite_id)
  /\ \A t \in Thread : Fit(groups, members, requests, invites, pc[t], loc[t])

(* What a step of thread t leaves alone: the other threads. *)
OthersStay(t) ==
  /\ pc' \in [Thread -> Labels] /\ loc' \in [Thread -> CallRecord]
  /\ \A u \in Thread : u # t => pc'[u] = pc[u] /\ loc'[u] = loc[u]

(* A thread stays outside or inside of a mutex, enters, or leaves. *)
KeepsMutex(t, m, in, in2) ==
  \/ holder'[m] = holder[m] /\ (in2 <=> in)
  \/ holder[m] = Nobody /\ holder'[m] = t /\ in2
  \/ in /\ holder'[m] = Nobody /\ ~in2

MutexStep(t) ==
  /\ holder' \in [Mutex -> Thread \cup {Nobody}]
  /\ KeepsMutex(t, "join_req_mutex", InReq(pc[t], loc[t]), InReq(pc'[t], loc'[t]))
  /\ KeepsMutex(t, "invite_mutex", InInv(pc[t], loc[t]), InInv(pc'[t], loc'[t]))

(* The files stay as they must be, and each request file changes only in   *)
(* the hands of the thread that has its mutex.                             *)
FileStep(t) ==
  /\ FilesFit(groups', members', requests', invites',
              next_group_id', next_join_request_id', next_invite_id')
  /\ FilesKept(groups, members, requests, invites, groups', members', requests', invites')
  /\ requests' = requests \/ InReq(pc[t], loc[t])
  /\ invites' = invites \/ InInv(pc[t], loc[t])

OwnFit(t) == Fit(groups', members', requests', invites', pc'[t], loc'[t])

Sound(t) == OthersStay(t) /\ MutexStep(t) /\ FileStep(t) /\ OwnFit(t)

-----------------------------------------------------------------------------
(* A thread's facts outlive the steps of the others. *)
LEMMA FitIsStable ==
  ASSUME NEW g, NEW m, NEW r, NEW v, NEW g2, NEW m2, NEW r2, NEW v2, NEW l, NEW c,
         Fit(g, m, r, v, l, c), FilesKept(g, m, r, v, g2, m2, r2, v2),
         InReq(l, c) => r2 = r, InInv(l, c) => v2 = v
  PROVE  Fit(g2, m2, r2, v2, l, c)
<1>1. ArgsFit(l, c)
  BY DEF Fit
<1>2. GroupFit(g2, l, c)
  BY DEF Fit, GroupFit, FilesKept, GroupsKept
<1>3. MemberFit(m2, l, c)
  BY DEF Fit, MemberFit, FilesKept, MembersKept, SameMember
<1>4. FoundFit(g2, m2, l, c)
  <2>1. \A gid : HasGroup(g, gid) => HasGroup(g2, gid)
    BY DEF FilesKept, GroupsKept, HasGroup
  <2>2. \A gid, u : HasRecord(m, gid, u) => HasRecord(m2, gid, u)
    BY DEF FilesKept, MembersKept, SameMember, HasRecord
  <2>3. FoundFit(g, m, l, c)
    BY DEF Fit
  <2>4. QED BY <2>1, <2>2, <2>3 DEF FoundFit
<1>5. RequestFit(r2, l, c)
  <2>1. RequestFit(r, l, c)
    BY DEF Fit
  <2>2. CASE InReq(l, c)
    BY <2>1, <2>2
  <2>3. CASE ~InReq(l, c)
    BY <2>3 DEF RequestFit, InReq
  <2>4. QED BY <2>2, <2>3
<1>6. InviteFit(v2, l, c)
  <2>1. InviteFit(v, l, c)
    BY DEF Fit
  <2>2. CASE InInv(l, c)
    BY <2>1, <2>2
  <2>3. CASE ~InInv(l, c)
    BY <2>3 DEF InviteFit, InInv
  <2>4. QED BY <2>2, <2>3
<1>7. QED BY <1>1, <1>2, <1>3, <1>4, <1>5, <1>6 DEF Fit

(* Two threads are never inside of one mutex. *)
LEMMA MutexesStayFit ==
  ASSUME MutexesFit, NEW t \in Thread, OthersStay(t), MutexStep(t)
  PROVE  MutexesFit'
<1>1. ASSUME NEW u \in Thread
      PROVE  InReq(pc'[u], loc'[u]) <=> holder'["join_req_mutex"] = u
  <2>1. CASE u = t
    BY <2>1, NobodyAssumption DEF MutexesFit, MutexStep, KeepsMutex
  <2>2. CASE u # t
    <3>1. pc'[u] = pc[u] /\ loc'[u] = loc[u]
      BY <2>2 DEF OthersStay
    <3>2. QED BY <2>2, <3>1, NobodyAssumption DEF MutexesFit, MutexStep, KeepsMutex
  <2>3. QED BY <2>1, <2>2
<1>2. ASSUME NEW u \in Thread
      PROVE  InInv(pc'[u], loc'[u]) <=> holder'["invite_mutex"] = u
  <2>1. CASE u = t
    BY <2>1, NobodyAssumption DEF MutexesFit, MutexStep, KeepsMutex
  <2>2. CASE u # t
    <3>1. pc'[u] = pc[u] /\ loc'[u] = loc[u]
      BY <2>2 DEF OthersStay
    <3>2. QED BY <2>2, <3>1, NobodyAssumption DEF MutexesFit, MutexStep, KeepsMutex
  <2>3. QED BY <2>1, <2>2
<1>3. QED BY <1>1, <1>2 DEF MutexesFit, MutexStep

(* It is enough that each step is sound. *)
LEMMA SoundKeepsIInv ==
  ASSUME IInv, NEW t \in Thread, Sound(t)
  PROVE  IInv'
<1>1. /\ OthersStay(t) /\ MutexStep(t) /\ FileStep(t) /\ OwnFit(t)
      /\ MutexesFit
      /\ \A u \in Thread : Fit(groups, members, requests, invites, pc[u], loc[u])
  BY DEF IInv, Sound
<1>2. MutexesFit'
  BY <1>1, MutexesStayFit
<1>3. ASSUME NEW u \in Thread
      PROVE  Fit(groups', members', requests', invites', pc'[u], loc'[u])
  <2>1. CASE u = t
    BY <1>1, <2>1 DEF OwnFit
  <2>2. CASE u # t
    <3>1. pc'[u] = pc[u] /\ loc'[u] = loc[u]
      BY <1>1, <2>2 DEF OthersStay
    <3>2. /\ InReq(pc[t], loc[t]) /\ InReq(pc[u], loc[u]) => FALSE
          /\ InInv(pc[t], loc[t]) /\ InInv(pc[u], loc[u]) => FALSE
      BY <1>1, <2>2 DEF MutexesFit
    <3>3. /\ InReq(pc[u], loc[u]) => requests' = requests
          /\ InInv(pc[u], loc[u]) => invites' = invites
      BY <1>1, <3>2 DEF FileStep
    <3>4. /\ Fit(groups, members, requests, invites, pc[u], loc[u])
          /\ FilesKept(groups, members, requests, invites,
                       groups', members', requests', invites')
      BY <1>1 DEF FileStep
    <3>5. Fit(groups', members', requests', invites', pc[u], loc[u])
      BY <3>3, <3>4, FitIsStable
    <3>6. QED BY <3>1, <3>5
  <2>3. QED BY <2>1, <2>2
<1>4. QED BY <1>1, <1>2, <1>3 DEF IInv, OthersStay, FileStep

-----------------------------------------------------------------------------
(* The pieces of which steps are made.  Thread t goes to label l with c. *)
Does(t, l, c) ==
  /\ pc' = [pc EXCEPT ![t] = l]
  /\ loc' \in [Thread -> CallRecord]
  /\ loc'[t] = c
  /\ \A u \in Thread : u # t => loc'[u] = loc[u]

LEMMA DoesOnlyItsOwn ==
  ASSUME IInv, NEW t \in Thread, NEW l \in Labels, NEW c, Does(t, l, c)
  PROVE  OthersStay(t) /\ pc'[t] = l /\ loc'[t] = c
BY DEF IInv, Does, OthersStay

(* What is known of a thread before its step. *)
LEMMA ThreadFacts ==
  ASSUME IInv, NEW t \in Thread
  PROVE  /\ pc[t] \in Labels /\ loc[t] \in CallRecord
         /\ ArgsFit(pc[t], loc[t])
         /\ GroupFit(groups, pc[t], loc[t]) /\ MemberFit(members, pc[t], loc[t])
         /\ FoundFit(groups, members, pc[t], loc[t])
         /\ RequestFit(requests, pc[t], loc[t]) /\ InviteFit(invites, pc[t], loc[t])
         /\ FilesTyped(groups, members, requests, invites)
BY DEF IInv, Fit, FilesFit

LEMMA SameLocals ==
  ASSUME IInv, NEW t \in Thread, NEW l, Goto(t, l), UNCHANGED loc
  PROVE  Does(t, l, loc[t])
BY DEF IInv, Goto, Does

LEMMA NewLocals ==
  ASSUME IInv, NEW t \in Thread, NEW l, NEW c \in CallRecord,
         Goto(t, l), loc' = [loc EXCEPT ![t] = c]
  PROVE  Does(t, l, c)
<1>1. loc \in [Thread -> CallRecord]
  BY DEF IInv
<1>2. /\ loc' \in [Thread -> CallRecord] /\ loc'[t] = c
      /\ \A u \in Thread : u # t => loc'[u] = loc[u]
  BY <1>1
<1>3. QED BY <1>2 DEF Does, Goto

LEMMA NoCallType == NoCall \in CallRecord
<1>1. {} \in SUBSET Nat
  OBVIOUS
<1>2. QED BY <1>1 DEF NoCall, NewCall, CallRecord, AnyName

LEMMA Returned ==
  ASSUME IInv, NEW t \in Thread, Return(t)
  PROVE  Does(t, "idle", NoCall)
BY NoCallType DEF IInv, Return, Does

LEMMA Held ==
  ASSUME IInv, NEW t \in Thread, NEW l, NEW at \in Nat,
         NEW rec \in GroupRecordDB \cup MemberRecordDB \cup {NoRecord},
         Hold(t, at, rec), Goto(t, l)
  PROVE  \E c \in CallRecord :
           /\ Does(t, l, c)
           /\ c.at = at /\ c.rec = rec
           /\ c.cmd = loc[t].cmd /\ c.user = loc[t].user /\ c.name = loc[t].name
           /\ c.requester = loc[t].requester
           /\ c.gid = loc[t].gid /\ c.approve = loc[t].approve
           /\ c.pos = loc[t].pos /\ c.entry = loc[t].entry
           /\ c.listed = loc[t].listed /\ c.count = loc[t].count
<1>1. loc \in [Thread -> CallRecord] /\ loc[t] \in CallRecord
  BY DEF IInv
<1> DEFINE c == [loc[t] EXCEPT !.at = at, !.rec = rec]
<1>2. /\ c \in CallRecord
      /\ c.at = at /\ c.rec = rec
      /\ c.cmd = loc[t].cmd /\ c.user = loc[t].user /\ c.name = loc[t].name
      /\ c.requester = loc[t].requester
      /\ c.gid = loc[t].gid /\ c.approve = loc[t].approve
      /\ c.pos = loc[t].pos /\ c.entry = loc[t].entry
      /\ c.listed = loc[t].listed /\ c.count = loc[t].count
  BY <1>1 DEF CallRecord
<1>3. loc'[t] = c /\ \A u \in Thread : u # t => loc'[u] = loc[u]
  BY <1>1 DEF Hold
<1>4. loc' \in [Thread -> CallRecord]
  BY <1>1, <1>2, <1>3 DEF Hold
<1>5. Does(t, l, c)
  BY <1>3, <1>4 DEF Does, Goto
<1> HIDE DEF c
<1>6. QED BY <1>2, <1>5

-----------------------------------------------------------------------------
(* The mutexes. *)
LEMMA OneSection ==
  ASSUME NEW l, NEW c
  PROVE  ~(InReq(l, c) /\ InInv(l, c))
BY DEF InReq, InInv, Deciding, Adding

LEMMA MutexesUntouched ==
  ASSUME IInv, NEW t \in Thread, NEW l \in Labels, NEW c, Does(t, l, c),
         UNCHANGED holder,
         InReq(l, c) <=> InReq(pc[t], loc[t]), InInv(l, c) <=> InInv(pc[t], loc[t])
  PROVE  MutexStep(t)
BY DoesOnlyItsOwn DEF IInv, MutexesFit, MutexStep, KeepsMutex

LEMMA RequestsLocked ==
  ASSUME IInv, NEW t \in Thread, NEW l \in Labels, NEW c, Does(t, l, c),
         Lock(t, "join_req_mutex"),
         InReq(l, c), ~InInv(pc[t], loc[t])
  PROVE  MutexStep(t)
<1>1. holder \in [Mutex -> Thread \cup {Nobody}] /\ ~InInv(l, c)
  BY OneSection DEF IInv, MutexesFit
<1>2. /\ holder' \in [Mutex -> Thread \cup {Nobody}]
      /\ holder["join_req_mutex"] = Nobody /\ holder'["join_req_mutex"] = t
      /\ holder'["invite_mutex"] = holder["invite_mutex"]
  BY <1>1 DEF Lock, Mutex
<1>3. QED BY <1>1, <1>2, DoesOnlyItsOwn DEF MutexStep, KeepsMutex

LEMMA InvitesLocked ==
  ASSUME IInv, NEW t \in Thread, NEW l \in Labels, NEW c, Does(t, l, c),
         Lock(t, "invite_mutex"),
         InInv(l, c), ~InReq(pc[t], loc[t])
  PROVE  MutexStep(t)
<1>1. holder \in [Mutex -> Thread \cup {Nobody}] /\ ~InReq(l, c)
  BY OneSection DEF IInv, MutexesFit
<1>2. /\ holder' \in [Mutex -> Thread \cup {Nobody}]
      /\ holder["invite_mutex"] = Nobody /\ holder'["invite_mutex"] = t
      /\ holder'["join_req_mutex"] = holder["join_req_mutex"]
  BY <1>1 DEF Lock, Mutex
<1>3. QED BY <1>1, <1>2, DoesOnlyItsOwn DEF MutexStep, KeepsMutex

LEMMA RequestsUnlocked ==
  ASSUME IInv, NEW t \in Thread, NEW c, Does(t, "idle", c),
         Unlock("join_req_mutex"), InReq(pc[t], loc[t])
  PROVE  MutexStep(t)
<1>1. /\ holder \in [Mutex -> Thread \cup {Nobody}] /\ "idle" \in Labels
      /\ ~InInv(pc[t], loc[t]) /\ ~InReq("idle", c) /\ ~InInv("idle", c)
  BY OneSection DEF IInv, MutexesFit, InReq, InInv, Deciding, Adding, Labels
<1>2. /\ holder' \in [Mutex -> Thread \cup {Nobody}]
      /\ holder'["join_req_mutex"] = Nobody
      /\ holder'["invite_mutex"] = holder["invite_mutex"]
  BY <1>1 DEF Unlock, Mutex
<1>3. QED BY <1>1, <1>2, DoesOnlyItsOwn DEF MutexStep, KeepsMutex

LEMMA InvitesUnlocked ==
  ASSUME IInv, NEW t \in Thread, NEW c, Does(t, "idle", c),
         Unlock("invite_mutex"), InInv(pc[t], loc[t])
  PROVE  MutexStep(t)
<1>1. /\ holder \in [Mutex -> Thread \cup {Nobody}] /\ "idle" \in Labels
      /\ ~InReq(pc[t], loc[t]) /\ ~InReq("idle", c) /\ ~InInv("idle", c)
  BY OneSection DEF IInv, MutexesFit, InReq, InInv, Deciding, Adding, Labels
<1>2. /\ holder' \in [Mutex -> Thread \cup {Nobody}]
      /\ holder'["invite_mutex"] = Nobody
      /\ holder'["join_req_mutex"] = holder["join_req_mutex"]
  BY <1>1 DEF Unlock, Mutex
<1>3. QED BY <1>1, <1>2, DoesOnlyItsOwn DEF MutexStep, KeepsMutex

-----------------------------------------------------------------------------
(* Steps that write no file. *)
LEMMA FilesUntouched ==
  ASSUME IInv, NEW t \in Thread, UNCHANGED <<disk, counters>>
  PROVE  FileStep(t)
BY DEF IInv, FileStep, FilesKept, GroupsKept, MembersKept, SameMember, RequestsKept,
       InvitesKept, disk, counters

LEMMA ReadingIsSound ==
  ASSUME IInv, NEW t \in Thread, NEW l \in Labels, NEW c, Does(t, l, c),
         MutexStep(t), UNCHANGED <<disk, counters>>,
         Fit(groups, members, requests, invites, l, c)
  PROVE  Sound(t)
<1>1. OthersStay(t) /\ pc'[t] = l /\ loc'[t] = c
  BY DoesOnlyItsOwn
<1>2. FileStep(t)
  BY FilesUntouched
<1>3. OwnFit(t)
  BY <1>1 DEF OwnFit, disk
<1>4. QED BY <1>1, <1>2, <1>3 DEF Sound

(* Nothing is claimed of a thread that is idle. *)
LEMMA IdleFits ==
  ASSUME NEW g, NEW m, NEW r, NEW v
  PROVE  /\ Fit(g, m, r, v, "idle", NoCall) /\ "idle" \in Labels
         /\ ~InReq("idle", NoCall) /\ ~InInv("idle", NoCall)
<1>1. NoCall \in CallRecord /\ NoCall.cmd = "none"
  BY NoCallType DEF NoCall, NewCall
<1>2. QED
  BY <1>1 DEF Fit, ArgsFit, GroupFit, MemberFit, FoundFit, RequestFit, InviteFit, Serves,
              InReq, InInv, Deciding, Adding, Labels

(* A call that returns outside of the mutexes, *)
LEMMA ReturnIsSound ==
  ASSUME IInv, NEW t \in Thread, Return(t), UNCHANGED <<disk, counters, holder>>,
         ~InReq(pc[t], loc[t]), ~InInv(pc[t], loc[t])
  PROVE  Sound(t)
<1>1. Does(t, "idle", NoCall)
  BY Returned
<1>2. MutexStep(t)
  BY <1>1, IdleFits, MutexesUntouched
<1>3. QED BY <1>1, <1>2, IdleFits, ReadingIsSound

(* and one that gives its mutex back. *)
LEMMA UnlockIsSound ==
  ASSUME IInv, NEW t \in Thread, Return(t), UNCHANGED <<disk, counters>>,
         \/ Unlock("join_req_mutex") /\ InReq(pc[t], loc[t])
         \/ Unlock("invite_mutex") /\ InInv(pc[t], loc[t])
  PROVE  Sound(t)
<1>1. Does(t, "idle", NoCall)
  BY Returned
<1>2. MutexStep(t)
  BY <1>1, RequestsUnlocked, InvitesUnlocked
<1>3. QED BY <1>1, <1>2, IdleFits, ReadingIsSound

(* The labels of which nothing is claimed but the arguments. *)
Plain ==
  {"cg_load", "cg_store", "cg_group",
   "rm_owner", "rm_target", "rm_read", "rm_gread",
   "lv_member", "lv_owner", "lv_info", "lv_read", "lv_gread",
   "dg_owner", "dg_read", "dg_mread", "to_owner", "to_member", "to_gread", "to_scan",
   "rj_member", "rj_owner", "rj_info", "rj_lock", "dj_lock",
   "iv_owner", "iv_member", "iv_lock", "di_lock",
   "lg_members", "lg_groups", "lm_member", "lm_count", "lm_fill", "ln_count"}

LEMMA PlainFits ==
  ASSUME NEW g, NEW m, NEW r, NEW v, NEW l \in Plain, NEW c \in CallRecord,
         Serves(l, c.cmd), c.user \in Name, c.name \in Name,
         c.cmd \in {"request_join", "invite"} => c.gid \in GroupId,
         c.cmd = "decide_invite" => c.name = c.user
  PROVE  /\ Fit(g, m, r, v, l, c) /\ l \in Labels
         /\ ~InReq(l, c) /\ ~InInv(l, c)
BY DEF Plain, Fit, ArgsFit, GroupFit, MemberFit, FoundFit, RequestFit, InviteFit,
       InReq, InInv, Deciding, Adding, Labels

(* From one plain label to another. *)
LEMMA PlainIsSound ==
  ASSUME IInv, NEW t \in Thread, pc[t] \in Plain, NEW l \in Plain,
         NEW c \in CallRecord, Does(t, l, c),
         c.cmd = loc[t].cmd, Serves(l, c.cmd), c.user = loc[t].user, c.name = loc[t].name,
         c.gid = loc[t].gid \/ c.cmd \notin {"request_join", "invite"},
         UNCHANGED <<disk, counters, holder>>
  PROVE  Sound(t)
<1>1. pc[t] # "idle" /\ ArgsFit(pc[t], loc[t])
  BY ThreadFacts DEF Plain
<1>2. /\ c.user \in Name /\ c.name \in Name
      /\ c.cmd \in {"request_join", "invite"} => c.gid \in GroupId
      /\ c.cmd = "decide_invite" => c.name = c.user
  BY <1>1 DEF ArgsFit
<1>3. /\ Fit(groups, members, requests, invites, l, c) /\ l \in Labels
      /\ ~InReq(l, c) /\ ~InInv(l, c)
  BY <1>2, PlainFits
<1>4. ~InReq(pc[t], loc[t]) /\ ~InInv(pc[t], loc[t])
  BY DEF Plain, InReq, InInv, Deciding, Adding
<1>5. MutexStep(t)
  BY <1>3, <1>4, MutexesUntouched
<1>6. QED BY <1>3, <1>5, ReadingIsSound

LEMMA CheckIsSound ==
  ASSUME IInv, NEW t \in Thread, NEW label \in Plain, NEW ok, NEW next \in Plain,
         Check(t, label, ok, next), Serves(label, loc[t].cmd) => Serves(next, loc[t].cmd)
  PROVE  Sound(t)
<1>1. pc[t] = label /\ UNCHANGED <<disk, counters, holder>>
  BY DEF Check
<1>2. CASE Return(t)
  <2>1. ~InReq(pc[t], loc[t]) /\ ~InInv(pc[t], loc[t])
    BY <1>1 DEF Plain, InReq, InInv, Deciding, Adding
  <2>2. QED BY <1>1, <1>2, <2>1, ReturnIsSound
<1>3. CASE Goto(t, next) /\ UNCHANGED loc
  <2>1. Does(t, next, loc[t])
    BY <1>3, SameLocals
  <2>2. Serves(next, loc[t].cmd) /\ loc[t] \in CallRecord
    BY <1>1, ThreadFacts DEF ArgsFit
  <2>3. QED BY <1>1, <2>1, <2>2, PlainIsSound
<1>4. QED BY <1>2, <1>3 DEF Check

-----------------------------------------------------------------------------
(* The steps that read. *)
LEMMA ChecksAreSound ==
  ASSUME IInv, NEW t \in Thread,
         \/ RM_Owner(t) \/ RM_Target(t) \/ LV_Member(t) \/ LV_Info(t) \/ DG_Owner(t)
         \/ TO_Owner(t) \/ TO_Member(t)
         \/ RJ_Member(t) \/ RJ_Owner(t) \/ RJ_Info(t) \/ IV_Owner(t) \/ IV_Member(t)
         \/ LG_Members(t) \/ LM_Member(t) \/ LM_Count(t)
  PROVE  Sound(t)
<1>1. ASSUME NEW label \in Plain, NEW next \in Plain, NEW ok,
             Check(t, label, ok, next),
             \A cmd : Serves(label, cmd) => Serves(next, cmd)
      PROVE  Sound(t)
  BY <1>1, CheckIsSound
<1>2. \A cmd : /\ Serves("rm_target", cmd) /\ Serves("rm_read", cmd)
               /\ Serves("lv_owner", cmd) /\ Serves("dg_owner", cmd)
               /\ Serves("dg_read", cmd) /\ Serves("to_member", cmd)
               /\ Serves("to_gread", cmd) /\ Serves("lg_groups", cmd)
               /\ Serves("lm_count", cmd) /\ Serves("lm_fill", cmd)
               /\ Serves("rj_member", cmd) => Serves("rj_owner", cmd)
               /\ Serves("rj_owner", cmd) => Serves("rj_info", cmd)
               /\ Serves("rj_info", cmd) => Serves("rj_lock", cmd)
               /\ Serves("iv_owner", cmd) => Serves("iv_member", cmd)
               /\ Serves("iv_member", cmd) => Serves("iv_lock", cmd)
  BY DEF Serves, Adding
<1>3. {"rm_owner", "rm_target", "rm_read", "lv_member", "lv_owner", "lv_info",
       "dg_owner", "dg_read", "to_owner", "to_member", "to_gread", "rj_member",
       "rj_owner", "rj_info", "rj_lock", "iv_owner", "iv_member", "iv_lock",
       "lg_members", "lg_groups", "lm_member", "lm_count", "lm_fill"} \subseteq Plain
  BY DEF Plain
<1>4. CASE RM_Owner(t) BY <1>1, <1>2, <1>3, <1>4 DEF RM_Owner
<1>5. CASE RM_Target(t) BY <1>1, <1>2, <1>3, <1>5 DEF RM_Target
<1>6. CASE LV_Member(t) BY <1>1, <1>2, <1>3, <1>6 DEF LV_Member
<1>7. CASE LV_Info(t) BY <1>1, <1>2, <1>3, <1>7 DEF LV_Info
<1>8. CASE DG_Owner(t) BY <1>1, <1>2, <1>3, <1>8 DEF DG_Owner
<1>9. CASE TO_Owner(t) BY <1>1, <1>2, <1>3, <1>9 DEF TO_Owner
<1>10. CASE TO_Member(t) BY <1>1, <1>2, <1>3, <1>10 DEF TO_Member
<1>11. CASE RJ_Member(t) BY <1>1, <1>2, <1>3, <1>11 DEF RJ_Member
<1>12. CASE RJ_Owner(t) BY <1>1, <1>2, <1>3, <1>12 DEF RJ_Owner
<1>13. CASE RJ_Info(t) BY <1>1, <1>2, <1>3, <1>13 DEF RJ_Info
<1>14. CASE IV_Owner(t) BY <1>1, <1>2, <1>3, <1>14 DEF IV_Owner
<1>15. CASE IV_Member(t) BY <1>1, <1>2, <1>3, <1>15 DEF IV_Member
<1>16. CASE LG_Members(t) BY <1>1, <1>2, <1>3, <1>16 DEF LG_Members
<1>17. CASE LM_Member(t) BY <1>1, <1>2, <1>3, <1>17 DEF LM_Member
<1>18. CASE LM_Count(t) BY <1>1, <1>2, <1>3, <1>18 DEF LM_Count
<1>19. QED BY <1>4, <1>5, <1>6, <1>7, <1>8, <1>9, <1>10, <1>11, <1>12, <1>13, <1>14,
              <1>15, <1>16, <1>17, <1>18

LEMMA OwnerBranchIsSound ==
  ASSUME IInv, NEW t \in Thread, LV_Owner(t)
  PROVE  Sound(t)
<1>1. PICK l \in {"lv_info", "lv_read"} : Goto(t, l)
  BY DEF LV_Owner
<1>2. /\ UNCHANGED loc /\ UNCHANGED <<disk, counters, holder>>
      /\ pc[t] \in Plain /\ l \in Plain /\ Serves(l, loc[t].cmd)
  BY <1>1 DEF LV_Owner, Plain, Serves, Adding
<1>3. Does(t, l, loc[t]) /\ loc[t] \in CallRecord
  BY <1>1, <1>2, SameLocals, ThreadFacts
<1>4. QED BY <1>2, <1>3, PlainIsSound

(* The ends of the listings that take no mutex. *)
LEMMA UnlockedListingIsSound ==
  ASSUME IInv, NEW t \in Thread, LG_Groups(t) \/ LM_Fill(t)
  PROVE  Sound(t)
<1>1. Return(t) /\ UNCHANGED <<disk, counters, holder>>
  BY DEF LG_Groups, LM_Fill
<1>2. ~InReq(pc[t], loc[t]) /\ ~InInv(pc[t], loc[t])
  BY DEF LG_Groups, LM_Fill, InReq, InInv, Deciding, Adding
<1>3. QED BY <1>1, <1>2, ReturnIsSound

-----------------------------------------------------------------------------
(* The steps that read a record to write it back. *)
LEMMA GroupRecordChanges ==
  ASSUME NEW r \in GroupRecordDB, NEW u \in Name
  PROVE  \A r2 : \/ r2 = [r EXCEPT !.member_count = @ + 1]
                \/ r2 = [r EXCEPT !.member_count = @ - 1]
                \/ r2 = [r EXCEPT !.member_count = IF @ > 0 THEN @ - 1 ELSE @]
                \/ r2 = [r EXCEPT !.is_active = FALSE]
                \/ r2 = [r EXCEPT !.owner = u]
                => r2 \in GroupRecordDB /\ r2.group_id = r.group_id
<1>1. r.member_count \in Int
  BY DEF GroupRecordDB
<1>2. /\ [r EXCEPT !.member_count = @ + 1] \in GroupRecordDB
      /\ [r EXCEPT !.member_count = @ + 1].group_id = r.group_id
  BY <1>1 DEF GroupRecordDB
<1>3. /\ [r EXCEPT !.member_count = @ - 1] \in GroupRecordDB
      /\ [r EXCEPT !.member_count = @ - 1].group_id = r.group_id
  BY <1>1 DEF GroupRecordDB
<1>4. /\ [r EXCEPT !.member_count = IF @ > 0 THEN @ - 1 ELSE @] \in GroupRecordDB
      /\ [r EXCEPT !.member_count = IF @ > 0 THEN @ - 1 ELSE @].group_id = r.group_id
  BY <1>1 DEF GroupRecordDB
<1>5. /\ [r EXCEPT !.is_active = FALSE] \in GroupRecordDB
      /\ [r EXCEPT !.is_active = FALSE].group_id = r.group_id
  BY DEF GroupRecordDB
<1>6. /\ [r EXCEPT !.owner = u] \in GroupRecordDB
      /\ [r EXCEPT !.owner = u].group_id = r.group_id
  BY DEF GroupRecordDB
<1>7. QED BY <1>2, <1>3, <1>4, <1>5, <1>6

LEMMA MemberRecordChanges ==
  ASSUME NEW r \in MemberRecordDB, NEW gid, NEW u, NEW v
  PROVE  \A r2 : \/ r2 = [r EXCEPT !.is_active = FALSE]
                \/ r2 = RoleAfterTransfer(r, gid, u, v)
                => /\ r2 \in MemberRecordDB
                   /\ r2.group_id = r.group_id /\ r2.username = r.username
<1>1. /\ [r EXCEPT !.is_active = FALSE] \in MemberRecordDB
      /\ [r EXCEPT !.is_active = FALSE].group_id = r.group_id
      /\ [r EXCEPT !.is_active = FALSE].username = r.username
  BY DEF MemberRecordDB
<1>2. r.is_admin \in BOOLEAN
  BY DEF MemberRecordDB
<1>3. PICK b \in BOOLEAN : b = (r.username # u /\ (r.username = v \/ r.is_admin))
  BY <1>2
<1>4. /\ [r EXCEPT !.is_admin = b] \in MemberRecordDB
      /\ [r EXCEPT !.is_admin = b].group_id = r.group_id
      /\ [r EXCEPT !.is_admin = b].username = r.username
  BY DEF MemberRecordDB
<1>5. RoleAfterTransfer(r, gid, u, v) = r \/
      RoleAfterTransfer(r, gid, u, v) = [r EXCEPT !.is_admin = b]
  BY <1>3 DEF RoleAfterTransfer
<1>6. QED BY <1>1, <1>4, <1>5

LEMMA HeldGroupIsSound ==
  ASSUME IInv, NEW t \in Thread, pc[t] \in Plain,
         NEW l \in {"rm_gwrite", "lv_gwrite", "dg_write", "to_gwrite"},
         NEW at \in DOMAIN groups, NEW rec \in GroupRecordDB,
         rec.group_id = groups[at].group_id,
         Hold(t, at, rec), Goto(t, l), UNCHANGED <<disk, counters, holder>>
  PROVE  Sound(t)
<1>1. at \in Nat
  BY ThreadFacts DEF FilesTyped
<1>2. PICK c \in CallRecord : /\ Does(t, l, c) /\ c.at = at /\ c.rec = rec
                              /\ c.cmd = loc[t].cmd /\ c.user = loc[t].user
                              /\ c.name = loc[t].name /\ c.gid = loc[t].gid
  BY <1>1, Held
<1>3. /\ ArgsFit(pc[t], loc[t]) /\ pc[t] # "idle"
      /\ ~InReq(pc[t], loc[t]) /\ ~InInv(pc[t], loc[t])
      /\ ~InReq(l, c) /\ ~InInv(l, c) /\ l \in Labels
  BY ThreadFacts DEF Plain, InReq, InInv, Deciding, Adding, Labels
<1>4. ArgsFit(l, c)
  BY <1>2, <1>3 DEF ArgsFit, Serves, Adding
<1>5. Fit(groups, members, requests, invites, l, c)
  BY <1>2, <1>4 DEF Fit, GroupFit, MemberFit, FoundFit, RequestFit, InviteFit,
                    Deciding, Adding
<1>6. MutexStep(t)
  BY <1>2, <1>3, MutexesUntouched
<1>7. QED BY <1>2, <1>3, <1>5, <1>6, ReadingIsSound

LEMMA HeldMemberIsSound ==
  ASSUME IInv, NEW t \in Thread, pc[t] \in Plain,
         NEW l \in {"rm_write", "lv_write", "dg_mwrite", "to_mwrite"},
         NEW at \in DOMAIN members, NEW rec \in MemberRecordDB,
         SameMember(rec, members[at]), Hold(t, at, rec), Goto(t, l), UNCHANGED <<disk, counters, holder>>
  PROVE  Sound(t)
<1>1. at \in Nat
  BY ThreadFacts DEF FilesTyped
<1>2. PICK c \in CallRecord : /\ Does(t, l, c) /\ c.at = at /\ c.rec = rec
                              /\ c.cmd = loc[t].cmd /\ c.user = loc[t].user
                              /\ c.name = loc[t].name /\ c.gid = loc[t].gid
  BY <1>1, Held
<1>3. /\ ArgsFit(pc[t], loc[t]) /\ pc[t] # "idle"
      /\ ~InReq(pc[t], loc[t]) /\ ~InInv(pc[t], loc[t])
      /\ ~InReq(l, c) /\ ~InInv(l, c) /\ l \in Labels
  BY ThreadFacts DEF Plain, InReq, InInv, Deciding, Adding, Labels
<1>4. ArgsFit(l, c)
  BY <1>2, <1>3 DEF ArgsFit, Serves, Adding
<1>5. Fit(groups, members, requests, invites, l, c)
  BY <1>2, <1>4 DEF Fit, GroupFit, MemberFit, FoundFit, RequestFit, InviteFit,
                    Deciding, Adding
<1>6. MutexStep(t)
  BY <1>2, <1>3, MutexesUntouched
<1>7. QED BY <1>2, <1>3, <1>5, <1>6, ReadingIsSound

LEMMA GroupReadIsSound ==
  ASSUME IInv, NEW t \in Thread,
         RM_ReadGroup(t) \/ LV_ReadGroup(t) \/ DG_Read(t) \/ TO_ReadGroup(t)
  PROVE  Sound(t)
<1>1. PICK at : at = ActiveGroupAt(groups, loc[t].gid)
  OBVIOUS
<1>2. /\ UNCHANGED <<disk, counters, holder>> /\ pc[t] \in Plain
      /\ ~InReq(pc[t], loc[t]) /\ ~InInv(pc[t], loc[t]) /\ pc[t] # "idle"
  BY DEF RM_ReadGroup, LV_ReadGroup, DG_Read, TO_ReadGroup, Plain, InReq, InInv,
         Deciding, Adding
<1>3. CASE Return(t)
  BY <1>2, <1>3, ReturnIsSound
<1>4. CASE ~Return(t)
  <2>1. at # 0
    BY <1>1, <1>4 DEF RM_ReadGroup, LV_ReadGroup, DG_Read, TO_ReadGroup
  <2>2. groups \in Seq(GroupRecordDB) /\ loc[t].name \in Name
    BY <1>2, ThreadFacts DEF FilesTyped, ArgsFit
  <2>3. at \in DOMAIN groups
    BY <1>1, <2>1, <2>2, ActiveGroupFound
  <2>4. groups[at] \in GroupRecordDB
    BY <2>2, <2>3
  <2>5. \A rec, l :
          /\ \/ rec = [groups[at] EXCEPT !.member_count = @ - 1]
             \/ rec = [groups[at] EXCEPT !.member_count = IF @ > 0 THEN @ - 1 ELSE @]
             \/ rec = [groups[at] EXCEPT !.is_active = FALSE]
             \/ rec = [groups[at] EXCEPT !.owner = loc[t].name]
          /\ l \in {"rm_gwrite", "lv_gwrite", "dg_write", "to_gwrite"}
          /\ Hold(t, at, rec) /\ Goto(t, l)
          => Sound(t)
    <3>1. SUFFICES ASSUME NEW rec, NEW l,
                     \/ rec = [groups[at] EXCEPT !.member_count = @ - 1]
                     \/ rec = [groups[at] EXCEPT !.member_count = IF @ > 0 THEN @ - 1 ELSE @]
                     \/ rec = [groups[at] EXCEPT !.is_active = FALSE]
                     \/ rec = [groups[at] EXCEPT !.owner = loc[t].name],
                     l \in {"rm_gwrite", "lv_gwrite", "dg_write", "to_gwrite"},
                     Hold(t, at, rec), Goto(t, l)
                   PROVE  Sound(t)
      OBVIOUS
    <3>2. rec \in GroupRecordDB /\ rec.group_id = groups[at].group_id
      BY <2>2, <2>4, <3>1, GroupRecordChanges
    <3>3. QED BY <1>2, <2>3, <3>1, <3>2, HeldGroupIsSound
  <2>6. CASE RM_ReadGroup(t)
    BY <1>1, <2>1, <2>5, <2>6 DEF RM_ReadGroup
  <2>7. CASE LV_ReadGroup(t)
    BY <1>1, <2>1, <2>5, <2>7 DEF LV_ReadGroup
  <2>8. CASE DG_Read(t)
    BY <1>1, <2>1, <2>5, <2>8 DEF DG_Read
  <2>9. CASE TO_ReadGroup(t)
    BY <1>1, <2>1, <2>5, <2>9 DEF TO_ReadGroup
  <2>10. QED BY <2>6, <2>7, <2>8, <2>9
<1>5. QED BY <1>3, <1>4

LEMMA MemberReadIsSound ==
  ASSUME IInv, NEW t \in Thread,
         RM_Read(t) \/ LV_Read(t) \/ DG_ReadMember(t) \/ TO_Scan(t)
  PROVE  Sound(t)
<1>1. /\ UNCHANGED <<disk, counters, holder>> /\ pc[t] \in Plain
      /\ ~InReq(pc[t], loc[t]) /\ ~InInv(pc[t], loc[t])
      /\ members \in Seq(MemberRecordDB)
  BY ThreadFacts DEF RM_Read, LV_Read, ReadMemberToDeactivate, DG_ReadMember, TO_Scan,
         Plain, InReq, InInv, Deciding, Adding, FilesTyped
<1>2. CASE Return(t)
  BY <1>1, <1>2, ReturnIsSound
<1>3. ASSUME NEW at \in DOMAIN members, NEW rec, NEW l,
             \/ rec = [members[at] EXCEPT !.is_active = FALSE]
             \/ rec = RoleAfterTransfer(members[at], loc[t].gid, loc[t].user, loc[t].name),
             l \in {"rm_write", "lv_write", "dg_mwrite", "to_mwrite"},
             Hold(t, at, rec), Goto(t, l)
      PROVE  Sound(t)
  <2>1. members[at] \in MemberRecordDB
    BY <1>1
  <2>2. /\ rec \in MemberRecordDB
        /\ SameMember(rec, members[at])
    BY <1>3, <2>1, MemberRecordChanges DEF SameMember
  <2>3. QED BY <1>1, <1>3, <2>2, HeldMemberIsSound
<1>4. CASE (RM_Read(t) \/ LV_Read(t)) /\ ~Return(t)
  <2>1. PICK at, l : /\ at = ActiveMemberAt(members, loc[t].gid, loc[t].name)
                        \/ at = ActiveMemberAt(members, loc[t].gid, loc[t].user)
                     /\ l \in {"rm_write", "lv_write"}
                     /\ at # 0
                     /\ Hold(t, at, [members[at] EXCEPT !.is_active = FALSE])
                     /\ Goto(t, l)
    BY <1>4 DEF RM_Read, LV_Read, ReadMemberToDeactivate
  <2>2. at \in DOMAIN members
    BY <1>1, <2>1, ActiveMemberFound
  <2>3. QED BY <1>3, <2>1, <2>2
<1>5. CASE DG_ReadMember(t) /\ ~Return(t)
  <2>1. PICK at : /\ at = FirstActiveMemberAt(members, loc[t].gid) /\ at # 0
                  /\ Hold(t, at, [members[at] EXCEPT !.is_active = FALSE])
                  /\ Goto(t, "dg_mwrite")
    BY <1>5 DEF DG_ReadMember
  <2>2. at \in DOMAIN members
    BY <1>1, <2>1, FirstActiveMemberFound DEF ActiveMembers
  <2>3. QED BY <1>3, <2>1, <2>2
<1>6. CASE TO_Scan(t) /\ ~Return(t)
  <2>1. PICK at : /\ at = Min(RolesBehind(t)) /\ RolesBehind(t) # {}
                  /\ Hold(t, at, RoleAfterTransfer(members[at], loc[t].gid,
                                                   loc[t].user, loc[t].name))
                  /\ Goto(t, "to_mwrite")
    BY <1>6 DEF TO_Scan
  <2>2. RolesBehind(t) \in SUBSET Nat /\ RolesBehind(t) \subseteq DOMAIN members
    BY <1>1 DEF RolesBehind
  <2>3. at \in DOMAIN members
    BY <2>1, <2>2, MinNat
  <2>4. QED BY <1>3, <2>1, <2>3
<1>7. QED BY <1>2, <1>4, <1>5, <1>6

-----------------------------------------------------------------------------
(* The steps that write groups.dat and members.dat. *)
LEMMA WritingIsSound ==
  ASSUME IInv, NEW t \in Thread, NEW l \in Labels, NEW c, Does(t, l, c),
         MutexStep(t), FileStep(t), Fit(groups', members', requests', invites', l, c)
  PROVE  Sound(t)
BY DoesOnlyItsOwn DEF Sound, OwnFit

LEMMA GroupsWritten ==
  ASSUME IInv, NEW t \in Thread, groups' \in Seq(GroupRecordDB),
         GroupsKept(groups, groups'), next_group_id' \in Nat \ {0},
         UNCHANGED <<members, requests, invites, next_join_request_id, next_invite_id>>
  PROVE  FileStep(t)
<1>1. FilesFit(groups, members, requests, invites,
               next_group_id, next_join_request_id, next_invite_id)
  BY DEF IInv
<1>2. MembersHaveGroups(members, groups')
  BY <1>1 DEF FilesFit, MembersHaveGroups, HasGroup, GroupsKept
<1>3. FilesFit(groups', members', requests', invites',
               next_group_id', next_join_request_id', next_invite_id')
  BY <1>1, <1>2 DEF FilesFit, FilesTyped
<1>4. FilesKept(groups, members, requests, invites, groups', members', requests', invites')
  BY DEF FilesKept, MembersKept, SameMember, RequestsKept, InvitesKept
<1>5. QED BY <1>3, <1>4 DEF FileStep

LEMMA MembersWritten ==
  ASSUME IInv, NEW t \in Thread, members' \in Seq(MemberRecordDB),
         MembersKept(members, members'), MembersHaveGroups(members', groups),
         UNCHANGED <<groups, requests, invites, counters>>
  PROVE  FileStep(t)
<1>1. FilesFit(groups, members, requests, invites,
               next_group_id, next_join_request_id, next_invite_id)
  BY DEF IInv
<1>2. ApprovalsHaveMembers(requests, invites, members')
  <2>1. \A gid, u : HasRecord(members, gid, u) => HasRecord(members', gid, u)
    BY DEF MembersKept, SameMember, HasRecord
  <2>2. ApprovalsHaveMembers(requests, invites, members)
    BY <1>1 DEF FilesFit
  <2>3. QED BY <2>1, <2>2 DEF ApprovalsHaveMembers
<1>3. FilesFit(groups', members', requests', invites',
               next_group_id', next_join_request_id', next_invite_id')
  BY <1>1, <1>2 DEF FilesFit, FilesTyped, counters
<1>4. FilesKept(groups, members, requests, invites, groups', members', requests', invites')
  BY DEF FilesKept, GroupsKept, RequestsKept, InvitesKept
<1>5. QED BY <1>3, <1>4 DEF FileStep

(* A record written back to where it was read. *)
LEMMA GroupStored ==
  ASSUME NEW g \in Seq(GroupRecordDB), NEW at \in DOMAIN g, NEW rec \in GroupRecordDB,
         rec.group_id = g[at].group_id, NEW g2, g2 = [g EXCEPT ![at] = rec]
  PROVE  g2 \in Seq(GroupRecordDB) /\ GroupsKept(g, g2)
<1>1. DOMAIN g2 = DOMAIN g /\ g2[at] = rec /\ \A i \in DOMAIN g : i # at => g2[i] = g[i]
  OBVIOUS
<1>2. g2 \in Seq(GroupRecordDB)
  OBVIOUS
<1>3. QED BY <1>1, <1>2 DEF GroupsKept

LEMMA MemberStored ==
  ASSUME NEW m \in Seq(MemberRecordDB), NEW at \in DOMAIN m, NEW rec \in MemberRecordDB,
         SameMember(rec, m[at]), NEW m2, m2 = [m EXCEPT ![at] = rec]
  PROVE  /\ m2 \in Seq(MemberRecordDB) /\ MembersKept(m, m2)
         /\ \A g : MembersHaveGroups(m, g) => MembersHaveGroups(m2, g)
<1>1. DOMAIN m2 = DOMAIN m /\ m2[at] = rec /\ \A i \in DOMAIN m : i # at => m2[i] = m[i]
  OBVIOUS
<1>2. m2 \in Seq(MemberRecordDB)
  OBVIOUS
<1>3. \A i \in DOMAIN m : SameMember(m2[i], m[i])
  BY <1>1 DEF SameMember
<1>4. \A i \in DOMAIN m : m2[i].group_id = m[i].group_id
  BY <1>3 DEF SameMember
<1>5. QED BY <1>1, <1>2, <1>3, <1>4 DEF MembersKept, MembersHaveGroups

(* An append. *)
LEMMA GroupAdded ==
  ASSUME NEW g \in Seq(GroupRecordDB), NEW rec \in GroupRecordDB,
         NEW g2, g2 = Append(g, rec)
  PROVE  /\ g2 \in Seq(GroupRecordDB) /\ GroupsKept(g, g2)
         /\ HasGroup(g2, rec.group_id)
<1>1. /\ g2 \in Seq(GroupRecordDB) /\ Len(g) \in Nat
      /\ DOMAIN g = 1..Len(g) /\ DOMAIN g2 = 1..(Len(g) + 1)
      /\ \A i \in DOMAIN g : g2[i] = g[i]
      /\ g2[Len(g) + 1] = rec
  OBVIOUS
<1>2. Len(g) + 1 \in DOMAIN g2 /\ \A i \in DOMAIN g : i \in DOMAIN g2
  BY <1>1
<1>3. QED BY <1>1, <1>2 DEF GroupsKept, HasGroup

LEMMA MemberAdded ==
  ASSUME NEW m \in Seq(MemberRecordDB), NEW rec \in MemberRecordDB,
         NEW m2, m2 = Append(m, rec)
  PROVE  /\ m2 \in Seq(MemberRecordDB) /\ MembersKept(m, m2)
         /\ HasRecord(m2, rec.group_id, rec.username)
         /\ \A g : MembersHaveGroups(m, g) /\ HasGroup(g, rec.group_id)
                   => MembersHaveGroups(m2, g)
<1>1. /\ m2 \in Seq(MemberRecordDB) /\ Len(m) \in Nat
      /\ DOMAIN m = 1..Len(m) /\ DOMAIN m2 = 1..(Len(m) + 1)
      /\ \A i \in DOMAIN m : m2[i] = m[i]
      /\ m2[Len(m) + 1] = rec
  OBVIOUS
<1>2. /\ Len(m) + 1 \in DOMAIN m2 /\ \A i \in DOMAIN m : i \in DOMAIN m2
      /\ \A i \in DOMAIN m2 : i \in DOMAIN m \/ i = Len(m) + 1
  BY <1>1
<1>3. MembersKept(m, m2) /\ HasRecord(m2, rec.group_id, rec.username)
  BY <1>1, <1>2 DEF MembersKept, SameMember, HasRecord
<1>4. ASSUME NEW g, MembersHaveGroups(m, g), HasGroup(g, rec.group_id)
      PROVE  MembersHaveGroups(m2, g)
  BY <1>1, <1>2, <1>4 DEF MembersHaveGroups
<1>5. QED BY <1>1, <1>3, <1>4

LEMMA StoreGroupWrites ==
  ASSUME IInv, NEW t \in Thread, NEW label, StoreGroup(t, label),
         label \in {"rm_gwrite", "lv_gwrite", "dg_write", "to_gwrite"}
  PROVE  /\ FileStep(t) /\ UNCHANGED <<holder, members, requests, invites>>
         /\ ~InReq(pc[t], loc[t]) /\ ~InInv(pc[t], loc[t])
<1>1. /\ pc[t] = label /\ groups \in Seq(GroupRecordDB)
      /\ next_group_id \in Nat \ {0}
      /\ GroupFit(groups, pc[t], loc[t])
  BY ThreadFacts DEF StoreGroup, FilesTyped, IInv, FilesFit
<1>2. groups' \in Seq(GroupRecordDB) /\ GroupsKept(groups, groups')
  BY <1>1, GroupStored DEF StoreGroup, GroupFit
<1>3. /\ next_group_id' \in Nat \ {0}
      /\ UNCHANGED <<members, requests, invites, next_join_request_id, next_invite_id>>
      /\ UNCHANGED holder
  BY <1>1 DEF StoreGroup, counters
<1>4. QED BY <1>1, <1>2, <1>3, GroupsWritten DEF InReq, InInv, Deciding, Adding

LEMMA StoreMemberWrites ==
  ASSUME IInv, NEW t \in Thread, NEW label, StoreMember(t, label),
         label \in {"rm_write", "lv_write", "dg_mwrite", "to_mwrite"}
  PROVE  /\ FileStep(t) /\ UNCHANGED <<holder, groups, requests, invites>>
         /\ ~InReq(pc[t], loc[t]) /\ ~InInv(pc[t], loc[t])
<1>1. /\ pc[t] = label /\ members \in Seq(MemberRecordDB)
      /\ MembersHaveGroups(members, groups)
      /\ MemberFit(members, pc[t], loc[t])
  BY ThreadFacts DEF StoreMember, FilesTyped, IInv, FilesFit
<1>2. /\ members' \in Seq(MemberRecordDB) /\ MembersKept(members, members')
      /\ MembersHaveGroups(members', groups)
  <2>1. PICK at \in DOMAIN members, rec \in MemberRecordDB :
          /\ SameMember(rec, members[at])
          /\ members' = [members EXCEPT ![at] = rec]
    BY <1>1 DEF StoreMember, MemberFit
  <2>2. /\ members' \in Seq(MemberRecordDB) /\ MembersKept(members, members')
        /\ \A g : MembersHaveGroups(members, g) => MembersHaveGroups(members', g)
    BY <1>1, <2>1, MemberStored
  <2>3. QED BY <1>1, <2>2
<1>3. UNCHANGED <<groups, requests, invites, counters>> /\ UNCHANGED holder
  BY <1>1 DEF StoreMember
<1>4. QED BY <1>1, <1>2, <1>3, MembersWritten DEF InReq, InInv, Deciding, Adding

(* What follows the write is the end of the call or a plain label. *)
LEMMA StoreIsSound ==
  ASSUME IInv, NEW t \in Thread, NEW l \in Plain, NEW c \in CallRecord,
         FileStep(t), UNCHANGED holder,
         ~InReq(pc[t], loc[t]), ~InInv(pc[t], loc[t]), pc[t] # "idle",
         \/ Return(t)
         \/ /\ Does(t, l, c) /\ Serves(l, c.cmd)
            /\ c.cmd = loc[t].cmd /\ c.user = loc[t].user
            /\ c.name = loc[t].name /\ c.gid = loc[t].gid
  PROVE  Sound(t)
<1>1. CASE Return(t)
  <2>1. Does(t, "idle", NoCall)
    BY <1>1, Returned
  <2>2. MutexStep(t)
    BY <2>1, IdleFits, MutexesUntouched
  <2>3. QED BY <2>1, <2>2, IdleFits, WritingIsSound
<1>2. CASE ~Return(t)
  <2>1. ArgsFit(pc[t], loc[t])
    BY ThreadFacts
  <2>2. /\ c.user \in Name /\ c.name \in Name
        /\ c.cmd \in {"request_join", "invite"} => c.gid \in GroupId
        /\ c.cmd = "decide_invite" => c.name = c.user
    BY <1>2, <2>1 DEF ArgsFit
  <2>3. /\ Fit(groups', members', requests', invites', l, c) /\ l \in Labels
        /\ ~InReq(l, c) /\ ~InInv(l, c)
    BY <1>2, <2>2, PlainFits
  <2>4. MutexStep(t)
    BY <1>2, <2>3, MutexesUntouched
  <2>5. QED BY <1>2, <2>3, <2>4, WritingIsSound
<1>3. QED BY <1>1, <1>2

LEMMA StoresAreSound ==
  ASSUME IInv, NEW t \in Thread,
         \/ RM_Write(t) \/ RM_WriteGroup(t) \/ LV_Write(t) \/ LV_WriteGroup(t)
         \/ DG_Write(t) \/ TO_WriteGroup(t) \/ TO_WriteMember(t)
  PROVE  Sound(t)
<1>1. /\ FileStep(t) /\ UNCHANGED holder
      /\ ~InReq(pc[t], loc[t]) /\ ~InInv(pc[t], loc[t]) /\ pc[t] # "idle"
  <2>1. PICK label : \/ /\ label \in {"rm_gwrite", "lv_gwrite", "dg_write", "to_gwrite"}
                        /\ StoreGroup(t, label)
                     \/ /\ label \in {"rm_write", "lv_write", "dg_mwrite", "to_mwrite"}
                        /\ StoreMember(t, label)
    BY DEF RM_Write, RM_WriteGroup, LV_Write, LV_WriteGroup, DG_Write,
           TO_WriteGroup, TO_WriteMember
  <2>2. pc[t] # "idle"
    BY <2>1 DEF StoreGroup, StoreMember
  <2>3. QED BY <2>1, <2>2, StoreGroupWrites, StoreMemberWrites
<1>2. loc[t] \in CallRecord /\ "to_scan" \in Plain
  BY ThreadFacts DEF Plain
<1>3. \A cmd : \A l \in {"rm_gread", "lv_gread", "dg_mread", "to_scan"} :
        l \in Plain /\ Serves(l, cmd)
  BY DEF Plain, Serves, Adding
<1>4. CASE Return(t)
  BY <1>1, <1>2, <1>4, StoreIsSound
<1>5. CASE TO_WriteGroup(t)
  <2>1. Hold(t, 0, NoRecord) /\ Goto(t, "to_scan")
    BY <1>5 DEF TO_WriteGroup
  <2>2. PICK c \in CallRecord :
          /\ Does(t, "to_scan", c) /\ c.cmd = loc[t].cmd /\ c.user = loc[t].user
          /\ c.name = loc[t].name /\ c.gid = loc[t].gid
    BY <2>1, Held
  <2>3. QED BY <1>1, <1>3, <2>2, StoreIsSound
<1>6. ASSUME NEW l \in {"rm_gread", "lv_gread", "dg_mread", "to_scan"},
             Goto(t, l), UNCHANGED loc
      PROVE  Sound(t)
  <2>1. Does(t, l, loc[t])
    BY <1>6, SameLocals
  <2>2. QED BY <1>1, <1>2, <1>3, <2>1, StoreIsSound
<1>7. QED
  BY <1>4, <1>5, <1>6 DEF RM_Write, RM_WriteGroup, LV_Write, LV_WriteGroup, DG_Write,
         TO_WriteMember

-----------------------------------------------------------------------------
(* The end of delete_group: the pass behind the record it has written. *)
LEMMA PassFits ==
  ASSUME IInv, NEW t \in Thread, pc[t] \in {"dg_mwrite", "dg_next"},
         NEW g, NEW m, NEW r, NEW v, NEW l \in {"dg_next", "dg_cut"},
         NEW c \in CallRecord, c.cmd = loc[t].cmd, c.user = loc[t].user,
         c.name = loc[t].name, c.gid = loc[t].gid, MemberFit(m, l, c)
  PROVE  /\ Fit(g, m, r, v, l, c) /\ l \in Labels
         /\ ~InReq(l, c) /\ ~InInv(l, c)
         /\ ~InReq(pc[t], loc[t]) /\ ~InInv(pc[t], loc[t])
<1>1. ArgsFit(pc[t], loc[t]) /\ pc[t] # "idle"
  BY ThreadFacts
<1>2. ArgsFit(l, c)
  BY <1>1 DEF ArgsFit, Serves, Adding
<1>3. /\ ~InReq(l, c) /\ ~InInv(l, c) /\ l \in Labels
      /\ ~InReq(pc[t], loc[t]) /\ ~InInv(pc[t], loc[t])
  BY DEF InReq, InInv, Deciding, Adding, Labels
<1>4. QED
  BY <1>2, <1>3 DEF Fit, GroupFit, FoundFit, RequestFit, InviteFit, Deciding, Adding

LEMMA PassGoesOnIsSound ==
  ASSUME IInv, NEW t \in Thread, DG_WriteMember(t)
  PROVE  Sound(t)
<1>1. /\ StoreMember(t, "dg_mwrite") /\ Goto(t, "dg_next") /\ UNCHANGED loc
      /\ pc[t] = "dg_mwrite"
  BY DEF DG_WriteMember, StoreMember
<1>2. FileStep(t) /\ UNCHANGED holder
  BY <1>1, StoreMemberWrites
<1>3. loc[t] \in CallRecord /\ loc[t].at \in DOMAIN members
  BY <1>1, ThreadFacts DEF MemberFit
<1>4. MemberFit(members', "dg_next", loc[t])
  BY <1>2, <1>3 DEF FileStep, FilesKept, MembersKept, MemberFit
<1>5. /\ Fit(groups', members', requests', invites', "dg_next", loc[t])
      /\ "dg_next" \in Labels
      /\ ~InReq("dg_next", loc[t]) /\ ~InInv("dg_next", loc[t])
      /\ ~InReq(pc[t], loc[t]) /\ ~InInv(pc[t], loc[t])
  BY <1>1, <1>3, <1>4, PassFits
<1>6. Does(t, "dg_next", loc[t])
  BY <1>1, SameLocals
<1>7. MutexStep(t)
  BY <1>2, <1>5, <1>6, MutexesUntouched
<1>8. QED BY <1>2, <1>5, <1>6, <1>7, WritingIsSound

(* It takes two halves of records for a member with a long name, *)
LEMMA PassReadIsSound ==
  ASSUME IInv, NEW t \in Thread, DG_Next(t)
  PROVE  Sound(t)
<1>1. PICK j, rec : j = MisreadAt(members, loc[t].gid, loc[t].at) /\ rec = Misread(members, j)
  OBVIOUS
<1>2. /\ UNCHANGED <<disk, counters, holder>> /\ pc[t] = "dg_next"
      /\ Return(t) \/ (j # 0 /\ Hold(t, j, rec) /\ Goto(t, "dg_cut"))
  BY <1>1 DEF DG_Next
<1>3. members \in Seq(MemberRecordDB) /\ loc[t].at \in DOMAIN members
  BY <1>2, ThreadFacts DEF FilesTyped, MemberFit
<1>4. CASE Return(t)
  <2>1. ~InReq(pc[t], loc[t]) /\ ~InInv(pc[t], loc[t])
    BY <1>2 DEF InReq, InInv, Deciding, Adding
  <2>2. QED BY <1>2, <1>4, <2>1, ReturnIsSound
<1>5. CASE j # 0 /\ Hold(t, j, rec) /\ Goto(t, "dg_cut")
  <2>1. j \in DOMAIN members /\ j + 1 \in DOMAIN members
    BY <1>1, <1>3, <1>5, MisreadFound
  <2>2. /\ rec \in MemberRecordDB
        /\ rec.group_id = members[j + 1].group_id
        /\ rec.username = Prefix44[members[j + 1].username]
    BY <1>1, <1>3, <2>1, MisreadRecord
  <2>3. members[j + 1].username \in Name
    <3>1. members[j + 1] \in MemberRecordDB
      BY <1>3, <2>1
    <3>2. QED BY <3>1 DEF MemberRecordDB
  <2>4. SameMember(rec, members[j + 1])
    BY <2>2, <2>3, PrefixAssumption DEF SameMember
  <2>5. j \in Nat
    BY <1>3, <2>1
  <2>6. PICK c \in CallRecord : /\ Does(t, "dg_cut", c) /\ c.at = j /\ c.rec = rec
                                /\ c.cmd = loc[t].cmd /\ c.user = loc[t].user
                                /\ c.name = loc[t].name /\ c.gid = loc[t].gid
    BY <1>5, <2>2, <2>5, Held
  <2>7. MemberFit(members, "dg_cut", c)
    BY <2>1, <2>2, <2>4, <2>6 DEF MemberFit
  <2>8. /\ Fit(groups, members, requests, invites, "dg_cut", c) /\ "dg_cut" \in Labels
        /\ ~InReq("dg_cut", c) /\ ~InInv("dg_cut", c)
        /\ ~InReq(pc[t], loc[t]) /\ ~InInv(pc[t], loc[t])
    BY <1>2, <2>6, <2>7, PassFits
  <2>9. MutexStep(t)
    BY <1>2, <2>6, <2>8, MutexesUntouched
  <2>10. QED BY <1>2, <2>6, <2>8, <2>9, ReadingIsSound
<1>6. QED BY <1>2, <1>4, <1>5

(* and writes them back, which cuts the name. *)
LEMMA CutIsSound ==
  ASSUME IInv, NEW t \in Thread, DG_Cut(t)
  PROVE  Sound(t)
<1>1. /\ pc[t] = "dg_cut" /\ Return(t) /\ UNCHANGED holder
      /\ UNCHANGED <<groups, requests, invites, counters>>
      /\ members' = StoreMisread(members, loc[t].at, loc[t].rec)
  BY DEF DG_Cut
<1>2. /\ members \in Seq(MemberRecordDB) /\ MemberFit(members, pc[t], loc[t])
      /\ MembersHaveGroups(members, groups) /\ loc[t] \in CallRecord
  BY ThreadFacts DEF FilesTyped, IInv, FilesFit
<1>3. PICK j \in DOMAIN members, i \in DOMAIN members, rec \in MemberRecordDB :
        /\ j = loc[t].at /\ i = j + 1 /\ rec = loc[t].rec
        /\ SameMember(rec, members[i])
  BY <1>1, <1>2 DEF MemberFit
<1>4. HalvesStored(members, j, i, rec, members')
  BY <1>1, <1>2, <1>3, MisreadStored
<1>5. \A k \in DOMAIN members : SameMember(members'[k], members[k])
  BY <1>3, <1>4 DEF HalvesStored, SameMember
<1>6. /\ members' \in Seq(MemberRecordDB) /\ MembersKept(members, members')
      /\ MembersHaveGroups(members', groups)
  BY <1>2, <1>4, <1>5 DEF HalvesStored, MembersKept, MembersHaveGroups, SameMember
<1>7. FileStep(t)
  BY <1>1, <1>6, MembersWritten
<1>8. ~InReq(pc[t], loc[t]) /\ ~InInv(pc[t], loc[t]) /\ pc[t] # "idle"
  BY <1>1 DEF InReq, InInv, Deciding, Adding
<1>9. "cg_group" \in Plain
  BY DEF Plain
<1>10. QED BY <1>1, <1>2, <1>7, <1>8, <1>9, StoreIsSound

-----------------------------------------------------------------------------
(* create_group. *)
LEMMA CreateIsSound ==
  ASSUME IInv, NEW t \in Thread,
         CG_Load(t) \/ CG_Store(t) \/ CG_Group(t) \/ CG_Member(t)
  PROVE  Sound(t)
<1>1. /\ loc[t] \in CallRecord /\ loc \in [Thread -> CallRecord]
      /\ groups \in Seq(GroupRecordDB) /\ members \in Seq(MemberRecordDB)
      /\ next_group_id \in Nat \ {0} /\ MembersHaveGroups(members, groups)
  BY ThreadFacts DEF FilesTyped, IInv, FilesFit
<1>2. /\ pc[t] \in {"cg_load", "cg_store", "cg_group", "cg_member"}
      /\ ~InReq(pc[t], loc[t]) /\ ~InInv(pc[t], loc[t])
      /\ UNCHANGED holder
  BY DEF CG_Load, CG_Store, CG_Group, CG_Member, InReq, InInv, Deciding, Adding
<1>3. /\ loc[t].cmd = "create_group" /\ loc[t].user \in Name /\ loc[t].name \in Name
      /\ loc[t].gid \in Nat
  BY <1>1, <1>2, ThreadFacts DEF ArgsFit, Serves, CallRecord
<1>4. CASE CG_Load(t)
  <2> DEFINE c == [loc[t] EXCEPT !.gid = next_group_id]
  <2>1. /\ c \in CallRecord /\ c.cmd = loc[t].cmd /\ c.user = loc[t].user
        /\ c.name = loc[t].name
    BY <1>1 DEF CallRecord
  <2>2. loc' = [loc EXCEPT ![t] = c]
    BY <1>1, <1>4 DEF CG_Load
  <2> HIDE DEF c
  <2>3. Does(t, "cg_store", c)
    BY <1>1, <1>4, <2>1, <2>2 DEF Does, CG_Load, Goto
  <2>4. /\ "cg_store" \in Plain /\ pc[t] \in Plain /\ Serves("cg_store", c.cmd)
    BY <1>2, <1>3, <1>4, <2>1 DEF Plain, Serves, Adding, CG_Load
  <2>5. UNCHANGED <<disk, counters, holder>>
    BY <1>4 DEF CG_Load
  <2>6. QED BY <1>3, <2>1, <2>3, <2>4, <2>5, PlainIsSound
<1>5. CASE CG_Store(t)
  <2>1. /\ next_group_id' \in Nat \ {0}
        /\ UNCHANGED <<disk, next_join_request_id, next_invite_id, loc>>
        /\ Goto(t, "cg_group")
    BY <1>3, <1>5 DEF CG_Store
  <2>2. FileStep(t)
    BY <1>1, <2>1, GroupsWritten DEF disk, GroupsKept
  <2>3. Does(t, "cg_group", loc[t])
    BY <2>1, SameLocals
  <2>4. "cg_group" \in Plain /\ Serves("cg_group", loc[t].cmd) /\ pc[t] # "idle"
    BY <1>2, <1>3 DEF Plain, Serves, Adding
  <2>5. QED BY <1>1, <1>2, <2>2, <2>3, <2>4, StoreIsSound
<1>6. CASE CG_Group(t)
  <2> DEFINE new == NewGroup(loc[t].gid, loc[t].user)
  <2>1. /\ groups' = Append(groups, new)
        /\ UNCHANGED <<members, requests, invites, counters, loc>>
        /\ Goto(t, "cg_member")
    BY <1>6 DEF CG_Group
  <2>2. new \in GroupRecordDB /\ new.group_id = loc[t].gid
    BY <1>3 DEF NewGroup, GroupRecordDB
  <2> HIDE DEF new
  <2>3. /\ groups' \in Seq(GroupRecordDB) /\ GroupsKept(groups, groups')
        /\ HasGroup(groups', loc[t].gid)
    BY <1>1, <2>1, <2>2, GroupAdded
  <2>4. FileStep(t)
    BY <1>1, <2>1, <2>3, GroupsWritten DEF counters
  <2>5. Does(t, "cg_member", loc[t])
    BY <2>1, SameLocals
  <2>6. /\ Fit(groups', members', requests', invites', "cg_member", loc[t])
        /\ "cg_member" \in Labels
        /\ ~InReq("cg_member", loc[t]) /\ ~InInv("cg_member", loc[t])
    BY <1>1, <1>3, <2>3 DEF Fit, ArgsFit, GroupFit, MemberFit, FoundFit, RequestFit,
       InviteFit, Serves, InReq, InInv, Deciding, Adding, Labels
  <2>7. MutexStep(t)
    BY <1>2, <2>5, <2>6, MutexesUntouched
  <2>8. QED BY <2>4, <2>5, <2>6, <2>7, WritingIsSound
<1>7. CASE CG_Member(t)
  <2> DEFINE new == NewMember(loc[t].gid, loc[t].user, TRUE)
  <2>1. /\ members' = Append(members, new)
        /\ UNCHANGED <<groups, requests, invites, counters>> /\ Return(t)
        /\ pc[t] = "cg_member"
    BY <1>7 DEF CG_Member
  <2>2. /\ new \in MemberRecordDB /\ new.group_id = loc[t].gid
        /\ HasGroup(groups, new.group_id)
    BY <1>3, <2>1, ThreadFacts DEF NewMember, MemberRecordDB, FoundFit
  <2> HIDE DEF new
  <2>3. /\ members' \in Seq(MemberRecordDB) /\ MembersKept(members, members')
        /\ \A g : MembersHaveGroups(members, g) /\ HasGroup(g, new.group_id)
                  => MembersHaveGroups(members', g)
    BY <1>1, <2>1, <2>2, MemberAdded
  <2>4. FileStep(t)
    BY <1>1, <2>1, <2>2, <2>3, MembersWritten
  <2>5. "cg_group" \in Plain
    BY DEF Plain
  <2>6. QED BY <1>1, <1>2, <2>1, <2>4, <2>5, StoreIsSound
<1>8. QED BY <1>4, <1>5, <1>6, <1>7

-----------------------------------------------------------------------------
(* add_member_to_group, on its own or under a mutex. *)
LEMMA AddFailedIsSound ==
  ASSUME IInv, NEW t \in Thread, pc[t] \in Adding, AddFailed(t),
         UNCHANGED <<disk, counters>>
  PROVE  Sound(t)
<1>1. ArgsFit(pc[t], loc[t]) /\ Return(t)
  BY ThreadFacts DEF AddFailed
<1>2. loc[t].cmd \in {"add_member"} \cup OnEntry
  BY <1>1 DEF ArgsFit, Serves
<1>3. CASE loc[t].cmd = "decide_request"
  <2>1. Unlock("join_req_mutex") /\ InReq(pc[t], loc[t])
    BY <1>3 DEF AddFailed, OnEntry, MutexOf, InReq, Deciding
  <2>2. QED BY <1>1, <2>1, UnlockIsSound
<1>4. CASE loc[t].cmd = "decide_invite"
  <2>1. Unlock("invite_mutex") /\ InInv(pc[t], loc[t])
    BY <1>4 DEF AddFailed, OnEntry, MutexOf, InInv, Deciding
  <2>2. QED BY <1>1, <2>1, UnlockIsSound
<1>5. CASE loc[t].cmd = "add_member"
  <2>1. UNCHANGED holder /\ ~InReq(pc[t], loc[t]) /\ ~InInv(pc[t], loc[t])
    BY <1>5 DEF AddFailed, OnEntry, InReq, InInv, Deciding, Adding
  <2>2. QED BY <1>1, <2>1, ReturnIsSound
<1>6. QED BY <1>2, <1>3, <1>4, <1>5 DEF OnEntry

LEMMA AddingFits ==
  ASSUME NEW l \in Adding, NEW l2 \in Adding, NEW c, NEW c2 \in CallRecord,
         NEW m, NEW r, NEW v,
         ArgsFit(l, c), RequestFit(r, l, c), InviteFit(v, l, c),
         c2.cmd = c.cmd, c2.user = c.user, c2.name = c.name, c2.gid = c.gid,
         c2.approve = c.approve, c2.pos = c.pos, c2.entry = c.entry
  PROVE  /\ ArgsFit(l2, c2) /\ RequestFit(r, l2, c2) /\ InviteFit(v, l2, c2)
         /\ MemberFit(m, l2, c2) /\ l2 \in Labels
         /\ InReq(l2, c2) <=> InReq(l, c)
         /\ InInv(l2, c2) <=> InInv(l, c)
<1>1. ArgsFit(l2, c2) /\ l2 \in Labels /\ MemberFit(m, l2, c2)
  BY DEF ArgsFit, Serves, Adding, Labels, MemberFit
<1>2. /\ InReq(l2, c2) <=> InReq(l, c)
      /\ InInv(l2, c2) <=> InInv(l, c)
  BY DEF InReq, InInv, Deciding, Adding
<1>3. RequestFit(r, l2, c2)
  BY DEF RequestFit, Deciding, Adding
<1>4. InviteFit(v, l2, c2)
  BY DEF InviteFit, Deciding, Adding
<1>5. QED BY <1>1, <1>2, <1>3, <1>4

LEMMA AddingGoesOn ==
  ASSUME IInv, NEW t \in Thread, pc[t] \in Adding, NEW l \in Adding, l # "am_gwrite",
         Goto(t, l), UNCHANGED <<loc, holder, requests, invites>>,
         FileStep(t), FoundFit(groups', members', l, loc[t])
  PROVE  Sound(t)
<1>1. /\ ArgsFit(pc[t], loc[t]) /\ RequestFit(requests, pc[t], loc[t])
      /\ InviteFit(invites, pc[t], loc[t]) /\ loc[t] \in CallRecord
  BY ThreadFacts
<1>2. /\ ArgsFit(l, loc[t]) /\ RequestFit(requests, l, loc[t])
      /\ InviteFit(invites, l, loc[t]) /\ MemberFit(members', l, loc[t])
      /\ l \in Labels
      /\ InReq(l, loc[t]) <=> InReq(pc[t], loc[t])
      /\ InInv(l, loc[t]) <=> InInv(pc[t], loc[t])
  BY <1>1, AddingFits
<1>3. GroupFit(groups', l, loc[t])
  BY DEF GroupFit, Adding
<1>4. Fit(groups', members', requests', invites', l, loc[t])
  BY <1>2, <1>3 DEF Fit
<1>5. Does(t, l, loc[t])
  BY SameLocals
<1>6. MutexStep(t)
  BY <1>2, <1>5, MutexesUntouched
<1>7. QED BY <1>2, <1>4, <1>5, <1>6, WritingIsSound

LEMMA AddDoneIsSound ==
  ASSUME IInv, NEW t \in Thread, pc[t] \in {"am_gread", "am_gwrite"}, AddDone(t),
         FileStep(t), UNCHANGED <<members, requests, invites>>
  PROVE  Sound(t)
<1>1. /\ ArgsFit(pc[t], loc[t]) /\ RequestFit(requests, pc[t], loc[t])
      /\ InviteFit(invites, pc[t], loc[t]) /\ FoundFit(groups, members, pc[t], loc[t])
      /\ loc[t] \in CallRecord
  BY ThreadFacts
<1>2. /\ loc[t].cmd \in {"add_member", "decide_request", "decide_invite"}
      /\ HasRecord(members, loc[t].gid, loc[t].name)
      /\ loc[t].user \in Name /\ loc[t].name \in Name /\ pc[t] # "idle"
  BY <1>1 DEF ArgsFit, Serves, Adding, OnEntry, FoundFit
<1>3. UNCHANGED holder
  BY DEF AddDone
<1>4. CASE loc[t].cmd = "add_member"
  <2>1. Return(t)
    BY <1>4 DEF AddDone
  <2>2. /\ ~InReq(pc[t], loc[t]) /\ ~InInv(pc[t], loc[t]) /\ "to_scan" \in Plain
    BY <1>4 DEF InReq, InInv, Deciding, Adding, Plain
  <2>3. QED BY <1>1, <1>2, <1>3, <2>1, <2>2, StoreIsSound
<1>5. ASSUME NEW l \in {"dj_write", "di_write"}, Goto(t, l), UNCHANGED loc,
             \/ l = "dj_write" /\ loc[t].cmd = "decide_request"
             \/ l = "di_write" /\ loc[t].cmd = "decide_invite"
      PROVE  Sound(t)
  <2>1. Does(t, l, loc[t])
    BY <1>5, SameLocals
  <2>2. /\ InReq(l, loc[t]) <=> InReq(pc[t], loc[t])
        /\ InInv(l, loc[t]) <=> InInv(pc[t], loc[t])
        /\ l \in Labels
    BY <1>5 DEF InReq, InInv, Deciding, Adding, Labels
  <2>3. ArgsFit(l, loc[t]) /\ GroupFit(groups', l, loc[t]) /\ MemberFit(members', l, loc[t])
    BY <1>1, <1>2, <1>5 DEF ArgsFit, Serves, Adding, GroupFit, MemberFit
  <2>4. FoundFit(groups', members', l, loc[t])
    BY <1>2, <1>5 DEF FoundFit
  <2>5. RequestFit(requests', l, loc[t])
    BY <1>1, <1>5 DEF RequestFit, Deciding, Adding
  <2>6. InviteFit(invites', l, loc[t])
    BY <1>1, <1>5 DEF InviteFit, Deciding, Adding
  <2>7. MutexStep(t)
    BY <1>3, <2>1, <2>2, MutexesUntouched
  <2>8. QED BY <2>1, <2>2, <2>3, <2>4, <2>5, <2>6, <2>7, WritingIsSound DEF Fit
<1>6. CASE loc[t].cmd = "decide_request"
  BY <1>5, <1>6 DEF AddDone
<1>7. CASE loc[t].cmd = "decide_invite"
  BY <1>5, <1>7 DEF AddDone
<1>8. QED BY <1>2, <1>4, <1>6, <1>7

LEMMA AddIsSound ==
  ASSUME IInv, NEW t \in Thread,
         AM_Owner(t) \/ AM_Member(t) \/ AM_Append(t) \/ AM_ReadGroup(t) \/ AM_WriteGroup(t)
  PROVE  Sound(t)
<1>1. /\ ArgsFit(pc[t], loc[t]) /\ FoundFit(groups, members, pc[t], loc[t])
      /\ loc[t] \in CallRecord
      /\ groups \in Seq(GroupRecordDB) /\ members \in Seq(MemberRecordDB)
      /\ MembersHaveGroups(members, groups) /\ next_group_id \in Nat \ {0}
  BY ThreadFacts DEF FilesTyped, IInv, FilesFit
<1>2. pc[t] \in Adding /\ pc[t] # "idle"
  BY DEF AM_Owner, AM_Member, AM_Append, AM_ReadGroup, AM_WriteGroup, Adding
<1>3. loc[t].name \in Name /\ loc[t].gid \in Nat
  BY <1>1, <1>2 DEF ArgsFit, CallRecord
<1>4. CASE AddFailed(t) /\ UNCHANGED <<disk, counters>>
  BY <1>2, <1>4, AddFailedIsSound
<1>5. CASE AM_Owner(t) /\ ~AddFailed(t)
  <2>1. /\ IsGroupOwner(groups, loc[t].gid, loc[t].requester)
        /\ Goto(t, "am_member") /\ UNCHANGED <<loc, holder, disk, counters>>
    BY <1>5 DEF AM_Owner
  <2>2. HasGroup(groups, loc[t].gid)
    <3>1. PICK at : at = ActiveGroupAt(groups, loc[t].gid) /\ at # 0
      BY <2>1 DEF IsGroupOwner
    <3>2. at \in DOMAIN groups /\ groups[at].group_id = loc[t].gid
      BY <1>1, <3>1, ActiveGroupFound
    <3>3. QED BY <3>2 DEF HasGroup
  <2>3. FoundFit(groups', members', "am_member", loc[t])
    BY <2>1, <2>2 DEF FoundFit, disk
  <2>4. FileStep(t) /\ UNCHANGED <<loc, holder, requests, invites>>
    BY <2>1, FilesUntouched DEF disk
  <2>5. "am_member" \in Adding
    BY DEF Adding
  <2>6. QED BY <1>2, <2>1, <2>3, <2>4, <2>5, AddingGoesOn
<1>6. CASE AM_Member(t) /\ ~AddFailed(t)
  <2>1. /\ pc[t] = "am_member"
        /\ Goto(t, "am_append") /\ UNCHANGED <<loc, holder, disk, counters>>
    BY <1>6 DEF AM_Member
  <2>2. FoundFit(groups', members', "am_append", loc[t])
    BY <1>1, <2>1 DEF FoundFit, disk
  <2>3. FileStep(t) /\ UNCHANGED <<loc, holder, requests, invites>>
    BY <2>1, FilesUntouched DEF disk
  <2>4. "am_append" \in Adding
    BY DEF Adding
  <2>5. QED BY <1>2, <2>1, <2>2, <2>3, <2>4, AddingGoesOn
<1>7. CASE AM_Append(t)
  <2> DEFINE new == NewMember(loc[t].gid, loc[t].name, FALSE)
  <2>1. /\ members' = Append(members, new)
        /\ UNCHANGED <<groups, requests, invites, counters>>
        /\ UNCHANGED <<loc, holder, requests, invites>>
        /\ pc[t] = "am_append" /\ Goto(t, "am_gread")
    BY <1>7 DEF AM_Append
  <2>2. /\ new \in MemberRecordDB
        /\ new.group_id = loc[t].gid /\ new.username = loc[t].name
        /\ HasGroup(groups, new.group_id)
    BY <1>1, <1>3, <2>1 DEF NewMember, MemberRecordDB, FoundFit
  <2> HIDE DEF new
  <2>3. /\ members' \in Seq(MemberRecordDB) /\ MembersKept(members, members')
        /\ HasRecord(members', new.group_id, new.username)
        /\ \A g : MembersHaveGroups(members, g) /\ HasGroup(g, new.group_id)
                  => MembersHaveGroups(members', g)
    BY <1>1, <2>1, <2>2, MemberAdded
  <2>4. FileStep(t)
    BY <1>1, <2>1, <2>2, <2>3, MembersWritten
  <2>5. FoundFit(groups', members', "am_gread", loc[t])
    BY <2>2, <2>3 DEF FoundFit
  <2>6. "am_gread" \in Adding
    BY DEF Adding
  <2>7. QED BY <1>2, <2>1, <2>4, <2>5, <2>6, AddingGoesOn
<1>8. CASE AM_ReadGroup(t)
  <2>1. /\ UNCHANGED <<disk, counters>> /\ pc[t] = "am_gread"
        /\ FileStep(t) /\ UNCHANGED <<members, requests, invites>>
    BY <1>8, FilesUntouched DEF AM_ReadGroup, disk
  <2>2. CASE AddDone(t)
    BY <2>1, <2>2, AddDoneIsSound
  <2>3. CASE ~AddDone(t)
    <3>1. PICK at : /\ at = ActiveGroupAt(groups, loc[t].gid) /\ at # 0
                    /\ Hold(t, at, [groups[at] EXCEPT !.member_count = @ + 1])
                    /\ Goto(t, "am_gwrite") /\ UNCHANGED holder
      BY <1>8, <2>3 DEF AM_ReadGroup
    <3>2. at \in DOMAIN groups /\ at \in Nat
      BY <1>1, <3>1, ActiveGroupFound
    <3>3. groups[at] \in GroupRecordDB
      BY <1>1, <3>2
    <3>4. PICK rec \in GroupRecordDB : /\ rec = [groups[at] EXCEPT !.member_count = @ + 1]
                                       /\ rec.group_id = groups[at].group_id
      <4>1. /\ [groups[at] EXCEPT !.member_count = @ + 1] \in GroupRecordDB
            /\ [groups[at] EXCEPT !.member_count = @ + 1].group_id = groups[at].group_id
        BY <1>3, <3>3, GroupRecordChanges
      <4>2. QED BY <4>1
    <3>5. PICK c \in CallRecord :
            /\ Does(t, "am_gwrite", c) /\ c.at = at /\ c.rec = rec
            /\ c.cmd = loc[t].cmd /\ c.user = loc[t].user
            /\ c.name = loc[t].name /\ c.gid = loc[t].gid
            /\ c.approve = loc[t].approve /\ c.pos = loc[t].pos /\ c.entry = loc[t].entry
      <4>1. Hold(t, at, rec) /\ Goto(t, "am_gwrite")
        BY <3>1, <3>4
      <4>2. QED BY <3>2, <4>1, Held
    <3>6. "am_gwrite" \in Adding /\ "am_gread" \in Adding
      BY DEF Adding
    <3>7. /\ ArgsFit("am_gwrite", c) /\ RequestFit(requests, "am_gwrite", c)
          /\ InviteFit(invites, "am_gwrite", c) /\ MemberFit(members, "am_gwrite", c)
          /\ "am_gwrite" \in Labels
          /\ InReq("am_gwrite", c) <=> InReq(pc[t], loc[t])
          /\ InInv("am_gwrite", c) <=> InInv(pc[t], loc[t])
      <4>1. /\ RequestFit(requests, pc[t], loc[t]) /\ InviteFit(invites, pc[t], loc[t])
        BY ThreadFacts
      <4>2. QED BY <1>1, <2>1, <3>5, <3>6, <4>1, AddingFits
    <3>8. GroupFit(groups, "am_gwrite", c) /\ FoundFit(groups, members, "am_gwrite", c)
      BY <1>1, <2>1, <3>2, <3>4, <3>5 DEF GroupFit, FoundFit
    <3>9. MutexStep(t)
      BY <3>1, <3>5, <3>7, MutexesUntouched
    <3>10. QED BY <2>1, <3>5, <3>7, <3>8, <3>9, ReadingIsSound DEF Fit
  <2>4. QED BY <2>2, <2>3
<1>9. CASE AM_WriteGroup(t)
  <2>1. /\ pc[t] = "am_gwrite" /\ AddDone(t)
        /\ groups' = [groups EXCEPT ![loc[t].at] = loc[t].rec]
        /\ UNCHANGED <<members, requests, invites, counters>>
    BY <1>9 DEF AM_WriteGroup
  <2>2. GroupFit(groups, pc[t], loc[t])
    BY ThreadFacts
  <2>3. groups' \in Seq(GroupRecordDB) /\ GroupsKept(groups, groups')
    BY <1>1, <2>1, <2>2, GroupStored DEF GroupFit
  <2>4. FileStep(t)
    BY <1>1, <2>1, <2>3, GroupsWritten DEF counters
  <2>5. QED BY <2>1, <2>4, AddDoneIsSound
<1>10. QED BY <1>4, <1>5, <1>6, <1>7, <1>8, <1>9 DEF AM_Owner, AM_Member

-----------------------------------------------------------------------------
(* The join requests. *)
LEMMA RequestsWritten ==
  ASSUME IInv, NEW t \in Thread, InReq(pc[t], loc[t]),
         requests' \in Seq(JoinRequestRecordDB), RequestsKept(requests, requests'),
         RequestsNumbered(requests', next_join_request_id'),
         ApprovalsHaveMembers(requests', invites, members),
         UNCHANGED <<groups, members, invites, next_group_id, next_invite_id>>
  PROVE  FileStep(t)
<1>1. FilesFit(groups, members, requests, invites,
               next_group_id, next_join_request_id, next_invite_id)
  BY DEF IInv
<1>2. FilesFit(groups', members', requests', invites',
               next_group_id', next_join_request_id', next_invite_id')
  BY <1>1 DEF FilesFit, FilesTyped
<1>3. FilesKept(groups, members, requests, invites, groups', members', requests', invites')
  BY DEF FilesKept, GroupsKept, MembersKept, SameMember, InvitesKept
<1>4. QED BY <1>2, <1>3 DEF FileStep

LEMMA RequestWriteIsSound ==
  ASSUME IInv, NEW t \in Thread, InReq(pc[t], loc[t]),
         FileStep(t), Return(t), Unlock("join_req_mutex")
  PROVE  Sound(t)
<1>1. Does(t, "idle", NoCall)
  BY Returned
<1>2. MutexStep(t)
  BY <1>1, RequestsUnlocked
<1>3. QED BY <1>1, <1>2, IdleFits, WritingIsSound

LEMMA RequestAdded ==
  ASSUME NEW r \in Seq(JoinRequestRecordDB), NEW n, RequestsNumbered(r, n),
         NEW e \in JoinRequestRecordDB, e.request_id = n, e.group_id \in GroupId,
         e.status = Pending, NEW r2, r2 = Append(r, e),
         NEW v, NEW m, ApprovalsHaveMembers(r, v, m)
  PROVE  /\ r2 \in Seq(JoinRequestRecordDB) /\ RequestsKept(r, r2)
         /\ RequestsNumbered(r2, n + 1) /\ ApprovalsHaveMembers(r2, v, m)
<1>1. n \in Nat /\ n = Len(r) + 1
  BY DEF RequestsNumbered
<1>2. /\ r2 \in Seq(JoinRequestRecordDB) /\ Len(r) \in Nat /\ Len(r2) = Len(r) + 1
      /\ DOMAIN r = 1..Len(r) /\ DOMAIN r2 = 1..(Len(r) + 1)
      /\ \A i \in DOMAIN r : r2[i] = r[i]
      /\ r2[Len(r) + 1] = e
  OBVIOUS
<1>3. /\ Len(r) + 1 \in DOMAIN r2 /\ \A i \in DOMAIN r : i \in DOMAIN r2
      /\ \A i \in DOMAIN r2 : i \in DOMAIN r \/ i = Len(r) + 1
  BY <1>2
<1>4. RequestsKept(r, r2)
  BY <1>2, <1>3 DEF RequestsKept
<1>5. RequestsNumbered(r2, n + 1)
  BY <1>1, <1>2, <1>3 DEF RequestsNumbered
<1>6. ApprovalsHaveMembers(r2, v, m)
  BY <1>2, <1>3 DEF ApprovalsHaveMembers, Pending, Approved
<1>7. QED BY <1>2, <1>4, <1>5, <1>6

LEMMA RequestRewritten ==
  ASSUME NEW r \in Seq(JoinRequestRecordDB), NEW n, RequestsNumbered(r, n),
         NEW at \in DOMAIN r, NEW e \in JoinRequestRecordDB,
         e.request_id = r[at].request_id, e.group_id = r[at].group_id,
         e.requester = r[at].requester,
         NEW r2, r2 = [r EXCEPT ![at] = e],
         NEW v, NEW m, ApprovalsHaveMembers(r, v, m),
         e.status = Approved => HasRecord(m, e.group_id, e.requester)
  PROVE  /\ r2 \in Seq(JoinRequestRecordDB) /\ RequestsKept(r, r2)
         /\ RequestsNumbered(r2, n) /\ ApprovalsHaveMembers(r2, v, m)
<1>1. /\ r2 \in Seq(JoinRequestRecordDB) /\ DOMAIN r2 = DOMAIN r /\ Len(r2) = Len(r)
      /\ r2[at] = e /\ \A i \in DOMAIN r : i # at => r2[i] = r[i]
  OBVIOUS
<1>2. RequestsKept(r, r2) /\ RequestsNumbered(r2, n)
  BY <1>1 DEF RequestsKept, RequestsNumbered
<1>3. ApprovalsHaveMembers(r2, v, m)
  BY <1>1 DEF ApprovalsHaveMembers
<1>4. QED BY <1>1, <1>2, <1>3

LEMMA JoinIsSound ==
  ASSUME IInv, NEW t \in Thread, RJ_Lock(t) \/ RJ_Append(t)
  PROVE  Sound(t)
<1>1. /\ ArgsFit(pc[t], loc[t]) /\ loc[t] \in CallRecord
      /\ requests \in Seq(JoinRequestRecordDB)
      /\ RequestsNumbered(requests, next_join_request_id)
      /\ ApprovalsHaveMembers(requests, invites, members)
  BY ThreadFacts DEF FilesTyped, IInv, FilesFit
<1>2. /\ loc[t].cmd = "request_join" /\ loc[t].gid \in GroupId /\ loc[t].user \in Name
      /\ loc[t].name \in Name
  BY <1>1 DEF ArgsFit, Serves, RJ_Lock, RJ_Append
<1>3. CASE RJ_Lock(t)
  <2>1. /\ UNCHANGED <<disk, counters>>
        /\ ~InReq(pc[t], loc[t]) /\ ~InInv(pc[t], loc[t])
    BY <1>3 DEF RJ_Lock, InReq, InInv, Deciding, Adding
  <2>2. CASE Return(t) /\ UNCHANGED holder
    BY <2>1, <2>2, ReturnIsSound
  <2>3. CASE /\ ~PendingRequestExists(requests, loc[t].gid, loc[t].user)
             /\ Lock(t, "join_req_mutex") /\ Goto(t, "rj_append") /\ UNCHANGED loc
    <3>1. Does(t, "rj_append", loc[t])
      BY <2>3, SameLocals
    <3>2. InReq("rj_append", loc[t]) /\ "rj_append" \in Labels
      BY DEF InReq, Labels
    <3>3. Fit(groups, members, requests, invites, "rj_append", loc[t])
      BY <1>1, <1>2, <2>3 DEF Fit, ArgsFit, Serves, Adding, GroupFit, MemberFit, FoundFit,
         RequestFit, InviteFit, Deciding
    <3>4. MutexStep(t)
      BY <2>1, <2>3, <3>1, <3>2, RequestsLocked
    <3>5. QED BY <2>1, <3>1, <3>2, <3>3, <3>4, ReadingIsSound
  <2>4. QED BY <1>3, <2>2, <2>3 DEF RJ_Lock
<1>4. CASE RJ_Append(t)
  <2>1. /\ requests' = Append(requests, NewRequest(next_join_request_id, loc[t].gid,
                                                   loc[t].user))
        /\ next_join_request_id' = next_join_request_id + 1
        /\ Unlock("join_req_mutex") /\ Return(t)
        /\ UNCHANGED <<groups, members, invites, next_group_id, next_invite_id>>
        /\ InReq(pc[t], loc[t])
    BY <1>4 DEF RJ_Append, InReq
  <2>2. /\ requests' \in Seq(JoinRequestRecordDB) /\ RequestsKept(requests, requests')
        /\ RequestsNumbered(requests', next_join_request_id')
        /\ ApprovalsHaveMembers(requests', invites, members)
    <3>1. PICK e, n, f : /\ e = NewRequest(next_join_request_id, loc[t].gid, loc[t].user)
                         /\ n = next_join_request_id /\ f = requests'
      OBVIOUS
    <3>2. /\ e \in JoinRequestRecordDB /\ e.request_id = n /\ e.group_id \in GroupId
          /\ e.status = Pending
      <4>1. PICK gid \in GroupId, u \in Name : e = NewRequest(n, gid, u)
        BY <1>2, <3>1
      <4>2. n \in Nat /\ gid \in Nat
        BY <1>1, <3>1, IdAssumption DEF RequestsNumbered
      <4>3. QED BY <4>1, <4>2 DEF NewRequest, JoinRequestRecordDB, Status
    <3>3. RequestsNumbered(requests, n) /\ f = Append(requests, e)
      BY <1>1, <2>1, <3>1
    <3>4. /\ f \in Seq(JoinRequestRecordDB) /\ RequestsKept(requests, f)
          /\ RequestsNumbered(f, n + 1)
          /\ ApprovalsHaveMembers(f, invites, members)
      BY <1>1, <3>2, <3>3, RequestAdded
    <3>5. QED BY <2>1, <3>1, <3>4
  <2>3. FileStep(t)
    BY <1>1, <2>1, <2>2, RequestsWritten
  <2>4. QED BY <2>1, <2>3, RequestWriteIsSound
<1>5. QED BY <1>3, <1>4

LEMMA DecideRequestIsSound ==
  ASSUME IInv, NEW t \in Thread, DJ_Lock(t) \/ DJ_Info(t) \/ DJ_Write(t)
  PROVE  Sound(t)
<1>1. /\ ArgsFit(pc[t], loc[t]) /\ loc[t] \in CallRecord /\ loc \in [Thread -> CallRecord]
      /\ RequestFit(requests, pc[t], loc[t]) /\ FoundFit(groups, members, pc[t], loc[t])
      /\ requests \in Seq(JoinRequestRecordDB)
      /\ RequestsNumbered(requests, next_join_request_id)
      /\ ApprovalsHaveMembers(requests, invites, members)
  BY ThreadFacts DEF FilesTyped, IInv, FilesFit
<1>2. /\ loc[t].cmd = "decide_request" /\ loc[t].user \in Name /\ loc[t].name \in Name
  BY <1>1 DEF ArgsFit, Serves, DJ_Lock, DJ_Info, DJ_Write
<1>3. CASE DJ_Lock(t)
  <2>1. /\ UNCHANGED <<disk, counters>>
        /\ ~InReq(pc[t], loc[t]) /\ ~InInv(pc[t], loc[t])
    BY <1>3 DEF DJ_Lock, InReq, InInv, Deciding, Adding
  <2>2. CASE Return(t) /\ UNCHANGED holder
    BY <2>1, <2>2, ReturnIsSound
  <2>3. CASE ~(Return(t) /\ UNCHANGED holder)
    <3>1. PICK at : /\ at = RequestAt(requests, loc[t].id) /\ at # 0
                    /\ Lock(t, "join_req_mutex") /\ Goto(t, "dj_info")
                    /\ loc' = [loc EXCEPT ![t].pos = at, ![t].entry = requests[at],
                                          ![t].gid = requests[at].group_id,
                                          ![t].name = requests[at].requester]
      BY <1>3, <2>3 DEF DJ_Lock
    <3>2. at \in DOMAIN requests /\ at \in Nat
      BY <1>1, <3>1, RequestFound
    <3>3. PICK e \in JoinRequestRecordDB : e = requests[at]
      BY <1>1, <3>2
    <3>4. e.group_id \in Nat /\ e.requester \in Name
      BY DEF JoinRequestRecordDB
    <3> DEFINE c == [loc[t] EXCEPT !.pos = at, !.entry = e, !.gid = e.group_id,
                                   !.name = e.requester]
    <3>5. /\ c \in CallRecord /\ c.pos = at /\ c.entry = e /\ c.gid = e.group_id
          /\ c.name = e.requester /\ c.cmd = loc[t].cmd /\ c.user = loc[t].user
      BY <1>1, <3>2, <3>3, <3>4 DEF CallRecord, AnyName
    <3>6. loc' = [loc EXCEPT ![t] = c]
      BY <1>1, <3>1, <3>3
    <3> HIDE DEF c
    <3>7. Does(t, "dj_info", c)
      BY <1>1, <3>1, <3>5, <3>6, NewLocals
    <3>8. InReq("dj_info", c) /\ "dj_info" \in Labels
      BY DEF InReq, Labels
    <3>9. Fit(groups, members, requests, invites, "dj_info", c)
      BY <1>2, <3>2, <3>3, <3>4, <3>5 DEF Fit, ArgsFit, Serves, Adding, GroupFit, MemberFit,
         FoundFit, RequestFit, InviteFit, Deciding
    <3>10. MutexStep(t)
      BY <2>1, <3>1, <3>7, <3>8, RequestsLocked
    <3>11. QED BY <2>1, <3>7, <3>8, <3>9, <3>10, ReadingIsSound
  <2>4. QED BY <2>2, <2>3
<1>4. CASE DJ_Info(t)
  <2>1. UNCHANGED <<disk, counters>> /\ pc[t] = "dj_info" /\ InReq(pc[t], loc[t])
    BY <1>4 DEF DJ_Info, InReq
  <2>2. CASE Return(t) /\ Unlock("join_req_mutex")
    BY <2>1, <2>2, UnlockIsSound
  <2>3. CASE ~(Return(t) /\ Unlock("join_req_mutex"))
    <3>1. PICK l \in {"am_owner", "dj_write"} :
            /\ Goto(t, l) /\ UNCHANGED <<loc, holder>>
            /\ l = "dj_write" => ~loc[t].approve
            /\ loc[t].entry.status = Pending
      BY <1>4, <2>3 DEF DJ_Info
    <3>2. Does(t, l, loc[t])
      BY <3>1, SameLocals
    <3>3. /\ InReq(l, loc[t]) /\ l \in Labels
          /\ ~InInv(l, loc[t]) /\ ~InInv(pc[t], loc[t])
      BY <1>2, <2>1 DEF InReq, InInv, Deciding, Adding, Labels
    <3>4. Fit(groups, members, requests, invites, l, loc[t])
      <4>1. ArgsFit(l, loc[t]) /\ GroupFit(groups, l, loc[t]) /\ MemberFit(members, l, loc[t])
        BY <1>1, <1>2 DEF ArgsFit, Serves, Adding, OnEntry, GroupFit, MemberFit
      <4>2. FoundFit(groups, members, l, loc[t])
        BY <3>1 DEF FoundFit
      <4>3. RequestFit(requests, l, loc[t])
        BY <1>1, <2>1, <3>1 DEF RequestFit, Deciding, Adding
      <4>4. InviteFit(invites, l, loc[t])
        BY <1>2 DEF InviteFit, Deciding, Adding
      <4>5. QED BY <4>1, <4>2, <4>3, <4>4 DEF Fit
    <3>5. MutexStep(t)
      BY <2>1, <3>1, <3>2, <3>3, MutexesUntouched
    <3>6. QED BY <2>1, <3>2, <3>3, <3>4, <3>5, ReadingIsSound
  <2>4. QED BY <2>2, <2>3
<1>5. CASE DJ_Write(t)
  <2>1. /\ requests' = [requests EXCEPT ![loc[t].pos] = Decided(t)]
        /\ Unlock("join_req_mutex") /\ Return(t)
        /\ UNCHANGED <<groups, members, invites, counters>>
        /\ InReq(pc[t], loc[t]) /\ pc[t] = "dj_write"
    BY <1>5 DEF DJ_Write, InReq
  <2>2. PICK at \in DOMAIN requests :
          /\ at = loc[t].pos /\ loc[t].entry = requests[at]
          /\ loc[t].gid = requests[at].group_id /\ loc[t].name = requests[at].requester
    BY <1>1, <2>1 DEF RequestFit
  <2>3. PICK e : e = Decided(t)
    OBVIOUS
  <2>4. /\ e \in JoinRequestRecordDB /\ e.request_id = requests[at].request_id
        /\ e.group_id = requests[at].group_id /\ e.requester = requests[at].requester
        /\ e.status = Approved => loc[t].approve
    <3>1. requests[at] \in JoinRequestRecordDB
      BY <1>1
    <3>2. PICK st \in Status : st = IF loc[t].approve THEN Approved ELSE Rejected
      BY DEF Status
    <3>3. e = [requests[at] EXCEPT !.status = st, !.reviewed_by = loc[t].user]
      BY <2>2, <2>3, <3>2 DEF Decided
    <3>4. st = Approved => loc[t].approve
      BY <3>2 DEF Approved, Rejected
    <3>5. QED BY <1>2, <3>1, <3>3, <3>4 DEF JoinRequestRecordDB
  <2>5. /\ requests' \in Seq(JoinRequestRecordDB) /\ RequestsKept(requests, requests')
        /\ RequestsNumbered(requests', next_join_request_id)
        /\ ApprovalsHaveMembers(requests', invites, members)
    <3>1. e.status = Approved => HasRecord(members, e.group_id, e.requester)
      BY <1>1, <2>1, <2>2, <2>4 DEF FoundFit
    <3>2. PICK n, f : n = next_join_request_id /\ f = requests'
      OBVIOUS
    <3>3. RequestsNumbered(requests, n) /\ f = [requests EXCEPT ![at] = e]
      BY <1>1, <2>1, <2>2, <2>3, <3>2
    <3>4. /\ f \in Seq(JoinRequestRecordDB) /\ RequestsKept(requests, f)
          /\ RequestsNumbered(f, n)
          /\ ApprovalsHaveMembers(f, invites, members)
      BY <1>1, <2>4, <3>1, <3>3, RequestRewritten
    <3>5. QED BY <3>2, <3>4
  <2>6. FileStep(t)
    BY <2>1, <2>5, RequestsWritten DEF counters
  <2>7. QED BY <2>1, <2>6, RequestWriteIsSound
<1>6. QED BY <1>3, <1>4, <1>5

-----------------------------------------------------------------------------
(* The invitations. *)
LEMMA InvitesWritten ==
  ASSUME IInv, NEW t \in Thread, InInv(pc[t], loc[t]),
         invites' \in Seq(GroupInviteRecordDB), InvitesKept(invites, invites'),
         InvitesNumbered(invites', next_invite_id'),
         ApprovalsHaveMembers(requests, invites', members),
         UNCHANGED <<groups, members, requests, next_group_id, next_join_request_id>>
  PROVE  FileStep(t)
<1>1. FilesFit(groups, members, requests, invites,
               next_group_id, next_join_request_id, next_invite_id)
  BY DEF IInv
<1>2. FilesFit(groups', members', requests', invites',
               next_group_id', next_join_request_id', next_invite_id')
  BY <1>1 DEF FilesFit, FilesTyped
<1>3. FilesKept(groups, members, requests, invites, groups', members', requests', invites')
  BY DEF FilesKept, GroupsKept, MembersKept, SameMember, RequestsKept
<1>4. QED BY <1>2, <1>3 DEF FileStep

LEMMA InviteWriteIsSound ==
  ASSUME IInv, NEW t \in Thread, InInv(pc[t], loc[t]),
         FileStep(t), Return(t), Unlock("invite_mutex")
  PROVE  Sound(t)
<1>1. Does(t, "idle", NoCall)
  BY Returned
<1>2. MutexStep(t)
  BY <1>1, InvitesUnlocked
<1>3. QED BY <1>1, <1>2, IdleFits, WritingIsSound

LEMMA InviteAdded ==
  ASSUME NEW v \in Seq(GroupInviteRecordDB), NEW n, InvitesNumbered(v, n),
         NEW e \in GroupInviteRecordDB, e.invite_id = n, e.group_id \in GroupId,
         e.status = Pending, NEW v2, v2 = Append(v, e),
         NEW r, NEW m, ApprovalsHaveMembers(r, v, m)
  PROVE  /\ v2 \in Seq(GroupInviteRecordDB) /\ InvitesKept(v, v2)
         /\ InvitesNumbered(v2, n + 1) /\ ApprovalsHaveMembers(r, v2, m)
<1>1. n \in Nat /\ n = Len(v) + 1
  BY DEF InvitesNumbered
<1>2. /\ v2 \in Seq(GroupInviteRecordDB) /\ Len(v) \in Nat /\ Len(v2) = Len(v) + 1
      /\ DOMAIN v = 1..Len(v) /\ DOMAIN v2 = 1..(Len(v) + 1)
      /\ \A i \in DOMAIN v : v2[i] = v[i]
      /\ v2[Len(v) + 1] = e
  OBVIOUS
<1>3. /\ Len(v) + 1 \in DOMAIN v2 /\ \A i \in DOMAIN v : i \in DOMAIN v2
      /\ \A i \in DOMAIN v2 : i \in DOMAIN v \/ i = Len(v) + 1
  BY <1>2
<1>4. InvitesKept(v, v2)
  BY <1>2, <1>3 DEF InvitesKept
<1>5. InvitesNumbered(v2, n + 1)
  BY <1>1, <1>2, <1>3 DEF InvitesNumbered
<1>6. ApprovalsHaveMembers(r, v2, m)
  BY <1>2, <1>3 DEF ApprovalsHaveMembers, Pending, Approved
<1>7. QED BY <1>2, <1>4, <1>5, <1>6

LEMMA InviteRewritten ==
  ASSUME NEW v \in Seq(GroupInviteRecordDB), NEW n, InvitesNumbered(v, n),
         NEW at \in DOMAIN v, NEW e \in GroupInviteRecordDB,
         e.invite_id = v[at].invite_id, e.group_id = v[at].group_id,
         e.invitee = v[at].invitee,
         NEW v2, v2 = [v EXCEPT ![at] = e],
         NEW r, NEW m, ApprovalsHaveMembers(r, v, m),
         e.status = Approved => HasRecord(m, e.group_id, e.invitee)
  PROVE  /\ v2 \in Seq(GroupInviteRecordDB) /\ InvitesKept(v, v2)
         /\ InvitesNumbered(v2, n) /\ ApprovalsHaveMembers(r, v2, m)
<1>1. /\ v2 \in Seq(GroupInviteRecordDB) /\ DOMAIN v2 = DOMAIN v /\ Len(v2) = Len(v)
      /\ v2[at] = e /\ \A i \in DOMAIN v : i # at => v2[i] = v[i]
  OBVIOUS
<1>2. InvitesKept(v, v2) /\ InvitesNumbered(v2, n)
  BY <1>1 DEF InvitesKept, InvitesNumbered
<1>3. ApprovalsHaveMembers(r, v2, m)
  BY <1>1 DEF ApprovalsHaveMembers
<1>4. QED BY <1>1, <1>2, <1>3

LEMMA InviteIsSound ==
  ASSUME IInv, NEW t \in Thread, IV_Lock(t) \/ IV_Append(t)
  PROVE  Sound(t)
<1>1. /\ ArgsFit(pc[t], loc[t]) /\ loc[t] \in CallRecord
      /\ invites \in Seq(GroupInviteRecordDB)
      /\ InvitesNumbered(invites, next_invite_id)
      /\ ApprovalsHaveMembers(requests, invites, members)
  BY ThreadFacts DEF FilesTyped, IInv, FilesFit
<1>2. /\ loc[t].cmd = "invite" /\ loc[t].gid \in GroupId /\ loc[t].user \in Name
      /\ loc[t].name \in Name
  BY <1>1 DEF ArgsFit, Serves, IV_Lock, IV_Append
<1>3. CASE IV_Lock(t)
  <2>1. /\ UNCHANGED <<disk, counters>>
        /\ ~InReq(pc[t], loc[t]) /\ ~InInv(pc[t], loc[t])
    BY <1>3 DEF IV_Lock, InReq, InInv, Deciding, Adding
  <2>2. CASE Return(t) /\ UNCHANGED holder
    BY <2>1, <2>2, ReturnIsSound
  <2>3. CASE /\ ~PendingInviteExists(invites, loc[t].gid, loc[t].name)
             /\ Lock(t, "invite_mutex") /\ Goto(t, "iv_append") /\ UNCHANGED loc
    <3>1. Does(t, "iv_append", loc[t])
      BY <2>3, SameLocals
    <3>2. InInv("iv_append", loc[t]) /\ "iv_append" \in Labels
      BY DEF InInv, Labels
    <3>3. Fit(groups, members, requests, invites, "iv_append", loc[t])
      BY <1>1, <1>2, <2>3 DEF Fit, ArgsFit, Serves, Adding, GroupFit, MemberFit, FoundFit,
         RequestFit, InviteFit, Deciding
    <3>4. MutexStep(t)
      BY <2>1, <2>3, <3>1, <3>2, InvitesLocked
    <3>5. QED BY <2>1, <3>1, <3>2, <3>3, <3>4, ReadingIsSound
  <2>4. QED BY <1>3, <2>2, <2>3 DEF IV_Lock
<1>4. CASE IV_Append(t)
  <2>1. /\ invites' = Append(invites, NewInvite(next_invite_id, loc[t].gid,
                                                loc[t].user, loc[t].name))
        /\ next_invite_id' = next_invite_id + 1
        /\ Unlock("invite_mutex") /\ Return(t)
        /\ UNCHANGED <<groups, members, requests, next_group_id, next_join_request_id>>
        /\ InInv(pc[t], loc[t])
    BY <1>4 DEF IV_Append, InInv
  <2>2. /\ invites' \in Seq(GroupInviteRecordDB) /\ InvitesKept(invites, invites')
        /\ InvitesNumbered(invites', next_invite_id')
        /\ ApprovalsHaveMembers(requests, invites', members)
    <3>1. PICK e, n, f : /\ e = NewInvite(next_invite_id, loc[t].gid, loc[t].user,
                                           loc[t].name)
                         /\ n = next_invite_id /\ f = invites'
      OBVIOUS
    <3>2. /\ e \in GroupInviteRecordDB /\ e.invite_id = n /\ e.group_id \in GroupId
          /\ e.status = Pending
      <4>1. PICK gid \in GroupId, u \in Name, w \in Name : e = NewInvite(n, gid, u, w)
        BY <1>2, <3>1
      <4>2. n \in Nat /\ gid \in Nat
        BY <1>1, <3>1, IdAssumption DEF InvitesNumbered
      <4>3. QED BY <4>1, <4>2 DEF NewInvite, GroupInviteRecordDB, Status
    <3>3. InvitesNumbered(invites, n) /\ f = Append(invites, e)
      BY <1>1, <2>1, <3>1
    <3>4. /\ f \in Seq(GroupInviteRecordDB) /\ InvitesKept(invites, f)
          /\ InvitesNumbered(f, n + 1)
          /\ ApprovalsHaveMembers(requests, f, members)
      BY <1>1, <3>2, <3>3, InviteAdded
    <3>5. QED BY <2>1, <3>1, <3>4
  <2>3. FileStep(t)
    BY <1>1, <2>1, <2>2, InvitesWritten
  <2>4. QED BY <2>1, <2>3, InviteWriteIsSound
<1>5. QED BY <1>3, <1>4

LEMMA DecideInviteIsSound ==
  ASSUME IInv, NEW t \in Thread, DI_Lock(t) \/ DI_Info(t) \/ DI_Write(t)
  PROVE  Sound(t)
<1>1. /\ ArgsFit(pc[t], loc[t]) /\ loc[t] \in CallRecord /\ loc \in [Thread -> CallRecord]
      /\ InviteFit(invites, pc[t], loc[t]) /\ FoundFit(groups, members, pc[t], loc[t])
      /\ invites \in Seq(GroupInviteRecordDB)
      /\ InvitesNumbered(invites, next_invite_id)
      /\ ApprovalsHaveMembers(requests, invites, members)
      /\ groups \in Seq(GroupRecordDB)
  BY ThreadFacts DEF FilesTyped, IInv, FilesFit
<1>2. /\ loc[t].cmd = "decide_invite" /\ loc[t].user \in Name /\ loc[t].name \in Name
      /\ loc[t].name = loc[t].user
  BY <1>1 DEF ArgsFit, Serves, DI_Lock, DI_Info, DI_Write
<1>3. CASE DI_Lock(t)
  <2>1. /\ UNCHANGED <<disk, counters>>
        /\ ~InReq(pc[t], loc[t]) /\ ~InInv(pc[t], loc[t])
    BY <1>3 DEF DI_Lock, InReq, InInv, Deciding, Adding
  <2>2. CASE Return(t) /\ UNCHANGED holder
    BY <2>1, <2>2, ReturnIsSound
  <2>3. CASE ~(Return(t) /\ UNCHANGED holder)
    <3>1. PICK at : /\ at = InviteAt(invites, loc[t].id) /\ at # 0
                    /\ invites[at].invitee = loc[t].user
                    /\ invites[at].status = Pending
                    /\ Lock(t, "invite_mutex") /\ Goto(t, "di_info")
                    /\ loc' = [loc EXCEPT ![t].pos = at, ![t].entry = invites[at],
                                          ![t].gid = invites[at].group_id]
      BY <1>3, <2>3 DEF DI_Lock
    <3>2. at \in DOMAIN invites /\ at \in Nat
      BY <1>1, <3>1, InviteFound
    <3>3. PICK e \in GroupInviteRecordDB : e = invites[at]
      BY <1>1, <3>2
    <3>4. e.group_id \in Nat
      BY DEF GroupInviteRecordDB
    <3> DEFINE c == [loc[t] EXCEPT !.pos = at, !.entry = e, !.gid = e.group_id]
    <3>5. /\ c \in CallRecord /\ c.pos = at /\ c.entry = e /\ c.gid = e.group_id
          /\ c.name = loc[t].name /\ c.cmd = loc[t].cmd /\ c.user = loc[t].user
      BY <1>1, <3>2, <3>3, <3>4 DEF CallRecord, AnyName
    <3>6. loc' = [loc EXCEPT ![t] = c]
      BY <1>1, <3>1, <3>3
    <3> HIDE DEF c
    <3>7. Does(t, "di_info", c)
      BY <1>1, <3>1, <3>5, <3>6, NewLocals
    <3>8. InInv("di_info", c) /\ "di_info" \in Labels
      BY DEF InInv, Labels
    <3>9. Fit(groups, members, requests, invites, "di_info", c)
      BY <1>2, <3>1, <3>2, <3>3, <3>4, <3>5 DEF Fit, ArgsFit, Serves, Adding, GroupFit,
         MemberFit, FoundFit, RequestFit, InviteFit, Deciding
    <3>10. MutexStep(t)
      BY <2>1, <3>1, <3>7, <3>8, InvitesLocked
    <3>11. QED BY <2>1, <3>7, <3>8, <3>9, <3>10, ReadingIsSound
  <2>4. QED BY <2>2, <2>3
<1>4. CASE DI_Info(t)
  <2>1. UNCHANGED <<disk, counters>> /\ pc[t] = "di_info" /\ InInv(pc[t], loc[t])
    BY <1>4 DEF DI_Info, InInv
  <2>2. CASE Return(t) /\ Unlock("invite_mutex")
    BY <2>1, <2>2, UnlockIsSound
  <2>3. CASE ~(Return(t) /\ Unlock("invite_mutex"))
    <3>1. PICK l \in {"am_owner", "di_write"} :
            /\ Goto(t, l) /\ UNCHANGED holder
            /\ l = "di_write" => ~loc[t].approve
            /\ loc' = [loc EXCEPT ![t].requester =
                         groups[ActiveGroupAt(groups, loc[t].gid)].owner]
            /\ ActiveGroupAt(groups, loc[t].gid) # 0
      BY <1>4, <2>3 DEF DI_Info
    <3>2. PICK owner \in Name :
            owner = groups[ActiveGroupAt(groups, loc[t].gid)].owner
      <4>1. PICK at : at = ActiveGroupAt(groups, loc[t].gid)
        OBVIOUS
      <4>2. at \in DOMAIN groups
        BY <1>1, <3>1, <4>1, ActiveGroupFound
      <4>3. groups[at] \in GroupRecordDB
        BY <1>1, <4>2
      <4>4. groups[at].owner \in Name
        BY <4>3 DEF GroupRecordDB
      <4>5. QED BY <4>1, <4>4
    <3> DEFINE c == [loc[t] EXCEPT !.requester = owner]
    <3>3. /\ c \in CallRecord /\ c.pos = loc[t].pos /\ c.entry = loc[t].entry
          /\ c.gid = loc[t].gid /\ c.name = loc[t].name /\ c.cmd = loc[t].cmd
          /\ c.user = loc[t].user /\ c.approve = loc[t].approve
      BY <1>1, <3>2 DEF CallRecord, AnyName
    <3>4. loc' = [loc EXCEPT ![t] = c]
      BY <1>1, <3>1, <3>2
    <3> HIDE DEF c
    <3>5. Does(t, l, c)
      BY <3>1, <3>3, <3>4, NewLocals
    <3>6. /\ InInv(l, c) /\ l \in Labels
          /\ ~InReq(l, c) /\ ~InReq(pc[t], loc[t])
      BY <1>2, <2>1, <3>3 DEF InReq, InInv, Deciding, Adding, Labels
    <3>7. Fit(groups, members, requests, invites, l, c)
      <4>1. ArgsFit(l, c) /\ GroupFit(groups, l, c) /\ MemberFit(members, l, c)
        BY <1>1, <1>2, <3>3 DEF ArgsFit, Serves, Adding, OnEntry, GroupFit, MemberFit
      <4>2. FoundFit(groups, members, l, c)
        BY <3>1, <3>3 DEF FoundFit
      <4>3. RequestFit(requests, l, c)
        BY <1>2, <3>3 DEF RequestFit, Deciding, Adding
      <4>4. InviteFit(invites, l, c)
        BY <1>1, <2>1, <3>1, <3>3 DEF InviteFit, Deciding, Adding
      <4>5. QED BY <4>1, <4>2, <4>3, <4>4 DEF Fit
    <3>8. MutexStep(t)
      BY <2>1, <3>1, <3>5, <3>6, MutexesUntouched
    <3>9. QED BY <2>1, <3>5, <3>6, <3>7, <3>8, ReadingIsSound
  <2>4. QED BY <2>2, <2>3
<1>5. CASE DI_Write(t)
  <2>1. /\ invites' = [invites EXCEPT ![loc[t].pos] = Decided(t)]
        /\ Unlock("invite_mutex") /\ Return(t)
        /\ UNCHANGED <<groups, members, requests, counters>>
        /\ InInv(pc[t], loc[t]) /\ pc[t] = "di_write"
    BY <1>5 DEF DI_Write, InInv
  <2>2. PICK at \in DOMAIN invites :
          /\ at = loc[t].pos /\ loc[t].entry = invites[at]
          /\ loc[t].gid = invites[at].group_id /\ loc[t].name = invites[at].invitee
    BY <1>1, <2>1 DEF InviteFit
  <2>3. PICK e : e = Decided(t)
    OBVIOUS
  <2>4. /\ e \in GroupInviteRecordDB /\ e.invite_id = invites[at].invite_id
        /\ e.group_id = invites[at].group_id /\ e.invitee = invites[at].invitee
        /\ e.status = Approved => loc[t].approve
    <3>1. invites[at] \in GroupInviteRecordDB
      BY <1>1
    <3>2. PICK st \in Status : st = IF loc[t].approve THEN Approved ELSE Rejected
      BY DEF Status
    <3>3. e = [invites[at] EXCEPT !.status = st, !.reviewed_by = loc[t].user]
      BY <2>2, <2>3, <3>2 DEF Decided
    <3>4. st = Approved => loc[t].approve
      BY <3>2 DEF Approved, Rejected
    <3>5. QED BY <1>2, <3>1, <3>3, <3>4 DEF GroupInviteRecordDB
  <2>5. /\ invites' \in Seq(GroupInviteRecordDB) /\ InvitesKept(invites, invites')
        /\ InvitesNumbered(invites', next_invite_id)
        /\ ApprovalsHaveMembers(requests, invites', members)
    <3>1. e.status = Approved => HasRecord(members, e.group_id, e.invitee)
      BY <1>1, <2>1, <2>2, <2>4 DEF FoundFit
    <3>2. PICK n, f : n = next_invite_id /\ f = invites'
      OBVIOUS
    <3>3. InvitesNumbered(invites, n) /\ f = [invites EXCEPT ![at] = e]
      BY <1>1, <2>1, <2>2, <2>3, <3>2
    <3>4. /\ f \in Seq(GroupInviteRecordDB) /\ InvitesKept(invites, f)
          /\ InvitesNumbered(f, n)
          /\ ApprovalsHaveMembers(requests, f, members)
      BY <1>1, <2>4, <3>1, <3>3, InviteRewritten
    <3>5. QED BY <3>2, <3>4
  <2>6. FileStep(t)
    BY <2>1, <2>5, InvitesWritten DEF counters
  <2>7. QED BY <2>1, <2>6, InviteWriteIsSound
<1>6. QED BY <1>3, <1>4, <1>5

-----------------------------------------------------------------------------
(* The listings under a mutex. *)
LEMMA ListingGoesOn ==
  ASSUME IInv, NEW t \in Thread, pc[t] \in {"lr_count", "lr_fill"},
         NEW l \in {"lr_count", "lr_fill"}, NEW c \in CallRecord, Does(t, l, c),
         c.cmd = loc[t].cmd, c.user = loc[t].user, c.name = loc[t].name,
         c.gid = loc[t].gid, l = "lr_count" => c.listed = {},
         \A k \in c.listed : k \in DOMAIN requests /\ requests[k].status = Pending,
         UNCHANGED <<disk, counters, holder>>
  PROVE  Sound(t)
<1>1. ArgsFit(pc[t], loc[t]) /\ pc[t] # "idle"
  BY ThreadFacts
<1>2. ArgsFit(l, c)
  BY <1>1 DEF ArgsFit, Serves, Adding
<1>3. /\ InReq(l, c) /\ InReq(pc[t], loc[t]) /\ l \in Labels
      /\ ~InInv(l, c) /\ ~InInv(pc[t], loc[t])
  BY DEF InReq, InInv, Deciding, Adding, Labels
<1>4. Fit(groups, members, requests, invites, l, c)
  BY <1>2 DEF Fit, GroupFit, MemberFit, FoundFit, RequestFit, InviteFit, Deciding, Adding
<1>5. MutexStep(t)
  BY <1>3, MutexesUntouched
<1>6. QED BY <1>3, <1>4, <1>5, ReadingIsSound

LEMMA RequestListingIsSound ==
  ASSUME IInv, NEW t \in Thread, LR_Lock(t) \/ LR_Count(t) \/ LR_Fill(t)
  PROVE  Sound(t)
<1>1. /\ ArgsFit(pc[t], loc[t]) /\ loc[t] \in CallRecord /\ loc \in [Thread -> CallRecord]
      /\ RequestFit(requests, pc[t], loc[t]) /\ requests \in Seq(JoinRequestRecordDB)
      /\ pc \in [Thread -> Labels]
  BY ThreadFacts DEF FilesTyped, IInv
<1>2. UNCHANGED <<disk, counters>>
  BY DEF LR_Lock, LR_Count, LR_Fill
<1>3. CASE LR_Lock(t)
  <2>1. /\ pc[t] = "lr_lock" /\ Lock(t, "join_req_mutex") /\ Goto(t, "lr_count")
        /\ UNCHANGED loc
    BY <1>3 DEF LR_Lock
  <2>2. /\ InReq("lr_count", loc[t]) /\ ~InInv(pc[t], loc[t]) /\ "lr_count" \in Labels
    BY <2>1 DEF InReq, InInv, Deciding, Adding, Labels
  <2>3. Does(t, "lr_count", loc[t])
    BY <2>1, SameLocals
  <2>4. ArgsFit("lr_count", loc[t])
    BY <1>1, <2>1 DEF ArgsFit, Serves, Adding
  <2>5. Fit(groups, members, requests, invites, "lr_count", loc[t])
    BY <2>4 DEF Fit, GroupFit, MemberFit, FoundFit, RequestFit, InviteFit, Deciding,
                Adding
  <2>6. MutexStep(t)
    BY <2>1, <2>2, <2>3, RequestsLocked
  <2>7. QED BY <1>2, <2>2, <2>3, <2>5, <2>6, ReadingIsSound
<1>4. CASE Return(t) /\ Unlock("join_req_mutex") /\ ~LR_Lock(t)
  <2>1. InReq(pc[t], loc[t])
    BY <1>4 DEF LR_Count, LR_Fill, InReq
  <2>2. QED BY <1>2, <1>4, <2>1, UnlockIsSound
<1>5. PendingBehind(t) # {} =>
        /\ Min(PendingBehind(t)) \in DOMAIN requests
        /\ Min(PendingBehind(t)) \in Nat
        /\ requests[Min(PendingBehind(t))].status = Pending
  <2>1. /\ PendingBehind(t) \in SUBSET Nat
        /\ \A k \in PendingBehind(t) : k \in DOMAIN requests /\ requests[k].status = Pending
    BY <1>1 DEF PendingBehind
  <2>2. QED BY <2>1, MinNat
<1>6. CASE LR_Count(t) /\ ~(Return(t) /\ Unlock("join_req_mutex"))
  <2>1. pc[t] = "lr_count" /\ loc[t].listed = {}
    BY <1>1, <1>6 DEF LR_Count, ArgsFit
  <2>2. CASE PendingBehind(t) # {}
    <3>1. PICK k : k = Min(PendingBehind(t))
      OBVIOUS
    <3>2. /\ loc' = [loc EXCEPT ![t].at = k,
                                ![t].count = IF Listable(t, k) THEN @ + 1 ELSE @]
          /\ UNCHANGED <<pc, holder>> /\ k \in Nat
      BY <1>5, <1>6, <2>2, <3>1 DEF LR_Count
    <3>3. PICK n \in Nat : n = IF Listable(t, k) THEN loc[t].count + 1 ELSE loc[t].count
      BY <1>1 DEF CallRecord
    <3> DEFINE c == [loc[t] EXCEPT !.at = k, !.count = n]
    <3>4. /\ c \in CallRecord /\ c.cmd = loc[t].cmd /\ c.user = loc[t].user
          /\ c.name = loc[t].name /\ c.gid = loc[t].gid /\ c.listed = loc[t].listed
      BY <1>1, <3>2 DEF CallRecord
    <3>5. loc' = [loc EXCEPT ![t] = c]
      BY <1>1, <3>2, <3>3
    <3> HIDE DEF c
    <3>6. Goto(t, "lr_count")
      BY <1>1, <2>1, <3>2 DEF Goto
    <3>7. Does(t, "lr_count", c)
      BY <3>4, <3>5, <3>6, NewLocals
    <3>8. QED BY <1>2, <2>1, <3>2, <3>4, <3>7, ListingGoesOn
  <2>3. CASE PendingBehind(t) = {}
    <3>1. /\ loc' = [loc EXCEPT ![t].at = 0] /\ Goto(t, "lr_fill") /\ UNCHANGED holder
      BY <1>6, <2>3 DEF LR_Count
    <3> DEFINE c == [loc[t] EXCEPT !.at = 0]
    <3>2. /\ c \in CallRecord /\ c.cmd = loc[t].cmd /\ c.user = loc[t].user
          /\ c.name = loc[t].name /\ c.gid = loc[t].gid /\ c.listed = loc[t].listed
      BY <1>1 DEF CallRecord
    <3>3. loc' = [loc EXCEPT ![t] = c]
      BY <1>1, <3>1
    <3> HIDE DEF c
    <3>4. Does(t, "lr_fill", c)
      BY <3>1, <3>2, <3>3, NewLocals
    <3>5. QED BY <1>2, <2>1, <3>1, <3>2, <3>4, ListingGoesOn
  <2>4. QED BY <2>2, <2>3
<1>7. CASE LR_Fill(t) /\ ~(Return(t) /\ Unlock("join_req_mutex"))
  <2>1. /\ pc[t] = "lr_fill" /\ PendingBehind(t) # {}
        /\ \A k \in loc[t].listed : k \in DOMAIN requests /\ requests[k].status = Pending
    BY <1>1, <1>7 DEF LR_Fill, RequestFit
  <2>2. PICK k : k = Min(PendingBehind(t))
    OBVIOUS
  <2>3. /\ loc' = [loc EXCEPT ![t].at = k,
                              ![t].listed = IF Listable(t, k) THEN @ \cup {k} ELSE @]
        /\ UNCHANGED <<pc, holder>>
        /\ k \in Nat /\ k \in DOMAIN requests /\ requests[k].status = Pending
    BY <1>5, <1>7, <2>1, <2>2 DEF LR_Fill
  <2>4. PICK S : S = IF Listable(t, k) THEN loc[t].listed \cup {k} ELSE loc[t].listed
    OBVIOUS
  <2>5. /\ S \in SUBSET Nat
        /\ \A j \in S : j \in DOMAIN requests /\ requests[j].status = Pending
    <3>1. loc[t].listed \in SUBSET Nat
      BY <1>1 DEF CallRecord
    <3>2. QED BY <2>1, <2>3, <2>4, <3>1
  <2> DEFINE c == [loc[t] EXCEPT !.at = k, !.listed = S]
  <2>6. /\ c \in CallRecord /\ c.cmd = loc[t].cmd /\ c.user = loc[t].user
        /\ c.name = loc[t].name /\ c.gid = loc[t].gid /\ c.listed = S
    BY <1>1, <2>3, <2>5 DEF CallRecord
  <2>7. loc' = [loc EXCEPT ![t] = c]
    BY <1>1, <2>3, <2>4
  <2> HIDE DEF c
  <2>8. Goto(t, "lr_fill")
    BY <1>1, <2>1, <2>3 DEF Goto
  <2>9. Does(t, "lr_fill", c)
    BY <2>6, <2>7, <2>8, NewLocals
  <2>10. QED BY <1>2, <2>1, <2>3, <2>5, <2>6, <2>9, ListingGoesOn
<1>8. QED BY <1>3, <1>4, <1>6, <1>7

LEMMA SomePositions ==
  ASSUME NEW R, NEW f \in Seq(R), NEW S, S \subseteq DOMAIN f
  PROVE  Cardinality(S) \in Nat
<1>1. IsFiniteSet(1..Len(f)) /\ S \in SUBSET (1..Len(f))
  BY FS_Interval
<1>2. QED BY <1>1, FS_Subset, FS_CardinalityType

LEMMA InviteListingIsSound ==
  ASSUME IInv, NEW t \in Thread, LN_Count(t) \/ LN_Fill(t)
  PROVE  Sound(t)
<1>1. /\ ArgsFit(pc[t], loc[t]) /\ loc[t] \in CallRecord /\ loc \in [Thread -> CallRecord]
      /\ invites \in Seq(GroupInviteRecordDB)
  BY ThreadFacts DEF FilesTyped, IInv
<1>2. UNCHANGED <<disk, counters>>
  BY DEF LN_Count, LN_Fill
<1>3. CASE LN_Fill(t)
  <2>1. /\ InInv(pc[t], loc[t]) /\ Return(t) /\ Unlock("invite_mutex")
    BY <1>3 DEF LN_Fill, InInv
  <2>2. QED BY <1>2, <2>1, UnlockIsSound
<1>4. CASE LN_Count(t) /\ Return(t) /\ UNCHANGED holder
  <2>1. ~InReq(pc[t], loc[t]) /\ ~InInv(pc[t], loc[t])
    BY <1>4 DEF LN_Count, InReq, InInv, Deciding, Adding
  <2>2. QED BY <1>2, <1>4, <2>1, ReturnIsSound
<1>5. CASE LN_Count(t) /\ ~(Return(t) /\ UNCHANGED holder)
  <2>1. PICK n : n = Cardinality(InvitesOf(invites, loc[t].user))
    OBVIOUS
  <2>2. /\ pc[t] = "ln_count" /\ Lock(t, "invite_mutex") /\ Goto(t, "ln_fill")
        /\ loc' = [loc EXCEPT ![t].count = n]
    BY <1>5, <2>1 DEF LN_Count, InvitesFor, InvitesOf
  <2>3. n \in Nat
    <3>1. PICK S : S = InvitesOf(invites, loc[t].user)
      OBVIOUS
    <3>2. S \subseteq DOMAIN invites
      BY <3>1 DEF InvitesOf
    <3>3. QED BY <1>1, <2>1, <3>1, <3>2, SomePositions
  <2> DEFINE c == [loc[t] EXCEPT !.count = n]
  <2>4. /\ c \in CallRecord /\ c.cmd = loc[t].cmd /\ c.user = loc[t].user
        /\ c.name = loc[t].name /\ c.gid = loc[t].gid /\ c.count = n
    BY <1>1, <2>3 DEF CallRecord
  <2>5. loc' = [loc EXCEPT ![t] = c]
    BY <1>1, <2>2
  <2> HIDE DEF c
  <2>6. Does(t, "ln_fill", c)
    BY <2>2, <2>4, <2>5, NewLocals
  <2>7. /\ InInv("ln_fill", c) /\ ~InReq(pc[t], loc[t]) /\ "ln_fill" \in Labels
    BY <2>2 DEF InReq, InInv, Deciding, Adding, Labels
  <2>8. ArgsFit("ln_fill", c)
    BY <1>1, <2>2, <2>4 DEF ArgsFit, Serves, Adding
  <2>9. InviteFit(invites, "ln_fill", c)
    BY <2>1, <2>4 DEF InviteFit, Deciding, Adding
  <2>10. Fit(groups, members, requests, invites, "ln_fill", c)
    BY <2>8, <2>9 DEF Fit, GroupFit, MemberFit, FoundFit, RequestFit, Deciding, Adding
  <2>11. MutexStep(t)
    BY <2>2, <2>6, <2>7, InvitesLocked
  <2>12. QED BY <1>2, <2>6, <2>7, <2>10, <2>11, ReadingIsSound
<1>6. QED BY <1>3, <1>4, <1>5

-----------------------------------------------------------------------------
(* A call begins. *)
LEMMA NewCallFits ==
  ASSUME NEW cmd \in DOMAIN Entry, NEW u \in Name
  PROVE  /\ NewCall(cmd, u) \in CallRecord
         /\ NewCall(cmd, u).cmd = cmd /\ NewCall(cmd, u).user = u
         /\ NewCall(cmd, u).name = u /\ NewCall(cmd, u).listed = {}
<1>1. {} \in SUBSET Nat
  OBVIOUS
<1>2. QED BY <1>1 DEF NewCall, CallRecord, AnyName

LEMMA CallsFit ==
  ASSUME NEW c \in Calls
  PROVE  /\ c \in CallRecord /\ c.cmd \in DOMAIN Entry
         /\ c.user \in Name /\ c.name \in Name /\ c.listed = {}
         /\ c.cmd \in {"request_join", "invite"} => c.gid \in GroupId
         /\ c.cmd = "decide_invite" => c.name = c.user
<1>1. /\ OnNothing \cup OnGroup \cup OnMember \cup OnEntry \cup {"invite"}
           \subseteq DOMAIN Entry
      /\ "list_requests" \in OnGroup
      /\ Account \subseteq Name /\ GroupId \subseteq Nat /\ EntryId \subseteq Nat
  BY AccountAssumption, IdAssumption
     DEF OnNothing, OnGroup, OnMember, OnEntry, Entry
<1>2. ASSUME NEW cmd \in DOMAIN Entry, NEW u \in Account,
             NEW k, k = NewCall(cmd, u),
             NEW g \in Nat, NEW v \in Name, NEW i \in Nat, NEW b \in BOOLEAN,
             \/ c = k /\ cmd \notin {"request_join", "invite"}
             \/ c = [k EXCEPT !.gid = g] /\ g \in GroupId
             \/ /\ c = [k EXCEPT !.gid = g, !.name = v]
                /\ g \in GroupId /\ cmd # "decide_invite"
             \/ /\ c = [k EXCEPT !.id = i, !.approve = b]
                /\ cmd \notin {"request_join", "invite"}
      PROVE  /\ c \in CallRecord /\ c.cmd \in DOMAIN Entry
             /\ c.user \in Name /\ c.name \in Name /\ c.listed = {}
             /\ c.cmd \in {"request_join", "invite"} => c.gid \in GroupId
             /\ c.cmd = "decide_invite" => c.name = c.user
  <2>1. /\ k \in CallRecord /\ k.cmd = cmd /\ k.user = u /\ k.name = u /\ k.listed = {}
        /\ u \in Name
    BY <1>1, <1>2, NewCallFits
  <2>2. CASE c = k /\ cmd \notin {"request_join", "invite"}
    BY <2>1, <2>2
  <2>3. CASE c = [k EXCEPT !.gid = g] /\ g \in GroupId
    BY <2>1, <2>3 DEF CallRecord
  <2>4. CASE /\ c = [k EXCEPT !.gid = g, !.name = v]
             /\ g \in GroupId /\ cmd # "decide_invite"
    BY <2>1, <2>4 DEF CallRecord, AnyName
  <2>5. CASE /\ c = [k EXCEPT !.id = i, !.approve = b]
             /\ cmd \notin {"request_join", "invite"}
    BY <2>1, <2>5 DEF CallRecord
  <2>6. QED BY <1>2, <2>2, <2>3, <2>4, <2>5
<1>3. \A cmd \in OnNothing \cup OnMember \cup {"list_requests"} :
        cmd \notin {"request_join", "invite"} /\ cmd # "decide_invite"
  BY DEF OnNothing, OnMember
<1>4. \A cmd \in OnEntry : cmd \notin {"request_join", "invite"}
  BY DEF OnEntry
<1>5. CASE c \in {NewCall(cmd, u) : cmd \in OnNothing \cup {"list_requests"},
                                    u \in Account}
  <2>1. PICK cmd \in OnNothing \cup {"list_requests"}, u \in Account :
          c = NewCall(cmd, u)
    BY <1>5
  <2>2. PICK k : k = NewCall(cmd, u)
    OBVIOUS
  <2>3. cmd \in DOMAIN Entry /\ u \in Name /\ 0 \in Nat /\ FALSE \in BOOLEAN
    BY <1>1
  <2>4. QED BY <1>2, <1>3, <2>1, <2>2, <2>3
<1>6. CASE c \in {[NewCall(cmd, u) EXCEPT !.gid = g] :
                    cmd \in OnGroup, u \in Account, g \in GroupId}
  <2>1. PICK cmd \in OnGroup, u \in Account, g \in GroupId :
          c = [NewCall(cmd, u) EXCEPT !.gid = g]
    BY <1>6
  <2>2. PICK k : k = NewCall(cmd, u)
    OBVIOUS
  <2>3. /\ cmd \in DOMAIN Entry /\ u \in Name /\ g \in Nat /\ 0 \in Nat
        /\ FALSE \in BOOLEAN
    BY <1>1
  <2>4. QED BY <1>2, <2>1, <2>2, <2>3
<1>7. CASE c \in {MemberCall(cmd, u, g, v) :
                    cmd \in OnMember, u \in Account, g \in GroupId, v \in Name}
  <2>1. PICK cmd \in OnMember, u \in Account, g \in GroupId, v \in Name :
          c = MemberCall(cmd, u, g, v)
    BY <1>7
  <2>2. PICK k : k = NewCall(cmd, u)
    OBVIOUS
  <2>3. cmd \in DOMAIN Entry /\ g \in Nat /\ 0 \in Nat /\ FALSE \in BOOLEAN
    BY <1>1
  <2>4. QED BY <1>2, <1>3, <2>1, <2>2, <2>3 DEF MemberCall
<1>8. CASE c \in {MemberCall("invite", u, g, v) :
                    u \in Account, g \in GroupId, v \in Account}
  <2>1. PICK u \in Account, g \in GroupId, v \in Account :
          c = MemberCall("invite", u, g, v)
    BY <1>8
  <2>2. PICK k : k = NewCall("invite", u)
    OBVIOUS
  <2>3. /\ "invite" \in DOMAIN Entry /\ v \in Name /\ g \in Nat /\ 0 \in Nat
        /\ FALSE \in BOOLEAN
    BY <1>1
  <2>4. QED BY <1>2, <2>1, <2>2, <2>3 DEF MemberCall
<1>9. CASE c \in {EntryCall(cmd, u, i, b) :
                    cmd \in OnEntry, u \in Account, i \in EntryId, b \in BOOLEAN}
  <2>1. PICK cmd \in OnEntry, u \in Account, i \in EntryId, b \in BOOLEAN :
          c = EntryCall(cmd, u, i, b)
    BY <1>9
  <2>2. PICK k : k = NewCall(cmd, u)
    OBVIOUS
  <2>3. cmd \in DOMAIN Entry /\ u \in Name /\ i \in Nat /\ 0 \in Nat
    BY <1>1
  <2>4. QED BY <1>2, <1>4, <2>1, <2>2, <2>3 DEF EntryCall
<1>10. \/ c \in {NewCall(cmd, u) : cmd \in OnNothing \cup {"list_requests"},
                                 u \in Account}
       \/ c \in {[NewCall(cmd, u) EXCEPT !.gid = g] :
                    cmd \in OnGroup, u \in Account, g \in GroupId}
       \/ c \in {MemberCall(cmd, u, g, v) :
                    cmd \in OnMember, u \in Account, g \in GroupId, v \in Name}
       \/ c \in {MemberCall("invite", u, g, v) :
                    u \in Account, g \in GroupId, v \in Account}
       \/ c \in {EntryCall(cmd, u, i, b) :
                    cmd \in OnEntry, u \in Account, i \in EntryId, b \in BOOLEAN}
  BY DEF Calls
<1>11. QED BY <1>5, <1>6, <1>7, <1>8, <1>9, <1>10

LEMMA EntryFits ==
  ASSUME NEW cmd \in DOMAIN Entry, NEW l, l = Entry[cmd]
  PROVE  /\ Serves(l, cmd)
         /\ l \in Plain \/ l = "lr_lock" \/ (l = "am_owner" /\ cmd = "add_member")
<1>1. \/ cmd = "create_group" /\ l = "cg_load"
      \/ cmd = "add_member" /\ l = "am_owner"
      \/ cmd = "remove_member" /\ l = "rm_owner"
      \/ cmd = "leave_group" /\ l = "lv_member"
      \/ cmd = "transfer_owner" /\ l = "to_owner"
      \/ cmd = "request_join" /\ l = "rj_member"
      \/ cmd = "decide_request" /\ l = "dj_lock"
      \/ cmd = "invite" /\ l = "iv_owner"
      \/ cmd = "decide_invite" /\ l = "di_lock"
      \/ cmd = "list_groups" /\ l = "lg_members"
      \/ cmd = "list_members" /\ l = "lm_member"
      \/ cmd = "list_requests" /\ l = "lr_lock"
      \/ cmd = "list_invites" /\ l = "ln_count"
  BY DEF Entry
<1>2. QED BY <1>1 DEF Serves, Adding, OnEntry, Plain

LEMMA BeginIsSound ==
  ASSUME IInv, NEW t \in Thread, Begin(t)
  PROVE  Sound(t)
<1>1. PICK c \in Calls : loc' = [loc EXCEPT ![t] = c] /\ Goto(t, Entry[c.cmd])
  BY DEF Begin, Goto
<1>2. /\ c \in CallRecord /\ c.cmd \in DOMAIN Entry
      /\ c.user \in Name /\ c.name \in Name /\ c.listed = {}
      /\ c.cmd \in {"request_join", "invite"} => c.gid \in GroupId
      /\ c.cmd = "decide_invite" => c.name = c.user
  BY CallsFit
<1>3. PICK l : l = Entry[c.cmd]
  OBVIOUS
<1>4. /\ Serves(l, c.cmd)
      /\ l \in Plain \/ l = "lr_lock" \/ (l = "am_owner" /\ c.cmd = "add_member")
  BY <1>2, <1>3, EntryFits
<1>5. ArgsFit(l, c)
  BY <1>2, <1>4 DEF ArgsFit
<1>6. /\ Fit(groups, members, requests, invites, l, c) /\ l \in Labels
      /\ ~InReq(l, c) /\ ~InInv(l, c)
  <2>1. CASE l \in Plain
    BY <1>2, <1>4, <2>1, PlainFits
  <2>2. CASE l \notin Plain
    BY <1>4, <1>5, <2>2 DEF Fit, GroupFit, MemberFit, FoundFit, RequestFit, InviteFit,
       InReq, InInv, Deciding, Adding, Labels
  <2>3. QED BY <2>1, <2>2
<1>7. /\ UNCHANGED <<disk, counters>> /\ UNCHANGED holder
      /\ ~InReq(pc[t], loc[t]) /\ ~InInv(pc[t], loc[t])
  BY DEF Begin, InReq, InInv, Deciding, Adding
<1>8. Does(t, l, c)
  BY <1>1, <1>2, <1>3, NewLocals
<1>9. MutexStep(t)
  BY <1>6, <1>7, <1>8, MutexesUntouched
<1>10. QED BY <1>6, <1>7, <1>8, <1>9, ReadingIsSound

-----------------------------------------------------------------------------
(* A process starts, at first or after it was killed. *)
LEMMA CountersFit ==
  ASSUME NEW g, NEW m, NEW r, NEW v, FilesTyped(g, m, r, v),
         MembersHaveGroups(m, g), ApprovalsHaveMembers(r, v, m),
         \A i \in DOMAIN r : r[i].request_id = i /\ r[i].group_id \in GroupId,
         \A i \in DOMAIN v : v[i].invite_id = i /\ v[i].group_id \in GroupId
  PROVE  FilesFit(g, m, r, v, FirstGroupId(g), FirstRequestId(r), FirstInviteId(v))
<1>1. /\ g \in Seq(GroupRecordDB)
      /\ Len(r) \in Nat /\ DOMAIN r = 1..Len(r)
      /\ Len(v) \in Nat /\ DOMAIN v = 1..Len(v)
  BY DEF FilesTyped
<1>2. FirstGroupId(g) \in Nat \ {0}
  <2>1. Len(g) \in Nat /\ DOMAIN g = 1..Len(g)
    BY <1>1
  <2>2. PICK id : id = [k \in 1..Len(g) |-> g[k].group_id]
    OBVIOUS
  <2>3. id \in [1..Len(g) -> Nat]
    <3>1. \A k \in 1..Len(g) : g[k] \in GroupRecordDB
      BY <1>1
    <3>2. \A k \in 1..Len(g) : g[k].group_id \in Nat
      BY <3>1 DEF GroupRecordDB
    <3>3. QED BY <2>2, <3>2
  <2>4. {g[k].group_id : k \in DOMAIN g} = {id[k] : k \in 1..Len(g)}
    BY <2>1, <2>2
  <2>5. QED BY <2>1, <2>3, <2>4, NextIdType DEF FirstGroupId
<1>3. FirstRequestId(r) = Len(r) + 1
  <2>1. {r[k].request_id : k \in DOMAIN r} = 1..Len(r)
    BY <1>1
  <2>2. QED BY <1>1, <2>1, NextIdFollows DEF FirstRequestId
<1>4. FirstInviteId(v) = Len(v) + 1
  <2>1. {v[k].invite_id : k \in DOMAIN v} = 1..Len(v)
    BY <1>1
  <2>2. QED BY <1>1, <2>1, NextIdFollows DEF FirstInviteId
<1>5. QED
  BY <1>2, <1>3, <1>4 DEF FilesFit, RequestsNumbered, InvitesNumbered

LEMMA InitIInv == Init => IInv
<1>1. SUFFICES ASSUME Init PROVE IInv
  OBVIOUS
<1>2. FilesFit(groups, members, requests, invites,
               next_group_id, next_join_request_id, next_invite_id)
  <2>1. FilesTyped(SeedGroups, SeedMembers, SeedRequests, SeedInvites)
    BY SeedAssumption DEF FilesTyped
  <2>2. FilesFit(SeedGroups, SeedMembers, SeedRequests, SeedInvites,
                 FirstGroupId(SeedGroups), FirstRequestId(SeedRequests),
                 FirstInviteId(SeedInvites))
    BY <2>1, DirectoryAssumption, CountersFit
  <2>3. QED BY <1>1, <2>2 DEF Init
<1>3. /\ holder \in [Mutex -> Thread \cup {Nobody}]
      /\ \A m \in Mutex : holder[m] = Nobody
      /\ pc \in [Thread -> Labels] /\ loc \in [Thread -> CallRecord]
      /\ \A t \in Thread : pc[t] = "idle" /\ loc[t] = NoCall
  BY <1>1, IdleFits, NoCallType DEF Init
<1>4. MutexesFit
  BY <1>3, IdleFits, NobodyAssumption DEF MutexesFit, Mutex
<1>5. QED BY <1>2, <1>3, <1>4, IdleFits DEF IInv

LEMMA CrashIInv ==
  ASSUME IInv, Crash
  PROVE  IInv'
<1>1. FilesFit(groups', members', requests', invites',
               next_group_id', next_join_request_id', next_invite_id')
  <2>1. FilesFit(groups, members, requests, invites,
                 next_group_id, next_join_request_id, next_invite_id)
    BY DEF IInv
  <2>2. FilesFit(groups, members, requests, invites, FirstGroupId(groups),
                 FirstRequestId(requests), FirstInviteId(invites))
    BY <2>1, CountersFit DEF FilesFit, RequestsNumbered, InvitesNumbered
  <2>3. QED BY <2>2 DEF Crash, disk
<1>2. /\ holder' \in [Mutex -> Thread \cup {Nobody}]
      /\ \A m \in Mutex : holder'[m] = Nobody
      /\ pc' \in [Thread -> Labels] /\ loc' \in [Thread -> CallRecord]
      /\ \A t \in Thread : pc'[t] = "idle" /\ loc'[t] = NoCall
  BY IdleFits, NoCallType DEF Crash
<1>3. MutexesFit'
  BY <1>2, IdleFits, NobodyAssumption DEF MutexesFit, Mutex
<1>4. \A t \in Thread : Fit(groups', members', requests', invites', pc'[t], loc'[t])
  BY <1>2, IdleFits
<1>5. QED BY <1>1, <1>2, <1>3, <1>4 DEF IInv

-----------------------------------------------------------------------------
(* A file that cannot be opened: the call returns and gives its mutex back, *)
LEMMA GivingUpIsSound ==
  ASSUME IInv, NEW t \in Thread, UNCHANGED <<disk, counters>>,
         \/ /\ pc[t] \in OpenOrReturn \cup {"to_scan"} \cup DOMAIN OpenAfterLock
            /\ Return(t) /\ UNCHANGED holder
         \/ OpenFailsInside(t)
  PROVE  Sound(t)
<1>1. CASE /\ pc[t] \in OpenOrReturn \cup {"to_scan"} \cup DOMAIN OpenAfterLock
           /\ Return(t) /\ UNCHANGED holder
  <2>1. ~InReq(pc[t], loc[t]) /\ ~InInv(pc[t], loc[t])
    BY <1>1 DEF OpenOrReturn, OpenAfterLock, InReq, InInv, Deciding, Adding
  <2>2. QED BY <1>1, <2>1, ReturnIsSound
<1>2. CASE OpenFailsInside(t)
  <2>1. /\ Return(t)
        /\ \/ pc[t] \in {"rj_append", "dj_info"} /\ Unlock("join_req_mutex")
           \/ pc[t] \in {"iv_append", "di_info"} /\ Unlock("invite_mutex")
    BY <1>2 DEF OpenFailsInside, OpenInside
  <2>2. \/ Unlock("join_req_mutex") /\ InReq(pc[t], loc[t])
        \/ Unlock("invite_mutex") /\ InInv(pc[t], loc[t])
    BY <2>1 DEF InReq, InInv
  <2>3. QED BY <2>1, <2>2, UnlockIsSound
<1>3. QED BY <1>1, <1>2

(* goes on as if the answer were no, *)
LEMMA GoingOnIsSound ==
  ASSUME IInv, NEW t \in Thread, UNCHANGED <<disk, counters>>,
         pc[t] \in DOMAIN OpenOrNo, Goto(t, OpenOrNo[pc[t]]), UNCHANGED <<loc, holder>>
  PROVE  Sound(t)
<1>1. ArgsFit(pc[t], loc[t]) /\ loc[t] \in CallRecord
      /\ FoundFit(groups, members, pc[t], loc[t])
  BY ThreadFacts
<1>2. CASE pc[t] = "am_member"
  <2>1. Goto(t, "am_append")
    BY <1>2 DEF OpenOrNo
  <2>2. FoundFit(groups', members', "am_append", loc[t])
    BY <1>1, <1>2 DEF FoundFit, disk
  <2>3. FileStep(t) /\ UNCHANGED <<loc, holder, requests, invites>>
    BY FilesUntouched DEF disk
  <2>4. {"am_member", "am_append"} \subseteq Adding
    BY DEF Adding
  <2>5. QED BY <1>2, <2>1, <2>2, <2>3, <2>4, AddingGoesOn
<1>3. CASE pc[t] # "am_member"
  <2>1. PICK l : /\ Goto(t, l)
                 /\ <<pc[t], l>> \in {<<"rm_target", "rm_read">>, <<"lv_owner", "lv_read">>,
                                     <<"rj_member", "rj_owner">>, <<"rj_owner", "rj_info">>,
                                     <<"iv_member", "iv_lock">>}
    BY <1>3 DEF OpenOrNo
  <2>2. pc[t] \in Plain /\ l \in Plain
    BY <2>1 DEF Plain
  <2>3. Serves(l, loc[t].cmd)
    BY <1>1, <2>1 DEF ArgsFit, Serves, Adding
  <2>4. Does(t, l, loc[t])
    BY <2>1, SameLocals
  <2>5. QED BY <1>1, <2>2, <2>3, <2>4, PlainIsSound
<1>4. QED BY <1>2, <1>3

(* or leaves one request out of a list. *)
LEMMA LeavingOutIsSound ==
  ASSUME IInv, NEW t \in Thread, UNCHANGED <<disk, counters>>,
         pc[t] \in {"lr_count", "lr_fill"}, PendingBehind(t) # {},
         loc' = [loc EXCEPT ![t].at = Min(PendingBehind(t))], UNCHANGED <<pc, holder>>
  PROVE  Sound(t)
<1>1. /\ loc[t] \in CallRecord /\ loc \in [Thread -> CallRecord]
      /\ pc \in [Thread -> Labels] /\ requests \in Seq(JoinRequestRecordDB)
      /\ ArgsFit(pc[t], loc[t]) /\ RequestFit(requests, pc[t], loc[t])
  BY ThreadFacts DEF FilesTyped, IInv
<1>2. PICK k : k = Min(PendingBehind(t))
  OBVIOUS
<1>3. k \in Nat
  <2>1. PendingBehind(t) \in SUBSET Nat
    BY <1>1 DEF PendingBehind
  <2>2. QED BY <1>2, <2>1, MinNat
<1>4. /\ pc[t] = "lr_count" => loc[t].listed = {}
      /\ \A j \in loc[t].listed : j \in DOMAIN requests /\ requests[j].status = Pending
  BY <1>1 DEF ArgsFit, RequestFit
<1> DEFINE c == [loc[t] EXCEPT !.at = k]
<1>5. /\ c \in CallRecord /\ c.cmd = loc[t].cmd /\ c.user = loc[t].user
      /\ c.name = loc[t].name /\ c.gid = loc[t].gid /\ c.listed = loc[t].listed
  BY <1>1, <1>3 DEF CallRecord
<1>6. loc' = [loc EXCEPT ![t] = c]
  BY <1>1, <1>2
<1> HIDE DEF c
<1>7. Goto(t, pc[t])
  BY <1>1 DEF Goto
<1>8. Does(t, pc[t], c)
  BY <1>5, <1>6, <1>7, NewLocals
<1>9. QED BY <1>4, <1>5, <1>8, ListingGoesOn

LEMMA OpenFailsIsSound ==
  ASSUME IInv, NEW t \in Thread, OpenFails(t)
  PROVE  Sound(t)
<1>1. UNCHANGED <<disk, counters>>
  BY DEF OpenFails
<1>2. CASE \/ /\ pc[t] \in OpenOrReturn \cup {"to_scan"} \cup DOMAIN OpenAfterLock
              /\ Return(t) /\ UNCHANGED holder
           \/ OpenFailsInside(t)
  BY <1>1, <1>2, GivingUpIsSound
<1>3. CASE pc[t] \in {"am_owner", "am_append"} /\ AddFailed(t)
  <2>1. pc[t] \in Adding
    BY <1>3 DEF Adding
  <2>2. QED BY <1>1, <1>3, <2>1, AddFailedIsSound
<1>4. CASE pc[t] = "am_gread" /\ AddDone(t)
  <2>1. FileStep(t) /\ UNCHANGED <<members, requests, invites>>
    BY <1>1, FilesUntouched DEF disk
  <2>2. QED BY <1>4, <2>1, AddDoneIsSound
<1>5. CASE /\ pc[t] \in DOMAIN OpenOrNo
           /\ Goto(t, OpenOrNo[pc[t]]) /\ UNCHANGED <<loc, holder>>
  BY <1>1, <1>5, GoingOnIsSound
<1>6. CASE /\ pc[t] \in {"lr_count", "lr_fill"} /\ PendingBehind(t) # {}
           /\ loc' = [loc EXCEPT ![t].at = Min(PendingBehind(t))]
           /\ UNCHANGED <<pc, holder>>
  BY <1>1, <1>6, LeavingOutIsSound
<1>7. QED BY <1>2, <1>3, <1>4, <1>5, <1>6 DEF OpenFails

-----------------------------------------------------------------------------
(* The steps together. *)
LEMMA StepIsSound ==
  ASSUME IInv, NEW t \in Thread, Step(t)
  PROVE  Sound(t)
<1>1. CASE CG_Load(t) \/ CG_Store(t) \/ CG_Group(t) \/ CG_Member(t)
  BY <1>1, CreateIsSound
<1>2. CASE \/ AM_Owner(t) \/ AM_Member(t) \/ AM_Append(t)
           \/ AM_ReadGroup(t) \/ AM_WriteGroup(t)
  BY <1>2, AddIsSound
<1>3. CASE \/ RM_Owner(t) \/ RM_Target(t) \/ LV_Member(t) \/ LV_Info(t) \/ DG_Owner(t)
           \/ TO_Owner(t) \/ TO_Member(t)
           \/ RJ_Member(t) \/ RJ_Owner(t) \/ RJ_Info(t) \/ IV_Owner(t) \/ IV_Member(t)
           \/ LG_Members(t) \/ LM_Member(t) \/ LM_Count(t)
  BY <1>3, ChecksAreSound
<1>4. CASE LV_Owner(t)
  BY <1>4, OwnerBranchIsSound
<1>5. CASE LG_Groups(t) \/ LM_Fill(t)
  BY <1>5, UnlockedListingIsSound
<1>6. CASE RM_ReadGroup(t) \/ LV_ReadGroup(t) \/ DG_Read(t) \/ TO_ReadGroup(t)
  BY <1>6, GroupReadIsSound
<1>7. CASE RM_Read(t) \/ LV_Read(t) \/ DG_ReadMember(t) \/ TO_Scan(t)
  BY <1>7, MemberReadIsSound
<1>8. CASE \/ RM_Write(t) \/ RM_WriteGroup(t) \/ LV_Write(t) \/ LV_WriteGroup(t)
           \/ DG_Write(t) \/ TO_WriteGroup(t) \/ TO_WriteMember(t)
  BY <1>8, StoresAreSound
<1>9. CASE RJ_Lock(t) \/ RJ_Append(t)
  BY <1>9, JoinIsSound
<1>10. CASE DJ_Lock(t) \/ DJ_Info(t) \/ DJ_Write(t)
  BY <1>10, DecideRequestIsSound
<1>11. CASE IV_Lock(t) \/ IV_Append(t)
  BY <1>11, InviteIsSound
<1>12. CASE DI_Lock(t) \/ DI_Info(t) \/ DI_Write(t)
  BY <1>12, DecideInviteIsSound
<1>13. CASE LR_Lock(t) \/ LR_Count(t) \/ LR_Fill(t)
  BY <1>13, RequestListingIsSound
<1>14. CASE LN_Count(t) \/ LN_Fill(t)
  BY <1>14, InviteListingIsSound
<1>15. CASE DG_WriteMember(t) \/ DG_Next(t) \/ DG_Cut(t)
  BY <1>15, PassGoesOnIsSound, PassReadIsSound, CutIsSound
<1>16. QED
  BY <1>1, <1>2, <1>3, <1>4, <1>5, <1>6, <1>7, <1>8, <1>9, <1>10, <1>11, <1>12, <1>13,
     <1>14, <1>15 DEF Step

LEMMA NextIInv == IInv /\ [Next]_vars => IInv'
<1>1. SUFFICES ASSUME IInv, [Next]_vars PROVE IInv'
  OBVIOUS
<1>2. CASE Crash
  BY <1>1, <1>2, CrashIInv
<1>3. ASSUME NEW t \in Thread, Begin(t) \/ Step(t) \/ OpenFails(t)
      PROVE  IInv'
  <2>1. Sound(t)
    BY <1>1, <1>3, BeginIsSound, StepIsSound, OpenFailsIsSound
  <2>2. QED BY <1>1, <2>1, SoundKeepsIInv
<1>4. CASE UNCHANGED vars
  BY <1>1, <1>4 DEF vars, disk, counters, IInv, MutexesFit
<1>5. QED BY <1>1, <1>2, <1>3, <1>4 DEF Next

THEOREM Invariance == Spec => []IInv
<1>1. Init => IInv
  BY InitIInv
<1>2. IInv /\ [Next]_vars => IInv'
  BY NextIInv
<1>3. QED BY <1>1, <1>2, PTL DEF Spec

-----------------------------------------------------------------------------
(* The files hold whole records, and a mutex is with the thread that is    *)
(* between its lock and its unlock, on every path through the code.        *)
THEOREM TypeCorrect == Spec => []TypeOK
<1>1. ASSUME IInv PROVE TypeOK
  <2>1. /\ FilesTyped(groups, members, requests, invites)
        /\ next_group_id \in Nat \ {0}
        /\ RequestsNumbered(requests, next_join_request_id)
        /\ InvitesNumbered(invites, next_invite_id)
        /\ pc \in [Thread -> Labels] /\ MutexesFit
    BY <1>1 DEF IInv, FilesFit
  <2>2. {next_group_id, next_join_request_id, next_invite_id} \subseteq Nat \ {0}
    <3>1. /\ Len(requests) \in Nat /\ next_join_request_id = Len(requests) + 1
          /\ Len(invites) \in Nat /\ next_invite_id = Len(invites) + 1
      BY <2>1 DEF FilesTyped, RequestsNumbered, InvitesNumbered
    <3>2. QED BY <2>1, <3>1
  <2>3. \A t \in Thread : /\ InRequests(t) <=> InReq(pc[t], loc[t])
                          /\ InInvites(t) <=> InInv(pc[t], loc[t])
    BY DEF InRequests, DecidingRequest, InReq, InInvites, DecidingInvite, InInv, Deciding
  <2>4. QED BY <2>1, <2>2, <2>3 DEF TypeOK, MutexesFit, FilesTyped
<1>2. QED BY <1>1, Invariance, PTL

(* What a decision writes back is still what the file holds. *)
THEOREM NoStaleEntry == Spec => []EntryIsCurrent
<1>1. ASSUME IInv PROVE EntryIsCurrent
  BY <1>1, ThreadFacts DEF EntryIsCurrent, DecidingRequest, DecidingInvite, RequestFit,
     InviteFit, Deciding
<1>2. QED BY <1>1, Invariance, PTL

(* The listings under a mutex show what the files say when they end. *)
THEOREM NoStaleListing == Spec => []PendingListsAreCurrent
<1>1. ASSUME IInv PROVE PendingListsAreCurrent
  BY <1>1, ThreadFacts DEF PendingListsAreCurrent, RequestFit, InviteFit, InvitesOf,
     InvitesFor
<1>2. QED BY <1>1, Invariance, PTL

(* An approval is on disk only after the membership it is for. *)
THEOREM MemberBeforeApproval == Spec => []ApprovedHasMember
<1>1. IInv => ApprovedHasMember
  BY DEF IInv, FilesFit, ApprovedHasMember
<1>2. QED BY <1>1, Invariance, PTL

(* A membership is on disk only after the group it is of. *)
THEOREM GroupBeforeMember == Spec => []NoOrphanMember
<1>1. IInv => NoOrphanMember
  BY DEF IInv, FilesFit, NoOrphanMember
<1>2. QED BY <1>1, Invariance, PTL

LEMMA NextFilesKept ==
  ASSUME IInv, [Next]_vars
  PROVE  FilesKept(groups, members, requests, invites, groups', members', requests', invites')
<1>1. CASE Crash \/ UNCHANGED vars
  <2>1. UNCHANGED disk
    BY <1>1 DEF Crash, vars
  <2>2. QED BY <2>1 DEF disk, FilesKept, GroupsKept, MembersKept, SameMember,
                        RequestsKept, InvitesKept
<1>2. ASSUME NEW t \in Thread, Begin(t) \/ Step(t) \/ OpenFails(t)
      PROVE  FileStep(t)
  BY <1>2, BeginIsSound, StepIsSound, OpenFailsIsSound DEF Sound
<1>3. QED BY <1>1, <1>2 DEF Next, FileStep

(* Whatever two threads write back, no record becomes another's, and a     *)
(* member's name keeps the 44 characters that delete_group's pass leaves.  *)
THEOREM NoRecordReplaced == Spec => RecordsKeepIdentity
<1>1. ASSUME IInv, [Next]_vars
      PROVE  /\ \A i \in DOMAIN groups :
                  i \in DOMAIN groups' /\ groups'[i].group_id = groups[i].group_id
             /\ \A i \in DOMAIN members :
                  /\ i \in DOMAIN members'
                  /\ members'[i].group_id = members[i].group_id
                  /\ Prefix44[members'[i].username] = Prefix44[members[i].username]
             /\ \A i \in DOMAIN requests :
                  /\ i \in DOMAIN requests'
                  /\ requests'[i].request_id = requests[i].request_id
                  /\ requests'[i].requester = requests[i].requester
             /\ \A i \in DOMAIN invites :
                  /\ i \in DOMAIN invites'
                  /\ invites'[i].invite_id = invites[i].invite_id
                  /\ invites'[i].invitee = invites[i].invitee
  BY <1>1, NextFilesKept DEF FilesKept, GroupsKept, MembersKept, SameMember,
                              RequestsKept, InvitesKept
<1>2. QED BY <1>1, Invariance, PTL DEF Spec, RecordsKeepIdentity
=============================================================================
