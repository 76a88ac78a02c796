--------------------------- MODULE GroupFileLemmas --------------------------
(***************************************************************************)
(* What the scans of GroupRecords return, and how the updates of           *)
(* server/group_db.c change the record files, stated over file contents g  *)
(* and m (groups, members) or q (requests or invitations), for files of    *)
(* every length.                                                           *)
(*                                                                         *)
(* The safety invariants of GroupDB rest on one another: that an owner     *)
(* stays inside rests on nobody being a member twice, and that a deleted   *)
(* group is empty rests on its count being exact.  Consistent states them  *)
(* together, in terms of positions instead of scans; RequestsOK and        *)
(* InvitesOK do the same for a request file and the counter that numbers   *)
(* it.  What Consistent says of names is subject to none being long enough *)
(* to be cut by delete_group.                                              *)
(***************************************************************************)
EXTENDS GroupRecords, FileLemmas

-----------------------------------------------------------------------------
(* get_group_info returns an active record with the id, or none when there  *)
(* is none.                                                                *)
LEMMA ActiveGroupFound ==
  ASSUME NEW groups \in Seq(GroupRecordDB), NEW gid,
         NEW at, at = ActiveGroupAt(groups, gid)
  PROVE  \/ /\ at = 0
            /\ \A i \in DOMAIN groups : ~(groups[i].group_id = gid /\ groups[i].is_active)
         \/ /\ at \in DOMAIN groups
            /\ groups[at].group_id = gid /\ groups[at].is_active
<1> DEFINE I == {i \in 1..Len(groups) : groups[i].group_id = gid /\ groups[i].is_active}
<1>1. at = IF I # {} THEN Min(I) ELSE 0
  BY DEF ActiveGroupAt, SelectInSeq
<1>2. I \in SUBSET Nat /\ DOMAIN groups = 1..Len(groups)
  OBVIOUS
<1>3. CASE I = {}
  BY <1>1, <1>2, <1>3
<1>4. CASE I # {}
  <2>1. Min(I) \in I
    <3> HIDE DEF I
    <3> QED BY <1>2, <1>4, MinNat
  <2>2. QED BY <1>1, <1>2, <1>4, <2>1
<1>5. QED BY <1>3, <1>4

(* The scan for a user's active record in a group. *)
LEMMA ActiveMemberFound ==
  ASSUME NEW members \in Seq(MemberRecordDB), NEW gid, NEW u,
         NEW at, at = ActiveMemberAt(members, gid, u)
  PROVE  \/ /\ at = 0
            /\ \A i \in DOMAIN members :
                 ~(members[i].group_id = gid /\ members[i].username = u
                     /\ members[i].is_active)
         \/ /\ at \in DOMAIN members
            /\ members[at].group_id = gid /\ members[at].username = u
            /\ members[at].is_active
<1> DEFINE I == {i \in 1..Len(members) : members[i].group_id = gid
                     /\ members[i].username = u /\ members[i].is_active}
<1>1. at = IF I # {} THEN Min(I) ELSE 0
  BY DEF ActiveMemberAt, SelectInSeq
<1>2. I \in SUBSET Nat /\ DOMAIN members = 1..Len(members)
  OBVIOUS
<1>3. CASE I = {}
  BY <1>1, <1>2, <1>3
<1>4. CASE I # {}
  <2>1. Min(I) \in I
    <3> HIDE DEF I
    <3> QED BY <1>2, <1>4, MinNat
  <2>2. QED BY <1>1, <1>2, <1>4, <2>1
<1>5. QED BY <1>3, <1>4

(* delete_group's scan for a member record. *)
LEMMA FirstActiveMemberFound ==
  ASSUME NEW members \in Seq(MemberRecordDB), NEW gid,
         NEW at, at = FirstActiveMemberAt(members, gid)
  PROVE  \/ at = 0 /\ ActiveMembers(members, gid) = {}
         \/ at \in ActiveMembers(members, gid)
<1> DEFINE I == {i \in 1..Len(members) : members[i].group_id = gid
                                            /\ members[i].is_active}
<1>1. at = IF I # {} THEN Min(I) ELSE 0
  BY DEF FirstActiveMemberAt, SelectInSeq
<1>2. I \in SUBSET Nat /\ I = ActiveMembers(members, gid)
  BY DEF ActiveMembers
<1>3. I # {} => Min(I) \in I
  <2> HIDE DEF I
  <2> QED BY <1>2, MinNat
<1>4. QED BY <1>1, <1>2, <1>3

(* The scan for a join request by its id, and for an invitation. *)
LEMMA RequestFound ==
  ASSUME NEW requests \in Seq(JoinRequestRecordDB), NEW id,
         NEW at, at = RequestAt(requests, id)
  PROVE  at = 0 \/ (at \in DOMAIN requests /\ requests[at].request_id = id)
<1> DEFINE I == {i \in 1..Len(requests) : requests[i].request_id = id}
<1>1. at = IF I # {} THEN Min(I) ELSE 0
  BY DEF RequestAt, SelectInSeq
<1>2. I \in SUBSET Nat /\ DOMAIN requests = 1..Len(requests)
  OBVIOUS
<1>3. I # {} => Min(I) \in I
  <2> HIDE DEF I
  <2> QED BY <1>2, MinNat
<1>4. QED BY <1>1, <1>2, <1>3

LEMMA InviteFound ==
  ASSUME NEW invites \in Seq(GroupInviteRecordDB), NEW id,
         NEW at, at = InviteAt(invites, id)
  PROVE  at = 0 \/ (at \in DOMAIN invites /\ invites[at].invite_id = id)
<1> DEFINE I == {i \in 1..Len(invites) : invites[i].invite_id = id}
<1>1. at = IF I # {} THEN Min(I) ELSE 0
  BY DEF InviteAt, SelectInSeq
<1>2. I \in SUBSET Nat /\ DOMAIN invites = 1..Len(invites)
  OBVIOUS
<1>3. I # {} => Min(I) \in I
  <2> HIDE DEF I
  <2> QED BY <1>2, MinNat
<1>4. QED BY <1>1, <1>2, <1>3

(* After a restart the next id follows the last one, when the ids of the   *)
(* file are 1, 2, 3, ...                                                   *)
LEMMA NextIdFollows ==
  ASSUME NEW n \in Nat, NEW ids, ids = 1..n
  PROVE  NextIdAfter(ids) = n + 1
<1>1. n \in {0} \cup ids /\ \A y \in {0} \cup ids : n >= y /\ y \in Nat
  OBVIOUS
<1>2. Max({0} \cup ids) = n
  BY <1>1 DEF Max
<1>3. QED BY <1>2 DEF NextIdAfter

(* Also when ids repeat, the largest one is there to be counted from.      *)
LEMMA LargestExists ==
  ASSUME NEW n \in Nat, NEW id \in [1..n -> Nat], n # 0
  PROVE  \E k \in 1..n : \A j \in 1..n : id[j] <= id[k]
<1> DEFINE Up(k) == {j \in 1..n : id[k] <= id[j]}
           T == {Up(k) : k \in 1..n}
<1>1. T \subseteq FiniteSubsetsOf(1..n) /\ T # {}
  <2>1. IsFiniteSet(1..n) /\ 1 \in 1..n
    BY FS_Interval
  <2>2. \A k \in 1..n : Up(k) \subseteq 1..n /\ IsFiniteSet(Up(k))
    <3>1. SUFFICES ASSUME NEW S, S \subseteq 1..n PROVE IsFiniteSet(S)
      OBVIOUS
    <3>2. QED BY <2>1, <3>1, FS_Subset
  <2> HIDE DEF Up
  <2>3. QED BY <2>1, <2>2 DEF FiniteSubsetsOf
<1>2. PICK s \in T : \A r \in T : <<r, s>> \notin StrictSubsetOrdering(1..n)
  <2> HIDE DEF T
  <2>1. QED BY <1>1, FS_StrictSubsetOrderingWellFounded, WFMin
<1>3. PICK k \in 1..n : s = Up(k)
  OBVIOUS
<1>4. ASSUME NEW j \in 1..n, ~(id[j] <= id[k]) PROVE FALSE
  <2>1. id[j] \in Nat /\ id[k] \in Nat
    OBVIOUS
  <2>2. Up(j) \subseteq Up(k) /\ k \in Up(k) /\ k \notin Up(j) /\ Up(k) \subseteq 1..n
    BY <1>4, <2>1
  <2> HIDE DEF Up
  <2>3. <<Up(j), Up(k)>> \in StrictSubsetOrdering(1..n)
    BY <2>2 DEF StrictSubsetOrdering
  <2>4. QED BY <1>2, <1>3, <2>3
<1>5. QED BY <1>4

LEMMA NextIdType ==
  ASSUME NEW n \in Nat, NEW id \in [1..n -> Nat], NEW ids, ids = {id[k] : k \in 1..n}
  PROVE  NextIdAfter(ids) \in Nat \ {0}
<1>1. PICK x \in {0} \cup ids : \A y \in {0} \cup ids : x >= y
  <2>1. CASE n = 0
    BY <2>1
  <2>2. CASE n # 0
    <3>1. PICK k \in 1..n : \A j \in 1..n : id[j] <= id[k]
      BY <2>2, LargestExists
    <3>2. id[k] \in ids /\ \A y \in {0} \cup ids : id[k] >= y
      BY <3>1
    <3>3. QED BY <3>2
  <2>3. QED BY <2>1, <2>2
<1>2. PICK y : y = Max({0} \cup ids)
  OBVIOUS
<1>3. y \in {0} \cup ids
  BY <1>1, <1>2 DEF Max
<1>4. y \in Nat
  BY <1>3
<1>5. NextIdAfter(ids) = 1 + y
  BY <1>2 DEF NextIdAfter
<1>6. QED BY <1>4, <1>5

-----------------------------------------------------------------------------
(* The files of groups and members, as one invariant over their contents: *)
(* what holds of the records of a group whatever their names ...           *)
Counted(g, m) ==
  /\ g \in Seq(GroupRecordDB)
  /\ m \in Seq(MemberRecordDB)
  /\ \A i \in DOMAIN g : g[i].group_id = i
  /\ \A k \in DOMAIN m : m[k].group_id \in DOMAIN g
  /\ \A i \in DOMAIN g :
       g[i].is_active => g[i].member_count = Cardinality(ActiveMembers(m, i))
  /\ \A i \in DOMAIN g : ~g[i].is_active => ActiveMembers(m, i) = {}

(* ... and what holds of their names, when none is cut. *)
Named(g, m) ==
  /\ \A i \in DOMAIN g :
       g[i].is_active => \E k \in ActiveMembers(m, i) : m[k].username = g[i].owner
  /\ \A j, k \in DOMAIN m :
       /\ m[j].is_active /\ m[k].is_active
       /\ m[j].group_id = m[k].group_id /\ m[j].username = m[k].username
       => j = k
  /\ \A k \in DOMAIN m :
       m[k].is_active /\ m[k].is_admin =>
         /\ g[m[k].group_id].is_active
         /\ g[m[k].group_id].owner = m[k].username

Consistent(g, m) == Counted(g, m) /\ (ShortNames => Named(g, m))

Live(g, gid) == gid \in DOMAIN g /\ g[gid].is_active

(* With ids at their positions the scans become look-ups. *)
LEMMA GroupLookup ==
  ASSUME NEW g, NEW m, Consistent(g, m), NEW gid
  PROVE  ActiveGroupAt(g, gid) = IF Live(g, gid) THEN gid ELSE 0
<1> DEFINE at == ActiveGroupAt(g, gid)
<1>1. g \in Seq(GroupRecordDB) /\ \A i \in DOMAIN g : g[i].group_id = i
  BY DEF Consistent, Counted
<1>2. \/ /\ at = 0
         /\ \A i \in DOMAIN g : ~(g[i].group_id = gid /\ g[i].is_active)
      \/ /\ at \in DOMAIN g
         /\ g[at].group_id = gid /\ g[at].is_active
  <2> HIDE DEF at
  <2>1. at = ActiveGroupAt(g, gid)
    BY DEF at
  <2>2. QED BY <1>1, <2>1, ActiveGroupFound
<1> HIDE DEF at
<1>3. at = IF Live(g, gid) THEN gid ELSE 0
  BY <1>1, <1>2 DEF Live
<1>4. QED BY <1>3 DEF at

LEMMA OwnerLookup ==
  ASSUME NEW g, NEW m, Consistent(g, m), NEW gid, NEW u
  PROVE  IsGroupOwner(g, gid, u) <=> Live(g, gid) /\ g[gid].owner = u
<1>1. Live(g, gid) => gid # 0
  BY DEF Consistent, Counted, Live
<1>2. QED BY <1>1, GroupLookup DEF IsGroupOwner

LEMMA MemberLookup ==
  ASSUME NEW m \in Seq(MemberRecordDB), NEW gid, NEW u
  PROVE  IsMemberOfGroup(m, gid, u) <=>
           \E k \in ActiveMembers(m, gid) : m[k].username = u
<1>1. PICK at : at = ActiveMemberAt(m, gid, u)
  OBVIOUS
<1>2. 0 \notin DOMAIN m
  OBVIOUS
<1>3. QED
  BY <1>1, <1>2, ActiveMemberFound DEF IsMemberOfGroup, ActiveMembers

(* The members of a group are finitely many. *)
LEMMA ActiveMembersFinite ==
  ASSUME NEW m \in Seq(MemberRecordDB), NEW gid
  PROVE  /\ IsFiniteSet(ActiveMembers(m, gid))
         /\ Cardinality(ActiveMembers(m, gid)) \in Nat
<1>1. IsFiniteSet(1..Len(m))
  BY FS_Interval
<1>2. ActiveMembers(m, gid) \in SUBSET (1..Len(m))
  BY DEF ActiveMembers
<1>3. QED BY <1>1, <1>2, FS_Subset, FS_CardinalityType

-----------------------------------------------------------------------------
(* The updates of the two files, record by record. *)

CountChanged(g, gid, d, g2) ==
  /\ g2 \in Seq(GroupRecordDB)
  /\ DOMAIN g2 = DOMAIN g
  /\ \A i \in DOMAIN g : /\ g2[i].group_id = g[i].group_id
                         /\ g2[i].owner = g[i].owner
                         /\ g2[i].is_active = g[i].is_active
  /\ \A i \in DOMAIN g : i # gid => g2[i].member_count = g[i].member_count
  /\ g2[gid].member_count = g[gid].member_count + d

Appended(m, r, m2) ==
  /\ m2 \in Seq(MemberRecordDB)
  /\ DOMAIN m2 = DOMAIN m \cup {Len(m) + 1}
  /\ Len(m) + 1 \notin DOMAIN m
  /\ m2[Len(m) + 1] = r
  /\ \A k \in DOMAIN m : m2[k] = m[k]

Deactivated(m, at, m2) ==
  /\ m2 \in Seq(MemberRecordDB)
  /\ DOMAIN m2 = DOMAIN m
  /\ \A k \in DOMAIN m : /\ m2[k].group_id = m[k].group_id
                         /\ m2[k].username = m[k].username
                         /\ m2[k].is_admin = m[k].is_admin
  /\ \A k \in DOMAIN m : k # at => m2[k].is_active = m[k].is_active
  /\ ~m2[at].is_active

LEMMA CountUpdated ==
  ASSUME NEW g \in Seq(GroupRecordDB), NEW gid \in DOMAIN g, NEW d \in Int,
         NEW g2, g2 = [g EXCEPT ![gid].member_count = @ + d]
  PROVE  CountChanged(g, gid, d, g2)
<1>1. DOMAIN g2 = DOMAIN g
  OBVIOUS
<1>2. \A i \in DOMAIN g : i # gid => g2[i] = g[i]
  OBVIOUS
<1>3. g2[gid] = [g[gid] EXCEPT !.member_count = g[gid].member_count + d]
  OBVIOUS
<1>4. g[gid] \in GroupRecordDB /\ \A i \in DOMAIN g : g[i] \in GroupRecordDB
  OBVIOUS
<1>5. /\ g2[gid] \in GroupRecordDB
      /\ g2[gid].group_id = g[gid].group_id /\ g2[gid].owner = g[gid].owner
      /\ g2[gid].is_active = g[gid].is_active
      /\ g2[gid].member_count = g[gid].member_count + d
  <2> DEFINE c == g[gid].member_count + d
  <2>1. c \in Int
    BY <1>4 DEF GroupRecordDB
  <2>2. g2[gid] = [g[gid] EXCEPT !.member_count = c]
    BY <1>3
  <2> HIDE DEF c
  <2>3. g2[gid] \in GroupRecordDB /\ g2[gid].member_count = c
    BY <1>4, <2>1, <2>2 DEF GroupRecordDB
  <2>4. /\ g2[gid].group_id = g[gid].group_id /\ g2[gid].owner = g[gid].owner
        /\ g2[gid].is_active = g[gid].is_active
    BY <1>4, <2>2 DEF GroupRecordDB
  <2>5. QED BY <2>3, <2>4 DEF c
<1>6. \A i \in DOMAIN g : g2[i] \in GroupRecordDB
  BY <1>2, <1>4, <1>5
<1>7. g2 \in Seq(GroupRecordDB)
  <2>1. g2 = [i \in DOMAIN g2 |-> g2[i]]
    OBVIOUS
  <2>2. QED BY <1>1, <1>6, <2>1, UpdateInPlace
<1>8. QED BY <1>1, <1>2, <1>5, <1>7 DEF CountChanged

LEMMA MemberAppended ==
  ASSUME NEW m \in Seq(MemberRecordDB), NEW r \in MemberRecordDB,
         NEW m2, m2 = Append(m, r)
  PROVE  Appended(m, r, m2)
<1>1. m2 \in Seq(MemberRecordDB) /\ Len(m2) = Len(m) + 1 /\ Len(m) \in Nat
  OBVIOUS
<1>2. DOMAIN m2 = 1..(Len(m) + 1) /\ DOMAIN m = 1..Len(m)
  BY <1>1
<1>3. m2[Len(m) + 1] = r /\ \A k \in 1..Len(m) : m2[k] = m[k]
  OBVIOUS
<1>4. 1..(Len(m) + 1) = 1..Len(m) \cup {Len(m) + 1}
  BY <1>1
<1>5. QED BY <1>1, <1>2, <1>3, <1>4 DEF Appended

LEMMA MemberDeactivated ==
  ASSUME NEW m \in Seq(MemberRecordDB), NEW at \in DOMAIN m,
         NEW m2, m2 = Deactivate(m, at)
  PROVE  Deactivated(m, at, m2)
<1>1. m2 = [m EXCEPT ![at].is_active = FALSE]
  BY DEF Deactivate
<1>2. DOMAIN m2 = DOMAIN m
  BY <1>1
<1>3. \A k \in DOMAIN m : k # at => m2[k] = m[k]
  BY <1>1
<1>4. m2[at] = [m[at] EXCEPT !.is_active = FALSE]
  BY <1>1
<1>5. m[at] \in MemberRecordDB /\ \A k \in DOMAIN m : m[k] \in MemberRecordDB
  OBVIOUS
<1>6. /\ m2[at] \in MemberRecordDB
      /\ m2[at].group_id = m[at].group_id /\ m2[at].username = m[at].username
      /\ m2[at].is_admin = m[at].is_admin /\ m2[at].is_active = FALSE
  BY <1>4, <1>5 DEF MemberRecordDB
<1>7. \A k \in DOMAIN m : m2[k] \in MemberRecordDB
  BY <1>3, <1>5, <1>6
<1>8. m2 \in Seq(MemberRecordDB)
  <2>1. m2 = [k \in DOMAIN m2 |-> m2[k]]
    BY <1>1
  <2>2. QED BY <1>2, <1>7, <2>1, UpdateInPlace
<1>9. QED BY <1>2, <1>3, <1>6, <1>8 DEF Deactivated

-----------------------------------------------------------------------------
(* A new member keeps the files consistent. *)
LEMMA JoinKeepsConsistent ==
  ASSUME NEW g, NEW m, Consistent(g, m), NEW gid, Live(g, gid),
         NEW u, ~\E k \in ActiveMembers(m, gid) : m[k].username = u,
         NEW r, r.group_id = gid, r.username = u, r.is_active, ~r.is_admin,
         NEW g2, CountChanged(g, gid, 1, g2),
         NEW m2, Appended(m, r, m2)
  PROVE  Consistent(g2, m2)
<1> DEFINE n == Len(m) + 1
<1>1. /\ g \in Seq(GroupRecordDB) /\ m \in Seq(MemberRecordDB)
      /\ gid \in DOMAIN g /\ g[gid].is_active /\ gid \in Nat
  BY DEF Consistent, Counted, Live
<1>2. \A k \in ActiveMembers(m, gid) : m[k].username # u
  OBVIOUS
<1>3. /\ m2 \in Seq(MemberRecordDB) /\ DOMAIN m2 = DOMAIN m \cup {n}
      /\ n \notin DOMAIN m
      /\ m2[n].group_id = gid /\ m2[n].username = u
      /\ m2[n].is_active /\ ~m2[n].is_admin
      /\ \A k \in DOMAIN m : m2[k] = m[k]
  BY DEF Appended
<1>4. /\ g2 \in Seq(GroupRecordDB) /\ DOMAIN g2 = DOMAIN g
      /\ \A i \in DOMAIN g : /\ g2[i].group_id = g[i].group_id
                             /\ g2[i].owner = g[i].owner
                             /\ g2[i].is_active = g[i].is_active
      /\ \A i \in DOMAIN g : i # gid => g2[i].member_count = g[i].member_count
      /\ g2[gid].member_count = g[gid].member_count + 1
  BY DEF CountChanged
<1> HIDE DEF n
<1>5. ActiveMembers(m2, gid) = ActiveMembers(m, gid) \cup {n}
  BY <1>3 DEF ActiveMembers
<1>6. ASSUME NEW i, i # gid
      PROVE  ActiveMembers(m2, i) = ActiveMembers(m, i)
  BY <1>3, <1>6 DEF ActiveMembers
<1>7. n \notin ActiveMembers(m, gid)
  BY <1>3 DEF ActiveMembers
<1>8. \A i \in DOMAIN g2 : g2[i].group_id = i
  BY <1>4 DEF Consistent, Counted
<1>9. \A k \in DOMAIN m2 : m2[k].group_id \in DOMAIN g2
  <2>1. \A k \in DOMAIN m : m[k].group_id \in DOMAIN g
    BY DEF Consistent, Counted
  <2>2. m2[n].group_id \in DOMAIN g2
    BY <1>1, <1>3, <1>4
  <2>3. \A k \in DOMAIN m : m2[k].group_id \in DOMAIN g2
    BY <1>3, <1>4, <2>1
  <2>4. QED BY <1>3, <2>2, <2>3
<1>10. ASSUME NEW i \in DOMAIN g2, g2[i].is_active
       PROVE  g2[i].member_count = Cardinality(ActiveMembers(m2, i))
  <2>1. g[i].is_active /\ g[i].member_count = Cardinality(ActiveMembers(m, i))
    BY <1>4, <1>10 DEF Consistent, Counted
  <2>2. CASE i = gid
    <3>1. Cardinality(ActiveMembers(m2, gid)) = Cardinality(ActiveMembers(m, gid)) + 1
      BY <1>1, <1>5, <1>7, ActiveMembersFinite, FS_AddElement
    <3>2. QED BY <1>4, <2>1, <2>2, <3>1
  <2>3. CASE i # gid
    BY <1>4, <1>6, <2>1, <2>3
  <2>4. QED BY <2>2, <2>3
<1>11. ASSUME NEW i \in DOMAIN g2, ~g2[i].is_active
       PROVE  ActiveMembers(m2, i) = {}
  <2>1. ~g[i].is_active /\ i # gid /\ ActiveMembers(m, i) = {}
    BY <1>1, <1>4, <1>11 DEF Consistent, Counted
  <2>2. QED BY <1>6, <2>1
<1>12. ASSUME ShortNames, NEW i \in DOMAIN g2, g2[i].is_active
       PROVE  \E k \in ActiveMembers(m2, i) : m2[k].username = g2[i].owner
  <2>1. i \in DOMAIN g /\ g[i].is_active /\ g2[i].owner = g[i].owner
    BY <1>4, <1>12
  <2>2. PICK k \in ActiveMembers(m, i) : m[k].username = g[i].owner
    BY <1>12, <2>1 DEF Consistent, Named
  <2>3. k \in DOMAIN m /\ k \in ActiveMembers(m2, i)
    BY <1>3, <2>2 DEF ActiveMembers
  <2>4. QED BY <1>3, <2>1, <2>2, <2>3
<1>13. ASSUME ShortNames, NEW j \in DOMAIN m2, NEW k \in DOMAIN m2,
              m2[j].is_active, m2[k].is_active,
              m2[j].group_id = m2[k].group_id, m2[j].username = m2[k].username
       PROVE  j = k
  <2>1. CASE j \in DOMAIN m /\ k \in DOMAIN m
    BY <1>3, <1>13, <2>1 DEF Consistent, Named
  <2>2. ASSUME NEW i \in DOMAIN m, m2[i].is_active, m2[i].group_id = gid,
               m2[i].username = u
        PROVE  FALSE
    <3>1. i \in ActiveMembers(m, gid) /\ m[i].username = u
      BY <1>3, <2>2 DEF ActiveMembers
    <3>2. QED BY <1>2, <3>1
  <2>3. QED BY <1>3, <1>13, <2>1, <2>2
<1>14. ASSUME ShortNames, NEW k \in DOMAIN m2, m2[k].is_active, m2[k].is_admin
       PROVE  /\ g2[m2[k].group_id].is_active
              /\ g2[m2[k].group_id].owner = m2[k].username
  <2>1. k \in DOMAIN m /\ m2[k] = m[k]
    BY <1>3, <1>14
  <2>2. PICK i : i = m[k].group_id
    OBVIOUS
  <2>3. i \in DOMAIN g /\ g[i].is_active /\ g[i].owner = m[k].username
    BY <1>14, <2>1, <2>2 DEF Consistent, Counted, Named
  <2>4. g2[i].is_active /\ g2[i].owner = m[k].username
    BY <1>4, <2>3
  <2>5. QED BY <2>1, <2>2, <2>4
<1>15. Counted(g2, m2)
  BY <1>3, <1>4, <1>8, <1>9, <1>10, <1>11 DEF Counted
<1>16. ShortNames => Named(g2, m2)
  BY <1>3, <1>4, <1>12, <1>13, <1>14 DEF Named
<1>17. QED BY <1>15, <1>16 DEF Consistent

(* So does the departure of a member who is not the owner. *)
LEMMA DropKeepsConsistent ==
  ASSUME NEW g, NEW m, Consistent(g, m), NEW gid, Live(g, gid),
         NEW at \in ActiveMembers(m, gid), m[at].username # g[gid].owner,
         NEW g2, CountChanged(g, gid, -1, g2),
         NEW m2, Deactivated(m, at, m2)
  PROVE  Consistent(g2, m2)
<1>1. /\ g \in Seq(GroupRecordDB) /\ m \in Seq(MemberRecordDB)
      /\ gid \in DOMAIN g /\ g[gid].is_active /\ gid \in Nat
  BY DEF Consistent, Counted, Live
<1>2. /\ at \in DOMAIN m /\ m[at].group_id = gid /\ m[at].is_active
  BY DEF ActiveMembers
<1>3. /\ m2 \in Seq(MemberRecordDB) /\ DOMAIN m2 = DOMAIN m
      /\ \A k \in DOMAIN m : /\ m2[k].group_id = m[k].group_id
                             /\ m2[k].username = m[k].username
                             /\ m2[k].is_admin = m[k].is_admin
      /\ \A k \in DOMAIN m : k # at => m2[k].is_active = m[k].is_active
      /\ ~m2[at].is_active
  BY DEF Deactivated
<1>4. /\ g2 \in Seq(GroupRecordDB) /\ DOMAIN g2 = DOMAIN g
      /\ \A i \in DOMAIN g : /\ g2[i].group_id = g[i].group_id
                             /\ g2[i].owner = g[i].owner
                             /\ g2[i].is_active = g[i].is_active
      /\ \A i \in DOMAIN g : i # gid => g2[i].member_count = g[i].member_count
      /\ g2[gid].member_count = g[gid].member_count - 1
  <2>1. g[gid].member_count \in Int
    <3>1. g[gid] \in GroupRecordDB
      BY <1>1
    <3>2. QED BY <3>1 DEF GroupRecordDB
  <2>2. QED BY <2>1 DEF CountChanged
<1>5. ActiveMembers(m2, gid) = ActiveMembers(m, gid) \ {at}
  BY <1>2, <1>3 DEF ActiveMembers
<1>6. ASSUME NEW i, i # gid
      PROVE  ActiveMembers(m2, i) = ActiveMembers(m, i)
  BY <1>2, <1>3, <1>6 DEF ActiveMembers
<1>7. \A i \in DOMAIN g2 : g2[i].group_id = i
  BY <1>4 DEF Consistent, Counted
<1>8. \A k \in DOMAIN m2 : m2[k].group_id \in DOMAIN g2
  BY <1>3, <1>4 DEF Consistent, Counted
<1>9. ASSUME NEW i \in DOMAIN g2, g2[i].is_active
      PROVE  g2[i].member_count = Cardinality(ActiveMembers(m2, i))
  <2>1. g[i].is_active /\ g[i].member_count = Cardinality(ActiveMembers(m, i))
    BY <1>4, <1>9 DEF Consistent, Counted
  <2>2. CASE i = gid
    <3>1. Cardinality(ActiveMembers(m2, gid)) = Cardinality(ActiveMembers(m, gid)) - 1
      <4>1. at \in ActiveMembers(m, gid) /\ IsFiniteSet(ActiveMembers(m, gid))
        BY <1>1, ActiveMembersFinite
      <4>2. Cardinality(ActiveMembers(m, gid) \ {at})
              = Cardinality(ActiveMembers(m, gid)) - 1
        BY <4>1, FS_RemoveElement
      <4>3. QED BY <1>5, <4>2
    <3>2. QED BY <1>4, <2>1, <2>2, <3>1
  <2>3. CASE i # gid
    BY <1>4, <1>6, <2>1, <2>3
  <2>4. QED BY <2>2, <2>3
<1>10. ASSUME NEW i \in DOMAIN g2, ~g2[i].is_active
       PROVE  ActiveMembers(m2, i) = {}
  <2>1. ~g[i].is_active /\ i # gid /\ ActiveMembers(m, i) = {}
    BY <1>1, <1>4, <1>10 DEF Consistent, Counted
  <2>2. QED BY <1>6, <2>1
<1>11. ASSUME ShortNames, NEW i \in DOMAIN g2, g2[i].is_active
       PROVE  \E k \in ActiveMembers(m2, i) : m2[k].username = g2[i].owner
  <2>1. i \in DOMAIN g /\ g[i].is_active /\ g2[i].owner = g[i].owner
    BY <1>4, <1>11
  <2>2. PICK k \in ActiveMembers(m, i) : m[k].username = g[i].owner
    BY <1>11, <2>1 DEF Consistent, Named
  <2>3. k \in DOMAIN m
    BY <2>2 DEF ActiveMembers
  <2>4. k \in ActiveMembers(m2, i)
    BY <1>5, <1>6, <2>2
  <2>5. QED BY <1>3, <2>1, <2>2, <2>3, <2>4
<1>12. ASSUME ShortNames, NEW j \in DOMAIN m2, NEW k \in DOMAIN m2,
              m2[j].is_active, m2[k].is_active,
              m2[j].group_id = m2[k].group_id, m2[j].username = m2[k].username
       PROVE  j = k
  <2>1. j # at /\ k # at /\ j \in DOMAIN m /\ k \in DOMAIN m
    BY <1>3, <1>12
  <2>2. /\ m[j].is_active /\ m[k].is_active
        /\ m[j].group_id = m[k].group_id /\ m[j].username = m[k].username
    BY <1>3, <1>12, <2>1
  <2>3. QED BY <1>12, <2>1, <2>2 DEF Consistent, Named
<1>13. ASSUME ShortNames, NEW k \in DOMAIN m2, m2[k].is_active, m2[k].is_admin
       PROVE  /\ g2[m2[k].group_id].is_active
              /\ g2[m2[k].group_id].owner = m2[k].username
  <2>1. k \in DOMAIN m /\ m[k].is_active /\ m[k].is_admin
    BY <1>3, <1>13
  <2>2. PICK i : i = m[k].group_id
    OBVIOUS
  <2>3. i \in DOMAIN g /\ g[i].is_active /\ g[i].owner = m[k].username
    BY <1>13, <2>1, <2>2 DEF Consistent, Counted, Named
  <2>4. g2[i].is_active /\ g2[i].owner = m[k].username
    BY <1>4, <2>3
  <2>5. QED BY <1>3, <2>1, <2>2, <2>4
<1>14. Counted(g2, m2)
  BY <1>3, <1>4, <1>7, <1>8, <1>9, <1>10 DEF Counted
<1>15. ShortNames => Named(g2, m2)
  BY <1>3, <1>4, <1>11, <1>12, <1>13 DEF Named
<1>16. QED BY <1>14, <1>15 DEF Consistent

(* delete_group's pass: one record is deactivated, and a name may be cut.  *)
Ended(m, at, m2) ==
  /\ m2 \in Seq(MemberRecordDB)
  /\ DOMAIN m2 = DOMAIN m
  /\ \A k \in DOMAIN m :
       /\ m2[k].group_id = m[k].group_id
       /\ m2[k].is_admin = m[k].is_admin
       /\ Prefix44[m2[k].username] = Prefix44[m[k].username]
       /\ ShortNames => m2[k].username = m[k].username
  /\ \A k \in DOMAIN m : k # at => m2[k].is_active = m[k].is_active
  /\ ~m2[at].is_active

(* Where the misaligned pass reads once more: two records from the file,   *)
(* the second with a long name.                                            *)
LEMMA MisreadFound ==
  ASSUME NEW m \in Seq(MemberRecordDB), NEW gid, NEW from \in DOMAIN m,
         NEW j, j = MisreadAt(m, gid, from)
  PROVE  \/ j = 0
         \/ j \in DOMAIN m /\ j + 1 \in DOMAIN m /\ m[j + 1].username \in LongName
<1> DEFINE I == {i \in from..(Len(m) - 1) : /\ gid = 1 /\ m[i].is_admin
                                           /\ m[i + 1].username \in LongName}
<1>1. j = IF I = {} THEN 0 ELSE Min(I)
  BY DEF MisreadAt
<1>2. DOMAIN m = 1..Len(m) /\ Len(m) \in Nat /\ from \in Nat /\ from >= 1
  OBVIOUS
<1>3. I \in SUBSET Nat
  BY <1>2
<1>4. \A i \in I : i \in 1..Len(m) /\ i + 1 \in 1..Len(m) /\ m[i + 1].username \in LongName
  BY <1>2
<1>5. I # {} => Min(I) \in I
  <2> HIDE DEF I
  <2> QED BY <1>3, MinNat
<1> HIDE DEF I
<1>6. QED BY <1>1, <1>2, <1>4, <1>5

LEMMA MisreadRecord ==
  ASSUME NEW m \in Seq(MemberRecordDB), NEW j \in DOMAIN m, j + 1 \in DOMAIN m,
         NEW rec, rec = Misread(m, j)
  PROVE  /\ rec \in MemberRecordDB
         /\ rec.group_id = m[j + 1].group_id
         /\ rec.username = Prefix44[m[j + 1].username]
         /\ rec.is_admin = m[j].is_admin /\ rec.is_active = m[j].is_active
<1>1. PICK a, b : a = m[j] /\ b = m[j + 1]
  OBVIOUS
<1>2. a \in MemberRecordDB /\ b \in MemberRecordDB
  BY <1>1
<1>3. PICK p : p = Prefix44[b.username]
  OBVIOUS
<1>4. p \in Name
  BY <1>2, <1>3, PrefixAssumption DEF MemberRecordDB
<1>5. rec = [[a EXCEPT !.group_id = b.group_id] EXCEPT !.username = p]
  BY <1>1, <1>3 DEF Misread
<1>6. /\ rec \in MemberRecordDB
      /\ rec.group_id = b.group_id /\ rec.username = p
      /\ rec.is_admin = a.is_admin /\ rec.is_active = a.is_active
  BY <1>2, <1>4, <1>5 DEF MemberRecordDB
<1>7. QED BY <1>1, <1>3, <1>6

(* Writing it back touches two records, half of each. *)
HalvesStored(m, j, i, rec, m2) ==
  /\ m2 \in Seq(MemberRecordDB) /\ DOMAIN m2 = DOMAIN m
  /\ \A k \in DOMAIN m : k # j /\ k # i => m2[k] = m[k]
  /\ m2[j].group_id = m[j].group_id /\ m2[j].username = m[j].username
  /\ m2[j].is_admin = rec.is_admin /\ m2[j].is_active = rec.is_active
  /\ m2[i].group_id = rec.group_id /\ m2[i].username = rec.username
  /\ m2[i].is_admin = m[i].is_admin /\ m2[i].is_active = m[i].is_active

LEMMA MisreadStored ==
  ASSUME NEW m \in Seq(MemberRecordDB), NEW j \in DOMAIN m, NEW i \in DOMAIN m,
         i = j + 1, NEW rec \in MemberRecordDB,
         NEW m2, m2 = StoreMisread(m, j, rec)
  PROVE  HalvesStored(m, j, i, rec, m2)
<1>1. i # j
  OBVIOUS
<1>2. PICK a, b : /\ a = [m[j] EXCEPT !.is_admin = rec.is_admin,
                                      !.is_active = rec.is_active]
                  /\ b = [m[i] EXCEPT !.group_id = rec.group_id,
                                      !.username = rec.username]
  OBVIOUS
<1>3. m[j] \in MemberRecordDB /\ m[i] \in MemberRecordDB
  BY <1>1
<1>4. /\ a \in MemberRecordDB
      /\ a.group_id = m[j].group_id /\ a.username = m[j].username
      /\ a.is_admin = rec.is_admin /\ a.is_active = rec.is_active
  BY <1>2, <1>3 DEF MemberRecordDB
<1>5. /\ b \in MemberRecordDB
      /\ b.group_id = rec.group_id /\ b.username = rec.username
      /\ b.is_admin = m[i].is_admin /\ b.is_active = m[i].is_active
  BY <1>2, <1>3 DEF MemberRecordDB
<1>6. m2 = [[m EXCEPT ![j] = a] EXCEPT ![i] = b]
  BY <1>1, <1>2 DEF StoreMisread
<1>7. /\ DOMAIN m2 = DOMAIN m /\ m2 = [k \in DOMAIN m2 |-> m2[k]]
      /\ m2[j] = a /\ m2[i] = b
      /\ \A k \in DOMAIN m : k # j /\ k # i => m2[k] = m[k]
  BY <1>1, <1>6
<1>8. \A k \in DOMAIN m : m2[k] \in MemberRecordDB
  <2>1. \A k \in DOMAIN m : m[k] \in MemberRecordDB
    OBVIOUS
  <2>2. QED BY <1>4, <1>5, <1>7, <2>1
<1>9. m2 \in Seq(MemberRecordDB)
  BY <1>7, <1>8, UpdateInPlace
<1>10. QED BY <1>4, <1>5, <1>7, <1>9 DEF HalvesStored

LEMMA MembersEnded ==
  ASSUME NEW m \in Seq(MemberRecordDB), NEW gid,
         NEW at \in DOMAIN m, at = FirstActiveMemberAt(m, gid),
         NEW m2, m2 = EndMembers(m, gid)
  PROVE  Ended(m, at, m2)
<1>1. PICK d : d = Deactivate(m, at)
  OBVIOUS
<1>2. Deactivated(m, at, d)
  BY <1>1, MemberDeactivated
<1>3. /\ d \in Seq(MemberRecordDB) /\ DOMAIN d = DOMAIN m
      /\ \A k \in DOMAIN m : /\ d[k].group_id = m[k].group_id
                             /\ d[k].username = m[k].username
                             /\ d[k].is_admin = m[k].is_admin
      /\ \A k \in DOMAIN m : k # at => d[k].is_active = m[k].is_active
      /\ ~d[at].is_active
  BY <1>2 DEF Deactivated
<1>4. PICK j : j = MisreadAt(d, gid, at)
  OBVIOUS
<1>5. PICK rec : rec = Misread(d, j)
  OBVIOUS
<1>6. m2 = IF j = 0 THEN d ELSE StoreMisread(d, j, rec)
  BY <1>1, <1>4, <1>5 DEF EndMembers
<1>7. j = 0 \/ (j \in DOMAIN d /\ j + 1 \in DOMAIN d /\ d[j + 1].username \in LongName)
  BY <1>3, <1>4, MisreadFound
<1>8. CASE j = 0
  <2>1. m2 = d
    BY <1>6, <1>8
  <2>2. QED BY <1>3, <2>1 DEF Ended
<1>9. CASE j # 0
  <2>1. j \in DOMAIN d /\ j + 1 \in DOMAIN d /\ d[j + 1].username \in LongName
    BY <1>7, <1>9
  <2>2. /\ rec \in MemberRecordDB
        /\ rec.group_id = d[j + 1].group_id
        /\ rec.username = Prefix44[d[j + 1].username]
        /\ rec.is_admin = d[j].is_admin /\ rec.is_active = d[j].is_active
    BY <1>3, <1>5, <2>1, MisreadRecord
  <2>3. m2 = StoreMisread(d, j, rec)
    BY <1>6, <1>9
  <2>4. PICK i \in DOMAIN d : i = j + 1
    BY <2>1
  <2>5. HalvesStored(d, j, i, rec, m2)
    BY <1>3, <2>1, <2>2, <2>3, <2>4, MisreadStored
  <2>6. d[i].username \in Name /\ d[i].username \in LongName
    <3>1. d[i] \in MemberRecordDB
      BY <1>3
    <3>2. QED BY <2>1, <2>4, <3>1 DEF MemberRecordDB
  <2>7. Prefix44[m2[i].username] = Prefix44[d[i].username] /\ ~ShortNames
    BY <2>2, <2>4, <2>5, <2>6, PrefixAssumption DEF HalvesStored, ShortNames
  <2>8. \A k \in DOMAIN m : /\ m2[k].group_id = d[k].group_id
                            /\ m2[k].is_admin = d[k].is_admin
                            /\ m2[k].is_active = d[k].is_active
                            /\ Prefix44[m2[k].username] = Prefix44[d[k].username]
    BY <1>3, <2>2, <2>4, <2>5, <2>7 DEF HalvesStored
  <2>9. ~m2[at].is_active
    <3>1. m2[at].is_active = d[at].is_active
      BY <2>8
    <3>2. QED BY <1>3, <3>1
  <2>10. \A k \in DOMAIN m : k # at => m2[k].is_active = m[k].is_active
    BY <1>3, <2>8
  <2>11. \A k \in DOMAIN m :
           /\ m2[k].group_id = m[k].group_id
           /\ m2[k].is_admin = m[k].is_admin
           /\ Prefix44[m2[k].username] = Prefix44[m[k].username]
    BY <1>3, <2>8
  <2>12. m2 \in Seq(MemberRecordDB) /\ DOMAIN m2 = DOMAIN m
    BY <1>3, <2>5 DEF HalvesStored
  <2>13. QED BY <2>7, <2>9, <2>10, <2>11, <2>12 DEF Ended
<1>10. QED BY <1>8, <1>9

(* The owner who leaves is alone, so that the one member record that       *)
(* delete_group deactivates is the last of the group.                      *)
GroupClosed(g, gid, g2) ==
  /\ g2 \in Seq(GroupRecordDB)
  /\ DOMAIN g2 = DOMAIN g
  /\ \A i \in DOMAIN g : g2[i].group_id = g[i].group_id
  /\ \A i \in DOMAIN g : i # gid => g2[i] = g[i]
  /\ ~g2[gid].is_active

LEMMA GroupDeactivated ==
  ASSUME NEW g \in Seq(GroupRecordDB), NEW gid \in DOMAIN g,
         NEW g2, g2 = [g EXCEPT ![gid].is_active = FALSE]
  PROVE  GroupClosed(g, gid, g2)
<1>1. DOMAIN g2 = DOMAIN g
  OBVIOUS
<1>2. \A i \in DOMAIN g : i # gid => g2[i] = g[i]
  OBVIOUS
<1>3. g2[gid] = [g[gid] EXCEPT !.is_active = FALSE]
  OBVIOUS
<1>4. g[gid] \in GroupRecordDB /\ \A i \in DOMAIN g : g[i] \in GroupRecordDB
  OBVIOUS
<1>5. /\ g2[gid] \in GroupRecordDB
      /\ g2[gid].group_id = g[gid].group_id /\ g2[gid].is_active = FALSE
  BY <1>3, <1>4 DEF GroupRecordDB
<1>6. \A i \in DOMAIN g : g2[i] \in GroupRecordDB
  BY <1>2, <1>4, <1>5
<1>7. g2 \in Seq(GroupRecordDB)
  <2>1. g2 = [i \in DOMAIN g2 |-> g2[i]]
    OBVIOUS
  <2>2. QED BY <1>1, <1>6, <2>1, UpdateInPlace
<1>8. QED BY <1>1, <1>2, <1>5, <1>7 DEF GroupClosed

LEMMA LastMember ==
  ASSUME NEW g, NEW m, Consistent(g, m), NEW gid, Live(g, gid),
         IsMemberOfGroup(m, gid, g[gid].owner), g[gid].member_count <= 1
  PROVE  \E k \in DOMAIN m : /\ ActiveMembers(m, gid) = {k}
                             /\ m[k].username = g[gid].owner
<1>1. PICK k \in ActiveMembers(m, gid) : m[k].username = g[gid].owner
  BY MemberLookup DEF Consistent, Counted
<1>2. /\ m \in Seq(MemberRecordDB)
      /\ g[gid].member_count = Cardinality(ActiveMembers(m, gid))
  BY DEF Consistent, Counted, Live
<1>3. /\ IsFiniteSet(ActiveMembers(m, gid))
      /\ Cardinality(ActiveMembers(m, gid)) \in Nat
  BY <1>2, ActiveMembersFinite
<1>4. /\ IsFiniteSet(ActiveMembers(m, gid) \ {k})
      /\ Cardinality(ActiveMembers(m, gid) \ {k})
           = Cardinality(ActiveMembers(m, gid)) - 1
  BY <1>1, <1>3, FS_RemoveElement
<1>5. Cardinality(ActiveMembers(m, gid) \ {k}) \in Nat
  BY <1>4, FS_CardinalityType
<1>6. Cardinality(ActiveMembers(m, gid) \ {k}) = 0
  BY <1>2, <1>3, <1>4, <1>5
<1>7. ActiveMembers(m, gid) \ {k} = {}
  BY <1>4, <1>6, FS_EmptySet
<1>8. k \in DOMAIN m
  BY <1>1 DEF ActiveMembers
<1>9. QED BY <1>1, <1>7, <1>8

LEMMA DeleteKeepsConsistent ==
  ASSUME NEW g, NEW m, Consistent(g, m), NEW gid, Live(g, gid),
         NEW at, ActiveMembers(m, gid) = {at},
         NEW g2, GroupClosed(g, gid, g2),
         NEW m2, Ended(m, at, m2)
  PROVE  Consistent(g2, m2)
<1>1. /\ g \in Seq(GroupRecordDB) /\ m \in Seq(MemberRecordDB)
      /\ gid \in DOMAIN g /\ g[gid].is_active /\ gid \in Nat
  BY DEF Consistent, Counted, Live
<1>2. /\ at \in DOMAIN m /\ m[at].group_id = gid /\ m[at].is_active
  BY DEF ActiveMembers
<1>3. /\ m2 \in Seq(MemberRecordDB) /\ DOMAIN m2 = DOMAIN m
      /\ \A k \in DOMAIN m : /\ m2[k].group_id = m[k].group_id
                             /\ m2[k].is_admin = m[k].is_admin
                             /\ ShortNames => m2[k].username = m[k].username
      /\ \A k \in DOMAIN m : k # at => m2[k].is_active = m[k].is_active
      /\ ~m2[at].is_active
  BY DEF Ended
<1>4. /\ g2 \in Seq(GroupRecordDB) /\ DOMAIN g2 = DOMAIN g
      /\ \A i \in DOMAIN g : g2[i].group_id = g[i].group_id
      /\ \A i \in DOMAIN g : i # gid => g2[i] = g[i]
      /\ ~g2[gid].is_active
  BY DEF GroupClosed
<1>5. ActiveMembers(m2, gid) = ActiveMembers(m, gid) \ {at}
  BY <1>2, <1>3 DEF ActiveMembers
<1>6. ASSUME NEW i, i # gid
      PROVE  ActiveMembers(m2, i) = ActiveMembers(m, i)
  BY <1>2, <1>3, <1>6 DEF ActiveMembers
<1>7. \A i \in DOMAIN g2 : g2[i].group_id = i
  BY <1>4 DEF Consistent, Counted
<1>8. \A k \in DOMAIN m2 : m2[k].group_id \in DOMAIN g2
  BY <1>3, <1>4 DEF Consistent, Counted
<1>9. ASSUME NEW i \in DOMAIN g2, g2[i].is_active
      PROVE  g2[i].member_count = Cardinality(ActiveMembers(m2, i))
  <2>1. i # gid /\ i \in DOMAIN g /\ g2[i] = g[i]
    BY <1>4, <1>9
  <2>2. g[i].member_count = Cardinality(ActiveMembers(m, i))
    BY <1>9, <2>1 DEF Consistent, Counted
  <2>3. QED BY <1>6, <2>1, <2>2
<1>10. ASSUME NEW i \in DOMAIN g2, ~g2[i].is_active
       PROVE  ActiveMembers(m2, i) = {}
  <2>1. CASE i = gid
    BY <1>5, <2>1
  <2>2. CASE i # gid
    <3>1. g2[i] = g[i] /\ i \in DOMAIN g
      BY <1>4, <2>2
    <3>2. ActiveMembers(m, i) = {}
      BY <1>10, <3>1 DEF Consistent, Counted
    <3>3. QED BY <1>6, <2>2, <3>2
  <2>3. QED BY <2>1, <2>2
<1>11. ASSUME ShortNames, NEW i \in DOMAIN g2, g2[i].is_active
       PROVE  \E k \in ActiveMembers(m2, i) : m2[k].username = g2[i].owner
  <2>1. i # gid /\ i \in DOMAIN g /\ g2[i] = g[i]
    BY <1>4, <1>11
  <2>2. PICK k \in ActiveMembers(m, i) : m[k].username = g[i].owner
    BY <1>11, <2>1 DEF Consistent, Named
  <2>3. k \in DOMAIN m
    BY <2>2 DEF ActiveMembers
  <2>4. k \in ActiveMembers(m2, i)
    BY <1>6, <2>1, <2>2
  <2>5. QED BY <1>3, <1>11, <2>1, <2>2, <2>3, <2>4
<1>12. ASSUME ShortNames, NEW j \in DOMAIN m2, NEW k \in DOMAIN m2,
              m2[j].is_active, m2[k].is_active,
              m2[j].group_id = m2[k].group_id, m2[j].username = m2[k].username
       PROVE  j = k
  <2>1. j # at /\ k # at /\ j \in DOMAIN m /\ k \in DOMAIN m
    BY <1>3, <1>12
  <2>2. /\ m[j].is_active /\ m[k].is_active
        /\ m[j].group_id = m[k].group_id /\ m[j].username = m[k].username
    BY <1>3, <1>12, <2>1
  <2>3. QED BY <1>12, <2>1, <2>2 DEF Consistent, Named
<1>13. ASSUME ShortNames, NEW k \in DOMAIN m2, m2[k].is_active, m2[k].is_admin
       PROVE  /\ g2[m2[k].group_id].is_active
              /\ g2[m2[k].group_id].owner = m2[k].username
  <2>1. k # at /\ k \in DOMAIN m /\ m[k].is_active /\ m[k].is_admin
    BY <1>3, <1>13
  <2>2. PICK i : i = m[k].group_id
    OBVIOUS
  <2>3. i \in DOMAIN g /\ g[i].is_active /\ g[i].owner = m[k].username
    BY <1>13, <2>1, <2>2 DEF Consistent, Counted, Named
  <2>4. i # gid
    BY <2>1, <2>2 DEF ActiveMembers
  <2>5. g2[i] = g[i]
    BY <1>4, <2>3, <2>4
  <2>6. m2[k].group_id = i /\ m2[k].username = m[k].username
    BY <1>3, <1>13, <2>1, <2>2
  <2>7. QED BY <2>3, <2>5, <2>6
<1>14. Counted(g2, m2)
  BY <1>3, <1>4, <1>7, <1>8, <1>9, <1>10 DEF Counted
<1>15. ShortNames => Named(g2, m2)
  BY <1>3, <1>4, <1>11, <1>12, <1>13 DEF Named
<1>16. QED BY <1>14, <1>15 DEF Consistent

-----------------------------------------------------------------------------
(* A transfer: the new owner is a member, the roles follow. *)
OwnerChanged(g, gid, u, g2) ==
  /\ g2 \in Seq(GroupRecordDB)
  /\ DOMAIN g2 = DOMAIN g
  /\ \A i \in DOMAIN g : /\ g2[i].group_id = g[i].group_id
                         /\ g2[i].is_active = g[i].is_active
                         /\ g2[i].member_count = g[i].member_count
  /\ \A i \in DOMAIN g : i # gid => g2[i].owner = g[i].owner
  /\ g2[gid].owner = u

LEMMA OwnerUpdated ==
  ASSUME NEW g \in Seq(GroupRecordDB), NEW gid \in DOMAIN g, NEW u \in Name,
         NEW g2, g2 = [g EXCEPT ![gid].owner = u]
  PROVE  OwnerChanged(g, gid, u, g2)
<1>1. DOMAIN g2 = DOMAIN g
  OBVIOUS
<1>2. \A i \in DOMAIN g : i # gid => g2[i] = g[i]
  OBVIOUS
<1>3. g2[gid] = [g[gid] EXCEPT !.owner = u]
  OBVIOUS
<1>4. g[gid] \in GroupRecordDB /\ \A i \in DOMAIN g : g[i] \in GroupRecordDB
  OBVIOUS
<1>5. /\ g2[gid] \in GroupRecordDB
      /\ g2[gid].group_id = g[gid].group_id
      /\ g2[gid].is_active = g[gid].is_active
      /\ g2[gid].member_count = g[gid].member_count
      /\ g2[gid].owner = u
  BY <1>3, <1>4 DEF GroupRecordDB
<1>6. \A i \in DOMAIN g : g2[i] \in GroupRecordDB
  BY <1>2, <1>4, <1>5
<1>7. g2 \in Seq(GroupRecordDB)
  <2>1. g2 = [i \in DOMAIN g2 |-> g2[i]]
    OBVIOUS
  <2>2. QED BY <1>1, <1>6, <2>1, UpdateInPlace
<1>8. QED BY <1>1, <1>2, <1>5, <1>7 DEF OwnerChanged

(* Only the admin flags of the group's active members change. *)
RolesChanged(m, gid, u, new_owner, m2) ==
  /\ m2 \in Seq(MemberRecordDB)
  /\ DOMAIN m2 = DOMAIN m
  /\ \A k \in DOMAIN m : /\ m2[k].group_id = m[k].group_id
                         /\ m2[k].username = m[k].username
                         /\ m2[k].is_active = m[k].is_active
  /\ \A k \in DOMAIN m : k \notin ActiveMembers(m, gid) => m2[k] = m[k]
  /\ \A k \in ActiveMembers(m, gid) :
       m2[k].is_admin => /\ m[k].username # u
                         /\ m[k].username = new_owner \/ m[k].is_admin

LEMMA RolesUpdated ==
  ASSUME NEW m \in Seq(MemberRecordDB), NEW gid, NEW u, NEW new_owner,
         NEW m2,
         m2 = [k \in DOMAIN m |-> RoleAfterTransfer(m[k], gid, u, new_owner)]
  PROVE  RolesChanged(m, gid, u, new_owner, m2)
<1>1. DOMAIN m2 = DOMAIN m
  OBVIOUS
<1>2. \A k \in DOMAIN m : m[k] \in MemberRecordDB
  OBVIOUS
<1>3. ASSUME NEW k \in DOMAIN m
      PROVE  /\ m2[k] \in MemberRecordDB
             /\ m2[k].group_id = m[k].group_id
             /\ m2[k].username = m[k].username
             /\ m2[k].is_active = m[k].is_active
             /\ k \notin ActiveMembers(m, gid) => m2[k] = m[k]
             /\ k \in ActiveMembers(m, gid) =>
                  (m2[k].is_admin => /\ m[k].username # u
                                     /\ m[k].username = new_owner \/ m[k].is_admin)
  <2>1. m2[k] = RoleAfterTransfer(m[k], gid, u, new_owner)
    OBVIOUS
  <2>2. k \in ActiveMembers(m, gid) <=> m[k].group_id = gid /\ m[k].is_active
    BY DEF ActiveMembers
  <2>3. CASE k \notin ActiveMembers(m, gid)
    <3>1. m2[k] = m[k]
      BY <2>1, <2>2, <2>3 DEF RoleAfterTransfer
    <3>2. QED BY <1>2, <2>3, <3>1
  <2>4. CASE k \in ActiveMembers(m, gid)
    <3> DEFINE b == m[k].username # u /\ (m[k].username = new_owner \/ m[k].is_admin)
    <3>1. m2[k] = [m[k] EXCEPT !.is_admin = b]
      BY <2>1, <2>2, <2>4 DEF RoleAfterTransfer
    <3>2. b \in BOOLEAN
      OBVIOUS
    <3> HIDE DEF b
    <3>3. /\ m2[k] \in MemberRecordDB
          /\ m2[k].group_id = m[k].group_id
          /\ m2[k].username = m[k].username
          /\ m2[k].is_active = m[k].is_active
          /\ m2[k].is_admin = b
      BY <1>2, <3>1, <3>2 DEF MemberRecordDB
    <3>4. m2[k].is_admin => b
      BY <3>3
    <3>5. QED BY <2>4, <3>3, <3>4 DEF b
  <2>5. QED BY <2>3, <2>4
<1>4. m2 \in Seq(MemberRecordDB)
  <2>1. m2 = [k \in DOMAIN m2 |-> m2[k]]
    OBVIOUS
  <2>2. QED BY <1>1, <1>3, <2>1, UpdateInPlace
<1>5. \A k \in ActiveMembers(m, gid) : k \in DOMAIN m
  BY DEF ActiveMembers
<1>6. QED BY <1>1, <1>3, <1>4, <1>5 DEF RolesChanged

LEMMA TransferKeepsConsistent ==
  ASSUME NEW g, NEW m, Consistent(g, m), NEW gid, Live(g, gid),
         NEW new_owner, \E k \in ActiveMembers(m, gid) : m[k].username = new_owner,
         NEW g2, OwnerChanged(g, gid, new_owner, g2),
         NEW m2, RolesChanged(m, gid, g[gid].owner, new_owner, m2)
  PROVE  Consistent(g2, m2)
<1>1. /\ g \in Seq(GroupRecordDB) /\ m \in Seq(MemberRecordDB)
      /\ gid \in DOMAIN g /\ g[gid].is_active
  BY DEF Consistent, Counted, Live
<1>2. /\ g2 \in Seq(GroupRecordDB) /\ DOMAIN g2 = DOMAIN g
      /\ \A i \in DOMAIN g : /\ g2[i].group_id = g[i].group_id
                             /\ g2[i].is_active = g[i].is_active
                             /\ g2[i].member_count = g[i].member_count
      /\ \A i \in DOMAIN g : i # gid => g2[i].owner = g[i].owner
      /\ g2[gid].owner = new_owner
  BY DEF OwnerChanged
<1>3. /\ m2 \in Seq(MemberRecordDB) /\ DOMAIN m2 = DOMAIN m
      /\ \A k \in DOMAIN m : /\ m2[k].group_id = m[k].group_id
                             /\ m2[k].username = m[k].username
                             /\ m2[k].is_active = m[k].is_active
      /\ \A k \in DOMAIN m : k \notin ActiveMembers(m, gid) => m2[k] = m[k]
      /\ \A k \in ActiveMembers(m, gid) :
           m2[k].is_admin => /\ m[k].username # g[gid].owner
                             /\ m[k].username = new_owner \/ m[k].is_admin
  BY DEF RolesChanged
<1>4. ASSUME NEW i
      PROVE  ActiveMembers(m2, i) = ActiveMembers(m, i)
  BY <1>3 DEF ActiveMembers
<1>5. \A i \in DOMAIN g2 : g2[i].group_id = i
  BY <1>2 DEF Consistent, Counted
<1>6. \A k \in DOMAIN m2 : m2[k].group_id \in DOMAIN g2
  BY <1>2, <1>3 DEF Consistent, Counted
<1>7. \A i \in DOMAIN g2 :
        g2[i].is_active => g2[i].member_count = Cardinality(ActiveMembers(m2, i))
  BY <1>2, <1>4 DEF Consistent, Counted
<1>8. \A i \in DOMAIN g2 : ~g2[i].is_active => ActiveMembers(m2, i) = {}
  BY <1>2, <1>4 DEF Consistent, Counted
<1>9. ASSUME ShortNames, NEW i \in DOMAIN g2, g2[i].is_active
      PROVE  \E k \in ActiveMembers(m2, i) : m2[k].username = g2[i].owner
  <2>1. i \in DOMAIN g /\ g[i].is_active
    BY <1>2, <1>9
  <2>2. PICK k \in ActiveMembers(m, i) : m[k].username = g2[i].owner
    <3>1. CASE i = gid
      BY <1>2, <3>1
    <3>2. CASE i # gid
      <4>1. \E k \in ActiveMembers(m, i) : m[k].username = g[i].owner
        BY <1>9, <2>1 DEF Consistent, Named
      <4>2. QED BY <1>2, <2>1, <3>2, <4>1
    <3>3. QED BY <3>1, <3>2
  <2>3. k \in DOMAIN m
    BY <2>2 DEF ActiveMembers
  <2>4. QED BY <1>3, <1>4, <2>2, <2>3
<1>10. ASSUME ShortNames, NEW j \in DOMAIN m2, NEW k \in DOMAIN m2,
              m2[j].is_active, m2[k].is_active,
              m2[j].group_id = m2[k].group_id, m2[j].username = m2[k].username
       PROVE  j = k
  <2>1. /\ j \in DOMAIN m /\ k \in DOMAIN m
        /\ m[j].is_active /\ m[k].is_active
        /\ m[j].group_id = m[k].group_id /\ m[j].username = m[k].username
    BY <1>3, <1>10
  <2>2. QED BY <1>10, <2>1 DEF Consistent, Named
<1>11. ASSUME ShortNames, NEW k \in DOMAIN m2, m2[k].is_active, m2[k].is_admin
       PROVE  /\ g2[m2[k].group_id].is_active
              /\ g2[m2[k].group_id].owner = m2[k].username
  <2>1. k \in DOMAIN m /\ m[k].is_active
    BY <1>3, <1>11
  <2>2. PICK i : i = m[k].group_id
    OBVIOUS
  <2>3. m2[k].group_id = i /\ m2[k].username = m[k].username
    BY <1>3, <2>1, <2>2
  <2>4. m[k].is_admin => i \in DOMAIN g /\ g[i].is_active /\ g[i].owner = m[k].username
    BY <1>11, <2>1, <2>2 DEF Consistent, Counted, Named
  <2>5. CASE i = gid
    <3>1. k \in ActiveMembers(m, gid)
      BY <2>1, <2>2, <2>5 DEF ActiveMembers
    <3>2. m[k].username = new_owner
      BY <1>3, <1>11, <2>4, <2>5, <3>1
    <3>3. g2[gid].is_active /\ g2[gid].owner = new_owner
      BY <1>1, <1>2
    <3>4. QED BY <2>3, <2>5, <3>2, <3>3
  <2>6. CASE i # gid
    <3>1. k \notin ActiveMembers(m, gid)
      BY <2>2, <2>6 DEF ActiveMembers
    <3>2. m[k].is_admin
      BY <1>3, <1>11, <2>1, <3>1
    <3>3. g2[i].is_active /\ g2[i].owner = g[i].owner
      BY <1>2, <2>4, <2>6, <3>2
    <3>4. QED BY <2>3, <2>4, <3>2, <3>3
  <2>7. QED BY <2>5, <2>6
<1>12. Counted(g2, m2)
  BY <1>2, <1>3, <1>5, <1>6, <1>7, <1>8 DEF Counted
<1>13. ShortNames => Named(g2, m2)
  BY <1>2, <1>3, <1>9, <1>10, <1>11 DEF Named
<1>14. QED BY <1>12, <1>13 DEF Consistent

-----------------------------------------------------------------------------
(* A new group, with its owner as the only member. *)
GroupAppended(g, gid, u, g2) ==
  /\ g2 \in Seq(GroupRecordDB)
  /\ DOMAIN g2 = DOMAIN g \cup {gid}
  /\ gid \notin DOMAIN g
  /\ \A i \in DOMAIN g : g2[i] = g[i]
  /\ g2[gid].group_id = gid /\ g2[gid].owner = u
  /\ g2[gid].is_active /\ g2[gid].member_count = 1

LEMMA NewGroupAppended ==
  ASSUME NEW g \in Seq(GroupRecordDB), NEW u \in Name,
         NEW gid, gid = Len(g) + 1,
         NEW g2, g2 = Append(g, NewGroup(gid, u))
  PROVE  GroupAppended(g, gid, u, g2)
<1> DEFINE r == NewGroup(gid, u)
<1>1. Len(g) \in Nat /\ gid \in Nat /\ 1 \in Int /\ TRUE \in BOOLEAN
  OBVIOUS
<1>2. /\ r \in GroupRecordDB /\ r.group_id = gid /\ r.owner = u
      /\ r.is_active /\ r.member_count = 1
  BY <1>1 DEF NewGroup, GroupRecordDB
<1>3. g2 = Append(g, r)
  OBVIOUS
<1> HIDE DEF r
<1>4. g2 \in Seq(GroupRecordDB) /\ Len(g2) = Len(g) + 1
  BY <1>2, <1>3
<1>5. g2[Len(g) + 1] = r /\ \A i \in 1..Len(g) : g2[i] = g[i]
  BY <1>2, <1>3
<1>6. DOMAIN g2 = 1..(Len(g) + 1) /\ DOMAIN g = 1..Len(g)
  BY <1>4
<1>7. 1..(Len(g) + 1) = 1..Len(g) \cup {gid} /\ gid \notin 1..Len(g)
  BY <1>1
<1>8. QED BY <1>2, <1>4, <1>5, <1>6, <1>7 DEF GroupAppended

LEMMA CreateKeepsConsistent ==
  ASSUME NEW g, NEW m, Consistent(g, m), NEW gid, NEW u,
         NEW r, r.group_id = gid, r.username = u, r.is_active,
         NEW g2, GroupAppended(g, gid, u, g2),
         NEW m2, Appended(m, r, m2)
  PROVE  Consistent(g2, m2)
<1> DEFINE n == Len(m) + 1
<1>1. /\ g \in Seq(GroupRecordDB) /\ m \in Seq(MemberRecordDB)
      /\ \A k \in DOMAIN m : m[k].group_id \in DOMAIN g
  BY DEF Consistent, Counted
<1>2. /\ m2 \in Seq(MemberRecordDB) /\ DOMAIN m2 = DOMAIN m \cup {n}
      /\ n \notin DOMAIN m
      /\ m2[n].group_id = gid /\ m2[n].username = u /\ m2[n].is_active
      /\ \A k \in DOMAIN m : m2[k] = m[k]
  BY DEF Appended
<1>3. /\ g2 \in Seq(GroupRecordDB) /\ DOMAIN g2 = DOMAIN g \cup {gid}
      /\ gid \notin DOMAIN g
      /\ \A i \in DOMAIN g : g2[i] = g[i]
      /\ g2[gid].group_id = gid /\ g2[gid].owner = u
      /\ g2[gid].is_active /\ g2[gid].member_count = 1
  BY DEF GroupAppended
<1> HIDE DEF n
<1>4. ActiveMembers(m2, gid) = {n}
  BY <1>1, <1>2, <1>3 DEF ActiveMembers
<1>5. ASSUME NEW i, i # gid
      PROVE  ActiveMembers(m2, i) = ActiveMembers(m, i)
  BY <1>2, <1>5 DEF ActiveMembers
<1>6. \A i \in DOMAIN g2 : g2[i].group_id = i
  <2>1. \A i \in DOMAIN g : g2[i].group_id = i
    BY <1>3 DEF Consistent, Counted
  <2>2. QED BY <1>3, <2>1
<1>7. \A k \in DOMAIN m2 : m2[k].group_id \in DOMAIN g2
  <2>1. \A k \in DOMAIN m : m2[k].group_id \in DOMAIN g2
    BY <1>1, <1>2, <1>3
  <2>2. QED BY <1>2, <1>3, <2>1
<1>8. ASSUME NEW i \in DOMAIN g2, g2[i].is_active
      PROVE  g2[i].member_count = Cardinality(ActiveMembers(m2, i))
  <2>1. CASE i = gid
    <3>1. Cardinality({n}) = 1
      BY FS_Singleton
    <3>2. QED BY <1>3, <1>4, <2>1, <3>1
  <2>2. CASE i # gid
    <3>1. i \in DOMAIN g /\ g2[i] = g[i]
      BY <1>3, <2>2
    <3>2. g[i].member_count = Cardinality(ActiveMembers(m, i))
      BY <1>8, <3>1 DEF Consistent, Counted
    <3>3. QED BY <1>5, <2>2, <3>1, <3>2
  <2>3. QED BY <2>1, <2>2
<1>9. ASSUME NEW i \in DOMAIN g2, ~g2[i].is_active
      PROVE  ActiveMembers(m2, i) = {}
  <2>1. i # gid /\ i \in DOMAIN g /\ g2[i] = g[i]
    BY <1>3, <1>9
  <2>2. ActiveMembers(m, i) = {}
    BY <1>9, <2>1 DEF Consistent, Counted
  <2>3. QED BY <1>5, <2>1, <2>2
<1>10. ASSUME ShortNames, NEW i \in DOMAIN g2, g2[i].is_active
       PROVE  \E k \in ActiveMembers(m2, i) : m2[k].username = g2[i].owner
  <2>1. CASE i = gid
    BY <1>2, <1>3, <1>4, <2>1
  <2>2. CASE i # gid
    <3>1. i \in DOMAIN g /\ g2[i] = g[i]
      BY <1>3, <2>2
    <3>2. PICK k \in ActiveMembers(m, i) : m[k].username = g[i].owner
      BY <1>10, <3>1 DEF Consistent, Named
    <3>3. k \in DOMAIN m /\ k \in ActiveMembers(m2, i)
      BY <1>5, <2>2, <3>2 DEF ActiveMembers
    <3>4. QED BY <1>2, <3>1, <3>2, <3>3
  <2>3. QED BY <2>1, <2>2
<1>11. ASSUME ShortNames, NEW j \in DOMAIN m2, NEW k \in DOMAIN m2,
              m2[j].is_active, m2[k].is_active,
              m2[j].group_id = m2[k].group_id, m2[j].username = m2[k].username
       PROVE  j = k
  <2>1. CASE j \in DOMAIN m /\ k \in DOMAIN m
    BY <1>2, <1>11, <2>1 DEF Consistent, Named
  <2>2. \A i \in DOMAIN m : m2[i].group_id # gid
    BY <1>1, <1>2, <1>3
  <2>3. QED BY <1>2, <1>11, <2>1, <2>2
<1>12. ASSUME ShortNames, NEW k \in DOMAIN m2, m2[k].is_active, m2[k].is_admin
       PROVE  /\ g2[m2[k].group_id].is_active
              /\ g2[m2[k].group_id].owner = m2[k].username
  <2>1. CASE k = n
    BY <1>2, <1>3, <2>1
  <2>2. CASE k # n
    <3>1. k \in DOMAIN m /\ m2[k] = m[k]
      BY <1>2, <2>2
    <3>2. PICK i : i = m[k].group_id
      OBVIOUS
    <3>3. i \in DOMAIN g /\ g[i].is_active /\ g[i].owner = m[k].username
      BY <1>12, <3>1, <3>2 DEF Consistent, Counted, Named
    <3>4. QED BY <1>3, <3>1, <3>2, <3>3
  <2>3. QED BY <2>1, <2>2
<1>13. Counted(g2, m2)
  BY <1>2, <1>3, <1>6, <1>7, <1>8, <1>9 DEF Counted
<1>14. ShortNames => Named(g2, m2)
  BY <1>2, <1>3, <1>10, <1>11, <1>12 DEF Named
<1>15. QED BY <1>13, <1>14 DEF Consistent

-----------------------------------------------------------------------------
(* The two request files, with the counter that numbers each. *)

RequestsOK(q, next) ==
  /\ q \in Seq(JoinRequestRecordDB)
  /\ \A i \in DOMAIN q : q[i].request_id = i
  /\ next = Len(q) + 1
  /\ \A i, j \in DOMAIN q :
       /\ q[i].status = Pending /\ q[j].status = Pending
       /\ q[i].group_id = q[j].group_id /\ q[i].requester = q[j].requester
       => i = j

InvitesOK(q, next) ==
  /\ q \in Seq(GroupInviteRecordDB)
  /\ \A i \in DOMAIN q : q[i].invite_id = i
  /\ next = Len(q) + 1
  /\ \A i, j \in DOMAIN q :
       /\ q[i].status = Pending /\ q[j].status = Pending
       /\ q[i].group_id = q[j].group_id /\ q[i].invitee = q[j].invitee
       => i = j

(* A new request gets the next number and is the only one its sender has   *)
(* waiting for the group.                                                  *)
LEMMA RequestSubmitted ==
  ASSUME NEW q, NEW next, RequestsOK(q, next), NEW gid \in Nat, NEW u \in Name,
         ~PendingRequestExists(q, gid, u),
         NEW q2, q2 = Append(q, NewRequest(next, gid, u))
  PROVE  /\ RequestsOK(q2, next + 1)
         /\ \A i \in DOMAIN q : q2[i] = q[i]
<1> DEFINE r == NewRequest(next, gid, u)
<1>1. /\ q \in Seq(JoinRequestRecordDB) /\ Len(q) \in Nat /\ next = Len(q) + 1
      /\ next \in Nat
  BY DEF RequestsOK
<1>2. /\ r \in JoinRequestRecordDB /\ r.request_id = next /\ r.group_id = gid
      /\ r.requester = u
  BY <1>1 DEF NewRequest, JoinRequestRecordDB, Status
<1>3. q2 = Append(q, r)
  OBVIOUS
<1> HIDE DEF r
<1>4. q2 \in Seq(JoinRequestRecordDB) /\ Len(q2) = Len(q) + 1
  BY <1>1, <1>2, <1>3
<1>5. q2[next] = r /\ \A i \in 1..Len(q) : q2[i] = q[i]
  BY <1>1, <1>2, <1>3
<1>6. DOMAIN q2 = 1..next /\ DOMAIN q = 1..Len(q)
  BY <1>1, <1>4
<1>7. 1..next = 1..Len(q) \cup {next} /\ next \notin 1..Len(q)
  BY <1>1
<1>8. ASSUME NEW i \in DOMAIN q2
      PROVE  q2[i].request_id = i
  BY <1>2, <1>5, <1>6, <1>7 DEF RequestsOK
<1>9. ASSUME NEW i \in DOMAIN q2, NEW j \in DOMAIN q2,
             q2[i].status = Pending, q2[j].status = Pending,
             q2[i].group_id = q2[j].group_id, q2[i].requester = q2[j].requester
      PROVE  i = j
  <2>1. CASE i \in DOMAIN q /\ j \in DOMAIN q
    BY <1>5, <1>6, <1>9, <2>1 DEF RequestsOK
  <2>2. ASSUME NEW k \in DOMAIN q, q2[k].status = Pending, q2[k].group_id = gid,
               q2[k].requester = u
        PROVE  FALSE
    BY <1>5, <1>6, <2>2 DEF PendingRequestExists
  <2>3. QED BY <1>2, <1>5, <1>6, <1>7, <1>9, <2>1, <2>2
<1>10. next + 1 = Len(q2) + 1
  BY <1>1, <1>4
<1>11. QED BY <1>4, <1>5, <1>6, <1>8, <1>9, <1>10 DEF RequestsOK

LEMMA InviteSubmitted ==
  ASSUME NEW q, NEW next, InvitesOK(q, next), NEW gid \in Nat,
         NEW o \in Name, NEW u \in Name,
         ~PendingInviteExists(q, gid, u),
         NEW q2, q2 = Append(q, NewInvite(next, gid, o, u))
  PROVE  /\ InvitesOK(q2, next + 1)
         /\ \A i \in DOMAIN q : q2[i] = q[i]
<1> DEFINE r == NewInvite(next, gid, o, u)
<1>1. /\ q \in Seq(GroupInviteRecordDB) /\ Len(q) \in Nat /\ next = Len(q) + 1
      /\ next \in Nat
  BY DEF InvitesOK
<1>2. /\ r \in GroupInviteRecordDB /\ r.invite_id = next /\ r.group_id = gid
      /\ r.invitee = u
  BY <1>1 DEF NewInvite, GroupInviteRecordDB, Status
<1>3. q2 = Append(q, r)
  OBVIOUS
<1> HIDE DEF r
<1>4. q2 \in Seq(GroupInviteRecordDB) /\ Len(q2) = Len(q) + 1
  BY <1>1, <1>2, <1>3
<1>5. q2[next] = r /\ \A i \in 1..Len(q) : q2[i] = q[i]
  BY <1>1, <1>2, <1>3
<1>6. DOMAIN q2 = 1..next /\ DOMAIN q = 1..Len(q)
  BY <1>1, <1>4
<1>7. 1..next = 1..Len(q) \cup {next} /\ next \notin 1..Len(q)
  BY <1>1
<1>8. ASSUME NEW i \in DOMAIN q2
      PROVE  q2[i].invite_id = i
  BY <1>2, <1>5, <1>6, <1>7 DEF InvitesOK
<1>9. ASSUME NEW i \in DOMAIN q2, NEW j \in DOMAIN q2,
             q2[i].status = Pending, q2[j].status = Pending,
             q2[i].group_id = q2[j].group_id, q2[i].invitee = q2[j].invitee
      PROVE  i = j
  <2>1. CASE i \in DOMAIN q /\ j \in DOMAIN q
    BY <1>5, <1>6, <1>9, <2>1 DEF InvitesOK
  <2>2. ASSUME NEW k \in DOMAIN q, q2[k].status = Pending, q2[k].group_id = gid,
               q2[k].invitee = u
        PROVE  FALSE
    BY <1>5, <1>6, <2>2 DEF PendingInviteExists
  <2>3. QED BY <1>2, <1>5, <1>6, <1>7, <1>9, <2>1, <2>2
<1>10. next + 1 = Len(q2) + 1
  BY <1>1, <1>4
<1>11. QED BY <1>4, <1>5, <1>6, <1>8, <1>9, <1>10 DEF InvitesOK

(* A decision touches the one record it decides, and ends its wait. *)
LEMMA RequestDecided ==
  ASSUME NEW q, NEW next, RequestsOK(q, next), NEW at \in DOMAIN q,
         q[at].status = Pending, NEW approve \in BOOLEAN, NEW u \in Name,
         NEW q2, q2 = Decide(q, at, approve, u)
  PROVE  /\ RequestsOK(q2, next)
         /\ \A i \in DOMAIN q : q[i].status # Pending => q2[i] = q[i]
<1> DEFINE st == IF approve THEN Approved ELSE Rejected
<1>1. /\ q \in Seq(JoinRequestRecordDB) /\ next = Len(q) + 1
      /\ \A i \in DOMAIN q : q[i] \in JoinRequestRecordDB /\ q[i].request_id = i
  BY DEF RequestsOK
<1>2. q2 = [q EXCEPT ![at] = [[@ EXCEPT !.status = st] EXCEPT !.reviewed_by = u]]
  BY DEF Decide
<1>3. st \in Status /\ st # Pending
  BY DEF Status, Approved, Rejected, Pending
<1> HIDE DEF st
<1>4. DOMAIN q2 = DOMAIN q /\ \A i \in DOMAIN q : i # at => q2[i] = q[i]
  BY <1>2
<1>5. q2[at] = [[q[at] EXCEPT !.status = st] EXCEPT !.reviewed_by = u]
  BY <1>2
<1>6. /\ q2[at] \in JoinRequestRecordDB /\ q2[at].request_id = q[at].request_id
      /\ q2[at].status = st
  BY <1>1, <1>3, <1>5 DEF JoinRequestRecordDB
<1>7. q2 \in Seq(JoinRequestRecordDB) /\ Len(q2) = Len(q)
  <2>1. q2 = [i \in DOMAIN q2 |-> q2[i]]
    BY <1>2
  <2>2. \A i \in DOMAIN q : q2[i] \in JoinRequestRecordDB
    BY <1>1, <1>4, <1>6
  <2>3. QED BY <1>1, <1>4, <2>1, <2>2, UpdateInPlace
<1>8. \A i \in DOMAIN q2 : q2[i].request_id = i
  BY <1>1, <1>4, <1>6
<1>9. ASSUME NEW i \in DOMAIN q2, NEW j \in DOMAIN q2,
             q2[i].status = Pending, q2[j].status = Pending,
             q2[i].group_id = q2[j].group_id, q2[i].requester = q2[j].requester
      PROVE  i = j
  <2>1. i # at /\ j # at
    BY <1>3, <1>6, <1>9
  <2>2. QED BY <1>4, <1>9, <2>1 DEF RequestsOK
<1>10. RequestsOK(q2, next)
  BY <1>1, <1>7, <1>8, <1>9 DEF RequestsOK
<1>11. QED BY <1>4, <1>10

LEMMA InviteDecided ==
  ASSUME NEW q, NEW next, InvitesOK(q, next), NEW at \in DOMAIN q,
         q[at].status = Pending, NEW accept \in BOOLEAN, NEW u \in Name,
         NEW q2, q2 = Decide(q, at, accept, u)
  PROVE  /\ InvitesOK(q2, next)
         /\ \A i \in DOMAIN q : q[i].status # Pending => q2[i] = q[i]
<1> DEFINE st == IF accept THEN Approved ELSE Rejected
<1>1. /\ q \in Seq(GroupInviteRecordDB) /\ next = Len(q) + 1
      /\ \A i \in DOMAIN q : q[i] \in GroupInviteRecordDB /\ q[i].invite_id = i
  BY DEF InvitesOK
<1>2. q2 = [q EXCEPT ![at] = [[@ EXCEPT !.status = st] EXCEPT !.reviewed_by = u]]
  BY DEF Decide
<1>3. st \in Status /\ st # Pending
  BY DEF Status, Approved, Rejected, Pending
<1> HIDE DEF st
<1>4. DOMAIN q2 = DOMAIN q /\ \A i \in DOMAIN q : i # at => q2[i] = q[i]
  BY <1>2
<1>5. q2[at] = [[q[at] EXCEPT !.status = st] EXCEPT !.reviewed_by = u]
  BY <1>2
<1>6. /\ q2[at] \in GroupInviteRecordDB /\ q2[at].invite_id = q[at].invite_id
      /\ q2[at].status = st
  BY <1>1, <1>3, <1>5 DEF GroupInviteRecordDB
<1>7. q2 \in Seq(GroupInviteRecordDB) /\ Len(q2) = Len(q)
  <2>1. q2 = [i \in DOMAIN q2 |-> q2[i]]
    BY <1>2
  <2>2. \A i \in DOMAIN q : q2[i] \in GroupInviteRecordDB
    BY <1>1, <1>4, <1>6
  <2>3. QED BY <1>1, <1>4, <2>1, <2>2, UpdateInPlace
<1>8. \A i \in DOMAIN q2 : q2[i].invite_id = i
  BY <1>1, <1>4, <1>6
<1>9. ASSUME NEW i \in DOMAIN q2, NEW j \in DOMAIN q2,
             q2[i].status = Pending, q2[j].status = Pending,
             q2[i].group_id = q2[j].group_id, q2[i].invitee = q2[j].invitee
      PROVE  i = j
  <2>1. i # at /\ j # at
    BY <1>3, <1>6, <1>9
  <2>2. QED BY <1>4, <1>9, <2>1 DEF InvitesOK
<1>10. InvitesOK(q2, next)
  BY <1>1, <1>7, <1>8, <1>9 DEF InvitesOK
<1>11. QED BY <1>4, <1>10

-----------------------------------------------------------------------------
(* The effect of each call on groups.dat and members.dat: create_group,     *)
(* add_member_to_group (and the approvals that call it), removal and       *)
(* departure, delete_group, transfer_group_owner.                          *)
CreateEffect(g, m, gid, u, g2, m2) ==
  g2 = Append(g, NewGroup(gid, u)) /\ m2 = Append(m, NewMember(gid, u, TRUE))

JoinEffect(g, m, gid, u, g2, m2) ==
  /\ g2 = [g EXCEPT ![gid].member_count = @ + 1]
  /\ m2 = Append(m, NewMember(gid, u, FALSE))

DropEffect(g, m, gid, u, g2, m2) ==
  /\ g2 = [g EXCEPT ![gid].member_count = @ - 1]
  /\ m2 = Deactivate(m, ActiveMemberAt(m, gid, u))

CloseEffect(g, m, gid, g2, m2) ==
  /\ g2 = [g EXCEPT ![gid].is_active = FALSE]
  /\ m2 = EndMembers(m, gid)

TransferEffect(g, m, gid, u, v, g2, m2) ==
  /\ g2 = [g EXCEPT ![gid].owner = v]
  /\ m2 = [k \in DOMAIN m |-> RoleAfterTransfer(m[k], gid, u, v)]

LEMMA Created ==
  ASSUME NEW g, NEW m, Consistent(g, m), NEW gid, gid = Len(g) + 1, NEW u \in Name,
         NEW g2, NEW m2, CreateEffect(g, m, gid, u, g2, m2)
  PROVE  Consistent(g2, m2) /\ Len(g2) = Len(g) + 1 /\ Len(m2) = Len(m) + 1
<1> DEFINE r == NewMember(gid, u, TRUE)
<1>1. /\ g \in Seq(GroupRecordDB) /\ m \in Seq(MemberRecordDB)
      /\ Len(g) \in Nat /\ gid \in Nat
  BY DEF Consistent, Counted
<1>2. r \in MemberRecordDB /\ r.group_id = gid /\ r.username = u /\ r.is_active
  BY <1>1 DEF NewMember, MemberRecordDB
<1>3. m2 = Append(m, r) /\ g2 = Append(g, NewGroup(gid, u))
  BY DEF CreateEffect
<1> HIDE DEF r
<1>4. GroupAppended(g, gid, u, g2)
  BY <1>1, <1>3, NewGroupAppended
<1>5. Appended(m, r, m2)
  BY <1>1, <1>2, <1>3, MemberAppended
<1>6. Consistent(g2, m2)
  BY <1>2, <1>4, <1>5, CreateKeepsConsistent
<1>7. Len(m2) = Len(m) + 1
  BY <1>1, <1>2, <1>3
<1>8. Len(g2) = Len(g) + 1
  BY <1>1, <1>3
<1>9. QED BY <1>6, <1>7, <1>8

LEMMA Joined ==
  ASSUME NEW g, NEW m, Consistent(g, m), NEW gid, Live(g, gid),
         NEW u \in Name, ~IsMemberOfGroup(m, gid, u),
         NEW g2, NEW m2, JoinEffect(g, m, gid, u, g2, m2)
  PROVE  /\ Consistent(g2, m2) /\ Len(g2) = Len(g) /\ Len(m2) = Len(m) + 1
         /\ CountChanged(g, gid, 1, g2)
<1> DEFINE r == NewMember(gid, u, FALSE)
<1>1. /\ g \in Seq(GroupRecordDB) /\ m \in Seq(MemberRecordDB)
      /\ gid \in DOMAIN g /\ gid \in Nat
  BY DEF Consistent, Counted, Live
<1>2. CountChanged(g, gid, 1, g2)
  <2>1. PICK d \in Int : d = 1
    OBVIOUS
  <2>2. g2 = [g EXCEPT ![gid].member_count = @ + d]
    BY <2>1 DEF JoinEffect
  <2>3. CountChanged(g, gid, d, g2)
    BY <1>1, <2>2, CountUpdated, Zenon
  <2>4. QED BY <2>1, <2>3
<1>3. /\ r \in MemberRecordDB /\ r.group_id = gid /\ r.username = u
      /\ r.is_active /\ ~r.is_admin
  BY <1>1 DEF NewMember, MemberRecordDB
<1>4. m2 = Append(m, r)
  BY DEF JoinEffect
<1> HIDE DEF r
<1>5. Appended(m, r, m2)
  BY <1>1, <1>3, <1>4, MemberAppended
<1>6. ~\E k \in ActiveMembers(m, gid) : m[k].username = u
  BY <1>1, MemberLookup
<1>7. Consistent(g2, m2)
  BY <1>2, <1>3, <1>5, <1>6, JoinKeepsConsistent
<1>8. Len(g2) = Len(g)
  BY <1>1, <1>2, SameLength DEF CountChanged
<1>9. Len(m2) = Len(m) + 1
  BY <1>1, <1>3, <1>4
<1>10. QED BY <1>2, <1>7, <1>8, <1>9

LEMMA Dropped ==
  ASSUME NEW g, NEW m, Consistent(g, m), NEW gid, Live(g, gid),
         NEW u, g[gid].owner # u, IsMemberOfGroup(m, gid, u),
         NEW g2, NEW m2, DropEffect(g, m, gid, u, g2, m2)
  PROVE  Consistent(g2, m2) /\ Len(g2) = Len(g) /\ Len(m2) = Len(m)
<1>1. /\ g \in Seq(GroupRecordDB) /\ m \in Seq(MemberRecordDB)
      /\ gid \in DOMAIN g /\ gid \in Nat
  BY DEF Consistent, Counted, Live
<1>2. CountChanged(g, gid, -1, g2)
  <2>1. PICK d \in Int : d = -1
    OBVIOUS
  <2>2. g[gid].member_count \in Int
    <3>1. g[gid] \in GroupRecordDB
      BY <1>1
    <3>2. QED BY <3>1 DEF GroupRecordDB
  <2>3. g2 = [g EXCEPT ![gid].member_count = @ + d]
    BY <2>1, <2>2 DEF DropEffect
  <2>4. CountChanged(g, gid, d, g2)
    BY <1>1, <2>3, CountUpdated, Zenon
  <2>5. QED BY <2>1, <2>4
<1>3. PICK at : at = ActiveMemberAt(m, gid, u)
  OBVIOUS
<1>4. at \in ActiveMembers(m, gid) /\ m[at].username = u /\ at \in DOMAIN m
  BY <1>1, <1>3, ActiveMemberFound DEF IsMemberOfGroup, ActiveMembers
<1>5. Deactivated(m, at, m2)
  BY <1>1, <1>3, <1>4, MemberDeactivated DEF DropEffect
<1>6. Consistent(g2, m2)
  BY <1>2, <1>4, <1>5, DropKeepsConsistent
<1>7. Len(g2) = Len(g)
  BY <1>1, <1>2, SameLength DEF CountChanged
<1>8. Len(m2) = Len(m)
  BY <1>1, <1>5, SameLength DEF Deactivated
<1>9. QED BY <1>6, <1>7, <1>8

(* Somebody can only be a member of a live group, and its count is not 0.  *)
LEMMA MembersGroupIsLive ==
  ASSUME NEW g, NEW m, Consistent(g, m), NEW gid, NEW u, IsMemberOfGroup(m, gid, u)
  PROVE  Live(g, gid) /\ g[gid].member_count > 0
<1>1. g \in Seq(GroupRecordDB) /\ m \in Seq(MemberRecordDB)
  BY DEF Consistent, Counted
<1>2. PICK k \in ActiveMembers(m, gid) : m[k].username = u
  BY <1>1, MemberLookup
<1>3. gid \in DOMAIN g
  BY <1>1, <1>2 DEF Consistent, Counted, ActiveMembers
<1>4. Live(g, gid)
  BY <1>1, <1>2, <1>3 DEF Consistent, Counted, Live
<1>5. g[gid].member_count = Cardinality(ActiveMembers(m, gid))
  BY <1>3, <1>4 DEF Consistent, Counted, Live
<1>6. /\ IsFiniteSet(ActiveMembers(m, gid))
      /\ Cardinality(ActiveMembers(m, gid)) \in Nat
  BY <1>1, ActiveMembersFinite
<1>7. Cardinality(ActiveMembers(m, gid)) # 0
  BY <1>2, <1>6, FS_EmptySet
<1>8. QED BY <1>4, <1>5, <1>6, <1>7

(* The owner who leaves is the last member, so that delete_group's one     *)
(* deactivation empties the group.                                         *)
LEMMA OwnerIsFound ==
  ASSUME NEW g, NEW m, Consistent(g, m), NEW gid, Live(g, gid),
         IsMemberOfGroup(m, gid, g[gid].owner), g[gid].member_count <= 1,
         NEW at, at = FirstActiveMemberAt(m, gid)
  PROVE  at \in DOMAIN m /\ at # 0 /\ ActiveMembers(m, gid) = {at}
<1>1. m \in Seq(MemberRecordDB)
  BY DEF Consistent, Counted
<1>2. PICK k \in DOMAIN m : ActiveMembers(m, gid) = {k}
  BY LastMember
<1>3. \/ at = 0 /\ ActiveMembers(m, gid) = {}
      \/ at \in ActiveMembers(m, gid)
  BY <1>1, FirstActiveMemberFound
<1>4. k # 0
  BY <1>1
<1>5. QED BY <1>2, <1>3, <1>4

LEMMA Closed ==
  ASSUME NEW g, NEW m, Consistent(g, m), NEW gid, Live(g, gid),
         IsMemberOfGroup(m, gid, g[gid].owner), g[gid].member_count <= 1,
         NEW g2, NEW m2, CloseEffect(g, m, gid, g2, m2)
  PROVE  Consistent(g2, m2) /\ Len(g2) = Len(g) /\ Len(m2) = Len(m)
<1>1. /\ g \in Seq(GroupRecordDB) /\ m \in Seq(MemberRecordDB) /\ gid \in DOMAIN g
  BY DEF Consistent, Counted, Live
<1>2. PICK at : at = FirstActiveMemberAt(m, gid)
  OBVIOUS
<1>3. at \in DOMAIN m /\ ActiveMembers(m, gid) = {at}
  BY <1>2, OwnerIsFound
<1>4. g2 = [g EXCEPT ![gid].is_active = FALSE] /\ m2 = EndMembers(m, gid)
  BY DEF CloseEffect
<1>5. GroupClosed(g, gid, g2) /\ Ended(m, at, m2)
  BY <1>1, <1>2, <1>3, <1>4, GroupDeactivated, MembersEnded
<1>6. Consistent(g2, m2)
  BY <1>3, <1>5, DeleteKeepsConsistent
<1>7. Len(g2) = Len(g) /\ Len(m2) = Len(m)
  BY <1>1, <1>5, SameLength DEF GroupClosed, Ended
<1>8. QED BY <1>6, <1>7

LEMMA HandedOver ==
  ASSUME NEW g, NEW m, Consistent(g, m), NEW gid, Live(g, gid),
         NEW u, g[gid].owner = u, NEW v \in Name, IsMemberOfGroup(m, gid, v),
         NEW g2, NEW m2, TransferEffect(g, m, gid, u, v, g2, m2)
  PROVE  Consistent(g2, m2) /\ Len(g2) = Len(g) /\ Len(m2) = Len(m)
<1>1. /\ g \in Seq(GroupRecordDB) /\ m \in Seq(MemberRecordDB) /\ gid \in DOMAIN g
  BY DEF Consistent, Counted, Live
<1>2. \E k \in ActiveMembers(m, gid) : m[k].username = v
  BY <1>1, MemberLookup
<1>3. OwnerChanged(g, gid, v, g2)
  BY <1>1, OwnerUpdated DEF TransferEffect
<1>4. RolesChanged(m, gid, u, v, m2)
  BY <1>1, RolesUpdated DEF TransferEffect
<1>5. Consistent(g2, m2)
  BY <1>2, <1>3, <1>4, TransferKeepsConsistent
<1>6. Len(g2) = Len(g) /\ Len(m2) = Len(m)
  BY <1>1, <1>3, <1>4, SameLength DEF OwnerChanged, RolesChanged
<1>7. QED BY <1>5, <1>6

(* The scans for a request or an invitation by its id. *)
LEMMA RequestLookup ==
  ASSUME NEW q, NEW next, RequestsOK(q, next), NEW i \in DOMAIN q
  PROVE  RequestAt(q, i) = i
<1>1. q \in Seq(JoinRequestRecordDB) /\ \A j \in DOMAIN q : q[j].request_id = j
  BY DEF RequestsOK
<1>2. {j \in 1..Len(q) : q[j].request_id = i} = {i}
  BY <1>1
<1>3. RequestAt(q, i) = Min({i})
  BY <1>1, <1>2 DEF RequestAt, SelectInSeq
<1>4. i \in Nat
  BY <1>1
<1>5. Min({i}) \in {i}
  BY <1>4, MinNat
<1>6. QED BY <1>3, <1>5

LEMMA InviteLookup ==
  ASSUME NEW q, NEW next, InvitesOK(q, next), NEW i \in DOMAIN q
  PROVE  InviteAt(q, i) = i
<1>1. q \in Seq(GroupInviteRecordDB) /\ \A j \in DOMAIN q : q[j].invite_id = j
  BY DEF InvitesOK
<1>2. {j \in 1..Len(q) : q[j].invite_id = i} = {i}
  BY <1>1
<1>3. InviteAt(q, i) = Min({i})
  BY <1>1, <1>2 DEF InviteAt, SelectInSeq
<1>4. i \in Nat
  BY <1>1
<1>5. Min({i}) \in {i}
  BY <1>4, MinNat
<1>6. QED BY <1>3, <1>5
=============================================================================
