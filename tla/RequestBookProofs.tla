-------------------------- MODULE RequestBookProofs --------------------------
(***************************************************************************)
(* The join requests and the invitations of GroupServer are each a         *)
(* RequestBook, for any number of threads, calls and crashes.  A book is   *)
(* what a request file shows; appending a record submits an entry, writing *)
(* a decision settles one, and no other step changes the file.             *)
(***************************************************************************)
EXTENDS GroupServerProofs

(* The book a request file is. *)
RequestView(r) ==
  [i \in DOMAIN r |->
     [id |-> r[i].request_id, group_id |-> r[i].group_id, who |-> r[i].requester,
      status |-> r[i].status, reviewed_by |-> r[i].reviewed_by]]

InviteView(v) ==
  [i \in DOMAIN v |->
     [id |-> v[i].invite_id, group_id |-> v[i].group_id, who |-> v[i].invitee,
      status |-> v[i].status, reviewed_by |-> v[i].reviewed_by]]

EntryRecord ==
  [id : Nat, group_id : GroupId, who : Name, status : Status,
   reviewed_by : Name \cup {NoName}]

(* A book shows what the file says, and gets a new entry, or a decision.   *)
ShowsRequests(b, r) ==
  /\ DOMAIN b = DOMAIN r
  /\ \A i \in DOMAIN r :
       /\ b[i].id = r[i].request_id /\ b[i].group_id = r[i].group_id
       /\ b[i].who = r[i].requester /\ b[i].status = r[i].status

ShowsInvites(b, v) ==
  /\ DOMAIN b = DOMAIN v
  /\ \A i \in DOMAIN v :
       /\ b[i].id = v[i].invite_id /\ b[i].group_id = v[i].group_id
       /\ b[i].who = v[i].invitee /\ b[i].status = v[i].status

Submitted(b, b2, g, u) ==
  b2 = Append(b, [id |-> Len(b) + 1, group_id |-> g, who |-> u,
                  status |-> Pending, reviewed_by |-> NoName])

Settled(b, b2, at, st, u) == b2 = [b EXCEPT ![at].status = st, ![at].reviewed_by = u]

LEMMA SameBook ==
  /\ JoinRequests!Pending = Pending /\ JoinRequests!Approved = Approved
  /\ JoinRequests!Rejected = Rejected
  /\ Invitations!Pending = Pending /\ Invitations!Approved = Approved
  /\ Invitations!Rejected = Rejected
BY DEF JoinRequests!Pending, Pending, JoinRequests!Approved, Approved,
   JoinRequests!Rejected, Rejected, Invitations!Pending, Invitations!Approved,
   Invitations!Rejected

-----------------------------------------------------------------------------
(* What appending to a file and writing to it do to the book of it.        *)
LEMMA RequestViewIs ==
  ASSUME NEW r \in Seq(JoinRequestRecordDB), NEW b, b = RequestView(r)
  PROVE  /\ DOMAIN b = 1..Len(r) /\ DOMAIN b = DOMAIN r
         /\ \A i \in DOMAIN r :
              /\ b[i] = [id |-> r[i].request_id, group_id |-> r[i].group_id,
                         who |-> r[i].requester, status |-> r[i].status,
                         reviewed_by |-> r[i].reviewed_by]
              /\ r[i] \in JoinRequestRecordDB
         /\ ShowsRequests(b, r)
<1>1. DOMAIN r = 1..Len(r) /\ \A i \in DOMAIN r : r[i] \in JoinRequestRecordDB
  OBVIOUS
<1>2. DOMAIN b = DOMAIN r
  BY DEF RequestView
<1>3. ASSUME NEW i \in DOMAIN r
      PROVE  b[i] = [id |-> r[i].request_id, group_id |-> r[i].group_id,
                     who |-> r[i].requester, status |-> r[i].status,
                     reviewed_by |-> r[i].reviewed_by]
  BY DEF RequestView
<1>4. QED BY <1>1, <1>2, <1>3 DEF ShowsRequests

LEMMA RequestViewSeq ==
  ASSUME NEW r \in Seq(JoinRequestRecordDB), NEW b, b = RequestView(r),
         NEW n, RequestsNumbered(r, n)
  PROVE  b \in Seq(EntryRecord) /\ Len(b) = Len(r)
<1>1. DOMAIN b = 1..Len(r) /\ Len(r) \in Nat /\ DOMAIN r = DOMAIN b
  BY RequestViewIs
<1>2. ASSUME NEW i \in DOMAIN r PROVE b[i] \in EntryRecord
  <2>1. /\ r[i].request_id \in Nat /\ r[i].group_id \in GroupId
        /\ r[i].requester \in Name /\ r[i].status \in Status
        /\ r[i].reviewed_by \in Name \cup {NoName}
    <3>1. r[i] \in JoinRequestRecordDB
      BY RequestViewIs
    <3>2. /\ r[i].requester \in Name /\ r[i].status \in Status
          /\ r[i].reviewed_by \in Name \cup {NoName} /\ r[i].request_id \in Nat
      BY <3>1 DEF JoinRequestRecordDB
    <3>3. r[i].group_id \in GroupId
      BY DEF RequestsNumbered
    <3>4. QED BY <3>2, <3>3
  <2>2. b[i] = [id |-> r[i].request_id, group_id |-> r[i].group_id,
                who |-> r[i].requester, status |-> r[i].status,
                reviewed_by |-> r[i].reviewed_by]
    BY RequestViewIs
  <2>3. QED BY <2>1, <2>2 DEF EntryRecord
<1>3. b = [i \in 1..Len(r) |-> b[i]]
  BY DEF RequestView
<1>4. b \in Seq(EntryRecord)
  BY <1>1, <1>2, <1>3
<1>5. QED BY <1>1, <1>4

LEMMA RequestViewAppended ==
  ASSUME NEW r \in Seq(JoinRequestRecordDB), NEW n, RequestsNumbered(r, n),
         NEW g \in GroupId, NEW u \in Name,
         NEW x, x = NewRequest(n, g, u), NEW r2, r2 = Append(r, x),
         NEW b, b = RequestView(r), NEW b2, b2 = RequestView(r2)
  PROVE  Submitted(b, b2, g, u)
<1> DEFINE e == [id |-> Len(b) + 1, group_id |-> g, who |-> u,
                 status |-> Pending, reviewed_by |-> NoName]
<1>1. /\ b \in Seq(EntryRecord) /\ Len(b) = Len(r) /\ Len(r) \in Nat /\ n = Len(r) + 1
      /\ DOMAIN b = DOMAIN r
  BY RequestViewSeq, RequestViewIs DEF RequestsNumbered
<1>2. /\ DOMAIN r2 = 1..(Len(r) + 1) /\ DOMAIN r = 1..Len(r)
      /\ \A i \in DOMAIN r : r2[i] = r[i]
      /\ r2[Len(r) + 1] = x
  OBVIOUS
<1>3. /\ DOMAIN RequestView(r2) = DOMAIN r2
      /\ \A i \in DOMAIN r2 :
           RequestView(r2)[i] = [id |-> r2[i].request_id, group_id |-> r2[i].group_id,
                         who |-> r2[i].requester, status |-> r2[i].status,
                         reviewed_by |-> r2[i].reviewed_by]
  BY DEF RequestView
<1>4. \A i \in DOMAIN r : RequestView(r2)[i] = b[i]
  BY <1>2, <1>3, RequestViewIs
<1>5. RequestView(r2)[Len(r) + 1] = e
  <2>1. /\ x.request_id = Len(b) + 1 /\ x.group_id = g /\ x.requester = u
        /\ x.status = Pending /\ x.reviewed_by = NoName
    BY <1>1 DEF NewRequest
  <2>2. Len(r) + 1 \in DOMAIN r2
    BY <1>1, <1>2
  <2>3. QED BY <1>2, <1>3, <2>1, <2>2
<1>6. PICK c : c = Append(b, e)
  OBVIOUS
<1>7. /\ c = [i \in 1..(Len(b) + 1) |-> IF i = Len(b) + 1 THEN e ELSE b[i]]
  BY <1>1, <1>6
<1>8. RequestView(r2) = [i \in DOMAIN r2 |-> RequestView(r2)[i]]
  BY DEF RequestView
<1>9. \A i \in 1..(Len(r) + 1) :
         RequestView(r2)[i] = IF i = Len(r) + 1 THEN e ELSE b[i]
  <2>1. \A i \in 1..(Len(r) + 1) : i = Len(r) + 1 \/ i \in DOMAIN r
    BY <1>1, <1>2
  <2>2. QED BY <1>1, <1>2, <1>4, <1>5, <2>1
<1>10. QED BY <1>1, <1>2, <1>6, <1>7, <1>8, <1>9 DEF Submitted

LEMMA RequestViewDecided ==
  ASSUME NEW r \in Seq(JoinRequestRecordDB), NEW at \in DOMAIN r,
         NEW st, NEW u, NEW e, e.request_id = r[at].request_id,
         e.group_id = r[at].group_id, e.requester = r[at].requester,
         e.status = st, e.reviewed_by = u,
         NEW r2, r2 = [r EXCEPT ![at] = e],
         NEW b, b = RequestView(r), NEW b2, b2 = RequestView(r2)
  PROVE  Settled(b, b2, at, st, u)
<1>1. /\ DOMAIN r2 = DOMAIN r /\ r2[at] = e
      /\ \A i \in DOMAIN r : i # at => r2[i] = r[i]
  OBVIOUS
<1>2. \A i \in DOMAIN r : i # at => RequestView(r2)[i] = b[i]
  BY <1>1 DEF RequestView
<1>3. RequestView(r2)[at] = [b[at] EXCEPT !.status = st, !.reviewed_by = u]
  <2>1. RequestView(r2)[at] = [id |-> r[at].request_id, group_id |-> r[at].group_id,
                               who |-> r[at].requester, status |-> st, reviewed_by |-> u]
    BY <1>1 DEF RequestView
  <2>2. b[at] = [id |-> r[at].request_id, group_id |-> r[at].group_id,
                 who |-> r[at].requester, status |-> r[at].status,
                 reviewed_by |-> r[at].reviewed_by]
    BY DEF RequestView
  <2>3. PICK x : x = b[at]
    OBVIOUS
  <2>4. PICK z : z = [x EXCEPT !.status = st]
    OBVIOUS
  <2>5. z = [id |-> r[at].request_id, group_id |-> r[at].group_id,
             who |-> r[at].requester, status |-> st, reviewed_by |-> r[at].reviewed_by]
    BY <2>2, <2>3, <2>4
  <2>6. [z EXCEPT !.reviewed_by = u] =
          [id |-> r[at].request_id, group_id |-> r[at].group_id,
           who |-> r[at].requester, status |-> st, reviewed_by |-> u]
    BY <2>5
  <2>7. [x EXCEPT !.status = st, !.reviewed_by = u] = [z EXCEPT !.reviewed_by = u]
    BY <2>4
  <2>8. QED BY <2>1, <2>3, <2>6, <2>7
<1>4. /\ RequestView(r2) = [i \in DOMAIN r |-> RequestView(r2)[i]]
      /\ b = [i \in DOMAIN r |-> b[i]]
  BY <1>1 DEF RequestView
<1>5. RequestView(r2) = [b EXCEPT ![at] = [b[at] EXCEPT !.status = st, !.reviewed_by = u]]
  BY <1>2, <1>3, <1>4
<1>6. QED BY <1>4, <1>5 DEF Settled

(* The same of the invitations. *)
LEMMA InviteViewIs ==
  ASSUME NEW r \in Seq(GroupInviteRecordDB), NEW b, b = InviteView(r)
  PROVE  /\ DOMAIN b = 1..Len(r) /\ DOMAIN b = DOMAIN r
         /\ \A i \in DOMAIN r :
              /\ b[i] = [id |-> r[i].invite_id, group_id |-> r[i].group_id,
                         who |-> r[i].invitee, status |-> r[i].status,
                         reviewed_by |-> r[i].reviewed_by]
              /\ r[i] \in GroupInviteRecordDB
         /\ ShowsInvites(b, r)
<1>1. DOMAIN r = 1..Len(r) /\ \A i \in DOMAIN r : r[i] \in GroupInviteRecordDB
  OBVIOUS
<1>2. DOMAIN b = DOMAIN r
  BY DEF InviteView
<1>3. ASSUME NEW i \in DOMAIN r
      PROVE  b[i] = [id |-> r[i].invite_id, group_id |-> r[i].group_id,
                     who |-> r[i].invitee, status |-> r[i].status,
                     reviewed_by |-> r[i].reviewed_by]
  BY DEF InviteView
<1>4. QED BY <1>1, <1>2, <1>3 DEF ShowsInvites

LEMMA InviteViewSeq ==
  ASSUME NEW r \in Seq(GroupInviteRecordDB), NEW b, b = InviteView(r),
         NEW n, InvitesNumbered(r, n)
  PROVE  b \in Seq(EntryRecord) /\ Len(b) = Len(r)
<1>1. DOMAIN b = 1..Len(r) /\ Len(r) \in Nat /\ DOMAIN r = DOMAIN b
  BY InviteViewIs
<1>2. ASSUME NEW i \in DOMAIN r PROVE b[i] \in EntryRecord
  <2>1. /\ r[i].invite_id \in Nat /\ r[i].group_id \in GroupId
        /\ r[i].invitee \in Name /\ r[i].status \in Status
        /\ r[i].reviewed_by \in Name \cup {NoName}
    <3>1. r[i] \in GroupInviteRecordDB
      BY InviteViewIs
    <3>2. /\ r[i].invitee \in Name /\ r[i].status \in Status
          /\ r[i].reviewed_by \in Name \cup {NoName} /\ r[i].invite_id \in Nat
      BY <3>1 DEF GroupInviteRecordDB
    <3>3. r[i].group_id \in GroupId
      BY DEF InvitesNumbered
    <3>4. QED BY <3>2, <3>3
  <2>2. b[i] = [id |-> r[i].invite_id, group_id |-> r[i].group_id,
                who |-> r[i].invitee, status |-> r[i].status,
                reviewed_by |-> r[i].reviewed_by]
    BY InviteViewIs
  <2>3. QED BY <2>1, <2>2 DEF EntryRecord
<1>3. b = [i \in 1..Len(r) |-> b[i]]
  BY DEF InviteView
<1>4. b \in Seq(EntryRecord)
  BY <1>1, <1>2, <1>3
<1>5. QED BY <1>1, <1>4

LEMMA InviteViewAppended ==
  ASSUME NEW r \in Seq(GroupInviteRecordDB), NEW n, InvitesNumbered(r, n),
         NEW g \in GroupId, NEW u \in Name, NEW o,
         NEW x, x = NewInvite(n, g, o, u), NEW r2, r2 = Append(r, x),
         NEW b, b = InviteView(r), NEW b2, b2 = InviteView(r2)
  PROVE  Submitted(b, b2, g, u)
<1> DEFINE e == [id |-> Len(b) + 1, group_id |-> g, who |-> u,
                 status |-> Pending, reviewed_by |-> NoName]
<1>1. /\ b \in Seq(EntryRecord) /\ Len(b) = Len(r) /\ Len(r) \in Nat /\ n = Len(r) + 1
      /\ DOMAIN b = DOMAIN r
  BY InviteViewSeq, InviteViewIs DEF InvitesNumbered
<1>2. /\ DOMAIN r2 = 1..(Len(r) + 1) /\ DOMAIN r = 1..Len(r)
      /\ \A i \in DOMAIN r : r2[i] = r[i]
      /\ r2[Len(r) + 1] = x
  OBVIOUS
<1>3. /\ DOMAIN InviteView(r2) = DOMAIN r2
      /\ \A i \in DOMAIN r2 :
           InviteView(r2)[i] = [id |-> r2[i].invite_id, group_id |-> r2[i].group_id,
                         who |-> r2[i].invitee, status |-> r2[i].status,
                         reviewed_by |-> r2[i].reviewed_by]
  BY DEF InviteView
<1>4. \A i \in DOMAIN r : InviteView(r2)[i] = b[i]
  BY <1>2, <1>3, InviteViewIs
<1>5. InviteView(r2)[Len(r) + 1] = e
  <2>1. /\ x.invite_id = Len(b) + 1 /\ x.group_id = g /\ x.invitee = u
        /\ x.status = Pending /\ x.reviewed_by = NoName
    BY <1>1 DEF NewInvite
  <2>2. Len(r) + 1 \in DOMAIN r2
    BY <1>1, <1>2
  <2>3. QED BY <1>2, <1>3, <2>1, <2>2
<1>6. PICK c : c = Append(b, e)
  OBVIOUS
<1>7. /\ c = [i \in 1..(Len(b) + 1) |-> IF i = Len(b) + 1 THEN e ELSE b[i]]
  BY <1>1, <1>6
<1>8. InviteView(r2) = [i \in DOMAIN r2 |-> InviteView(r2)[i]]
  BY DEF InviteView
<1>9. \A i \in 1..(Len(r) + 1) :
         InviteView(r2)[i] = IF i = Len(r) + 1 THEN e ELSE b[i]
  <2>1. \A i \in 1..(Len(r) + 1) : i = Len(r) + 1 \/ i \in DOMAIN r
    BY <1>1, <1>2
  <2>2. QED BY <1>1, <1>2, <1>4, <1>5, <2>1
<1>10. QED BY <1>1, <1>2, <1>6, <1>7, <1>8, <1>9 DEF Submitted

LEMMA InviteViewDecided ==
  ASSUME NEW r \in Seq(GroupInviteRecordDB), NEW at \in DOMAIN r,
         NEW st, NEW u, NEW e, e.invite_id = r[at].invite_id,
         e.group_id = r[at].group_id, e.invitee = r[at].invitee,
         e.status = st, e.reviewed_by = u,
         NEW r2, r2 = [r EXCEPT ![at] = e],
         NEW b, b = InviteView(r), NEW b2, b2 = InviteView(r2)
  PROVE  Settled(b, b2, at, st, u)
<1>1. /\ DOMAIN r2 = DOMAIN r /\ r2[at] = e
      /\ \A i \in DOMAIN r : i # at => r2[i] = r[i]
  OBVIOUS
<1>2. \A i \in DOMAIN r : i # at => InviteView(r2)[i] = b[i]
  BY <1>1 DEF InviteView
<1>3. InviteView(r2)[at] = [b[at] EXCEPT !.status = st, !.reviewed_by = u]
  <2>1. InviteView(r2)[at] = [id |-> r[at].invite_id, group_id |-> r[at].group_id,
                               who |-> r[at].invitee, status |-> st, reviewed_by |-> u]
    BY <1>1 DEF InviteView
  <2>2. b[at] = [id |-> r[at].invite_id, group_id |-> r[at].group_id,
                 who |-> r[at].invitee, status |-> r[at].status,
                 reviewed_by |-> r[at].reviewed_by]
    BY DEF InviteView
  <2>3. PICK x : x = b[at]
    OBVIOUS
  <2>4. PICK z : z = [x EXCEPT !.status = st]
    OBVIOUS
  <2>5. z = [id |-> r[at].invite_id, group_id |-> r[at].group_id,
             who |-> r[at].invitee, status |-> st, reviewed_by |-> r[at].reviewed_by]
    BY <2>2, <2>3, <2>4
  <2>6. [z EXCEPT !.reviewed_by = u] =
          [id |-> r[at].invite_id, group_id |-> r[at].group_id,
           who |-> r[at].invitee, status |-> st, reviewed_by |-> u]
    BY <2>5
  <2>7. [x EXCEPT !.status = st, !.reviewed_by = u] = [z EXCEPT !.reviewed_by = u]
    BY <2>4
  <2>8. QED BY <2>1, <2>3, <2>6, <2>7
<1>4. /\ InviteView(r2) = [i \in DOMAIN r |-> InviteView(r2)[i]]
      /\ b = [i \in DOMAIN r |-> b[i]]
  BY <1>1 DEF InviteView
<1>5. InviteView(r2) = [b EXCEPT ![at] = [b[at] EXCEPT !.status = st, !.reviewed_by = u]]
  BY <1>2, <1>3, <1>4
<1>6. QED BY <1>4, <1>5 DEF Settled

-----------------------------------------------------------------------------
(* Only two steps change the join requests, and two the invitations.       *)
LEMMA BooksChange ==
  ASSUME [Next]_vars
  PROVE  /\ requests' = requests \/ \E t \in Thread : RJ_Append(t) \/ DJ_Write(t)
         /\ invites' = invites \/ \E t \in Thread : IV_Append(t) \/ DI_Write(t)
<1> DEFINE Kept == requests' = requests /\ invites' = invites
<1>1. CASE Crash \/ UNCHANGED vars
  BY <1>1 DEF Crash, vars, disk
<1>2. ASSUME NEW t \in Thread, Begin(t)
      PROVE  Kept
  BY <1>2 DEF Begin, disk
<1>3. ASSUME NEW t \in Thread, Step(t)
      PROVE  \/ Kept
             \/ (RJ_Append(t) \/ DJ_Write(t)) /\ invites' = invites
             \/ (IV_Append(t) \/ DI_Write(t)) /\ requests' = requests
  <2>1. CASE \/ CG_Load(t) \/ CG_Store(t) \/ CG_Group(t) \/ CG_Member(t)
             \/ AM_Owner(t) \/ AM_Member(t) \/ AM_Append(t)
             \/ AM_ReadGroup(t) \/ AM_WriteGroup(t)
    BY <2>1 DEF CG_Load, CG_Store, CG_Group, CG_Member, AM_Owner, AM_Member, AM_Append,
                AM_ReadGroup, AM_WriteGroup, disk
  <2>2. CASE \/ RM_Owner(t) \/ RM_Target(t) \/ LV_Member(t) \/ LV_Info(t) \/ DG_Owner(t)
             \/ TO_Owner(t) \/ TO_Member(t)
             \/ RJ_Member(t) \/ RJ_Owner(t) \/ RJ_Info(t) \/ IV_Owner(t) \/ IV_Member(t)
             \/ LG_Members(t) \/ LM_Member(t) \/ LM_Count(t)
    BY <2>2 DEF RM_Owner, RM_Target, LV_Member, LV_Info, DG_Owner, TO_Owner, TO_Member,
                RJ_Member, RJ_Owner, RJ_Info, IV_Owner, IV_Member, LG_Members,
                LM_Member, LM_Count, Check, disk
  <2>3. CASE \/ RM_Write(t) \/ RM_WriteGroup(t) \/ LV_Write(t) \/ LV_WriteGroup(t)
             \/ DG_Write(t) \/ DG_WriteMember(t) \/ DG_Cut(t)
             \/ TO_WriteGroup(t) \/ TO_WriteMember(t)
    BY <2>3 DEF RM_Write, RM_WriteGroup, LV_Write, LV_WriteGroup, DG_Write,
                DG_WriteMember, DG_Cut, TO_WriteGroup, TO_WriteMember, StoreGroup, StoreMember
  <2>4. CASE \/ RM_ReadGroup(t) \/ LV_ReadGroup(t) \/ DG_Read(t) \/ TO_ReadGroup(t)
             \/ RM_Read(t) \/ LV_Read(t) \/ DG_ReadMember(t) \/ DG_Next(t)
             \/ TO_Scan(t) \/ LV_Owner(t)
    BY <2>4 DEF RM_ReadGroup, LV_ReadGroup, DG_Read, TO_ReadGroup, RM_Read, LV_Read,
                DG_ReadMember, DG_Next, TO_Scan, LV_Owner, ReadMemberToDeactivate, disk
  <2>5. CASE \/ RJ_Lock(t) \/ DJ_Lock(t) \/ DJ_Info(t)
             \/ IV_Lock(t) \/ DI_Lock(t) \/ DI_Info(t)
    BY <2>5 DEF RJ_Lock, DJ_Lock, DJ_Info, IV_Lock, DI_Lock, DI_Info, disk
  <2>6. CASE \/ LG_Groups(t) \/ LM_Fill(t)
             \/ LR_Lock(t) \/ LR_Count(t) \/ LR_Fill(t) \/ LN_Count(t) \/ LN_Fill(t)
    BY <2>6 DEF LG_Groups, LM_Fill, LR_Lock, LR_Count, LR_Fill,
                LN_Count, LN_Fill, disk
  <2>7. CASE RJ_Append(t) \/ DJ_Write(t)
    BY <2>7 DEF RJ_Append, DJ_Write
  <2>8. CASE IV_Append(t) \/ DI_Write(t)
    BY <2>8 DEF IV_Append, DI_Write
  <2>9. QED
    BY <1>3, <2>1, <2>2, <2>3, <2>4, <2>5, <2>6, <2>7, <2>8 DEF Step
<1>4. ASSUME NEW t \in Thread, OpenFails(t)
      PROVE  Kept
  BY <1>4 DEF OpenFails, disk
<1>5. QED BY <1>1, <1>2, <1>3, <1>4 DEF Next

LEMMA RequestBookStep ==
  ASSUME IInv, [Next]_vars
  PROVE  [JoinRequests!Next]_(RequestView(requests))
<1>1. /\ requests \in Seq(JoinRequestRecordDB)
      /\ RequestsNumbered(requests, next_join_request_id)
  BY DEF IInv, FilesFit, FilesTyped
<1>2. PICK b, n, f, b2 : /\ b = RequestView(requests) /\ b2 = RequestView(f)
                         /\ n = next_join_request_id /\ f = requests'
  OBVIOUS
<1>3. ASSUME NEW t \in Thread, RJ_Append(t) PROVE JoinRequests!Next
  <2>1. /\ RequestFit(requests, pc[t], loc[t]) /\ ArgsFit(pc[t], loc[t])
        /\ pc[t] = "rj_append"
    BY <1>3, ThreadFacts DEF RJ_Append
  <2>2. PICK g \in GroupId, u \in Name : g = loc[t].gid /\ u = loc[t].user
    BY <2>1 DEF ArgsFit, Serves
  <2>3. ~PendingRequestExists(requests, g, u)
    BY <2>1, <2>2 DEF RequestFit
  <2>4. PICK x : x = NewRequest(n, g, u) /\ f = Append(requests, x)
    BY <1>2, <1>3, <2>2 DEF RJ_Append
  <2>5. Submitted(b, b2, g, u)
    BY <1>1, <1>2, <2>4, RequestViewAppended
  <2>6. ~JoinRequests!Waiting(b, g, u)
    <3>1. ShowsRequests(b, requests)
      BY <1>1, <1>2, RequestViewIs
    <3>2. QED
      BY <2>3, <3>1, SameBook
         DEF ShowsRequests, JoinRequests!Waiting, PendingRequestExists
  <2>7. JoinRequests!Submit(g, u)
    BY <1>2, <2>5, <2>6, SameBook DEF Submitted, JoinRequests!Submit, RequestView
  <2>8. QED BY <2>7 DEF JoinRequests!Next
<1>4. ASSUME NEW t \in Thread, DJ_Write(t) PROVE JoinRequests!Next
  <2>1. /\ RequestFit(requests, pc[t], loc[t]) /\ ArgsFit(pc[t], loc[t])
        /\ pc[t] = "dj_write"
    BY <1>4, ThreadFacts DEF DJ_Write
  <2>2. PICK at \in DOMAIN requests, approve \in BOOLEAN, u \in Name :
          at = loc[t].pos /\ approve = loc[t].approve /\ u = loc[t].user
    BY <2>1 DEF ArgsFit, CallRecord, RequestFit
  <2>3. loc[t].entry = requests[at] /\ requests[at].status = Pending
    BY <2>1, <2>2 DEF RequestFit
  <2>4. PICK st : st = IF approve THEN Approved ELSE Rejected
    OBVIOUS
  <2>5. PICK e : e = [requests[at] EXCEPT !.status = st, !.reviewed_by = u]
    OBVIOUS
  <2>6. f = [requests EXCEPT ![at] = e]
    BY <1>2, <1>4, <2>2, <2>3, <2>4, <2>5 DEF DJ_Write, Decided
  <2>7. /\ e.request_id = requests[at].request_id /\ e.group_id = requests[at].group_id
         /\ e.requester = requests[at].requester /\ e.status = st /\ e.reviewed_by = u
    <3>1. requests[at] \in JoinRequestRecordDB
      BY <1>1
    <3>2. QED BY <2>5, <3>1 DEF JoinRequestRecordDB
  <2>8. Settled(b, b2, at, st, u)
    BY <1>1, <1>2, <2>6, <2>7, RequestViewDecided
  <2>9. b2 = JoinRequests!Decide(b, at, approve, u)
    BY <2>4, <2>8, SameBook DEF Settled, JoinRequests!Decide
  <2>10. at \in DOMAIN b /\ b[at].status = JoinRequests!Pending
    <3>1. ShowsRequests(b, requests)
      BY <1>1, <1>2, RequestViewIs
    <3>2. QED BY <2>3, <3>1, SameBook DEF ShowsRequests
  <2>11. JoinRequests!DecideEntry(at, approve, u)
    BY <1>2, <2>9, <2>10 DEF JoinRequests!DecideEntry, RequestView
  <2>12. QED BY <1>2, <2>10, <2>11 DEF JoinRequests!Next, RequestView
<1>5. QED BY <1>3, <1>4, BooksChange

LEMMA InviteBookStep ==
  ASSUME IInv, [Next]_vars
  PROVE  [Invitations!Next]_(InviteView(invites))
<1>1. /\ invites \in Seq(GroupInviteRecordDB)
      /\ InvitesNumbered(invites, next_invite_id)
  BY DEF IInv, FilesFit, FilesTyped
<1>2. PICK b, n, f, b2 : /\ b = InviteView(invites) /\ b2 = InviteView(f)
                         /\ n = next_invite_id /\ f = invites'
  OBVIOUS
<1>3. ASSUME NEW t \in Thread, IV_Append(t) PROVE Invitations!Next
  <2>1. /\ InviteFit(invites, pc[t], loc[t]) /\ ArgsFit(pc[t], loc[t])
        /\ pc[t] = "iv_append"
    BY <1>3, ThreadFacts DEF IV_Append
  <2>2. PICK g \in GroupId, u \in Name : g = loc[t].gid /\ u = loc[t].name
    BY <2>1 DEF ArgsFit, Serves
  <2>3. ~PendingInviteExists(invites, g, u)
    BY <2>1, <2>2 DEF InviteFit
  <2>4. PICK x, o : x = NewInvite(n, g, o, u) /\ f = Append(invites, x)
    BY <1>2, <1>3, <2>2 DEF IV_Append
  <2>5. Submitted(b, b2, g, u)
    BY <1>1, <1>2, <2>4, InviteViewAppended
  <2>6. ~Invitations!Waiting(b, g, u)
    <3>1. ShowsInvites(b, invites)
      BY <1>1, <1>2, InviteViewIs
    <3>2. QED
      BY <2>3, <3>1, SameBook
         DEF ShowsInvites, Invitations!Waiting, PendingInviteExists
  <2>7. Invitations!Submit(g, u)
    BY <1>2, <2>5, <2>6, SameBook DEF Submitted, Invitations!Submit, InviteView
  <2>8. QED BY <2>7 DEF Invitations!Next
<1>4. ASSUME NEW t \in Thread, DI_Write(t) PROVE Invitations!Next
  <2>1. /\ InviteFit(invites, pc[t], loc[t]) /\ ArgsFit(pc[t], loc[t])
        /\ pc[t] = "di_write"
    BY <1>4, ThreadFacts DEF DI_Write
  <2>2. PICK at \in DOMAIN invites, approve \in BOOLEAN, u \in Name :
          at = loc[t].pos /\ approve = loc[t].approve /\ u = loc[t].user
    BY <2>1 DEF ArgsFit, CallRecord, InviteFit
  <2>3. loc[t].entry = invites[at] /\ invites[at].status = Pending
    BY <2>1, <2>2 DEF InviteFit
  <2>4. PICK st : st = IF approve THEN Approved ELSE Rejected
    OBVIOUS
  <2>5. PICK e : e = [invites[at] EXCEPT !.status = st, !.reviewed_by = u]
    OBVIOUS
  <2>6. f = [invites EXCEPT ![at] = e]
    BY <1>2, <1>4, <2>2, <2>3, <2>4, <2>5 DEF DI_Write, Decided
  <2>7. /\ e.invite_id = invites[at].invite_id /\ e.group_id = invites[at].group_id
         /\ e.invitee = invites[at].invitee /\ e.status = st /\ e.reviewed_by = u
    <3>1. invites[at] \in GroupInviteRecordDB
      BY <1>1
    <3>2. QED BY <2>5, <3>1 DEF GroupInviteRecordDB
  <2>8. Settled(b, b2, at, st, u)
    BY <1>1, <1>2, <2>6, <2>7, InviteViewDecided
  <2>9. b2 = Invitations!Decide(b, at, approve, u)
    BY <2>4, <2>8, SameBook DEF Settled, Invitations!Decide
  <2>10. at \in DOMAIN b /\ b[at].status = Invitations!Pending
    <3>1. ShowsInvites(b, invites)
      BY <1>1, <1>2, InviteViewIs
    <3>2. QED BY <2>3, <3>1, SameBook DEF ShowsInvites
  <2>11. Invitations!DecideEntry(at, approve, u)
    BY <1>2, <2>9, <2>10 DEF Invitations!DecideEntry, InviteView
  <2>12. QED BY <1>2, <2>10, <2>11 DEF Invitations!Next, InviteView
<1>5. QED BY <1>3, <1>4, BooksChange

-----------------------------------------------------------------------------
(* Join requests are numbered without gap or repetition, one waits for     *)
(* each user and group, and each is decided once, under all interleavings  *)
(* and across crashes.                                                     *)
THEOREM RequestsAreKept == Spec => JoinRequestsAreABook
<1>1. ASSUME Init PROVE JoinRequests!Init
  <2>1. PICK r : r = requests /\ r = SeedRequests
    BY <1>1 DEF Init
  <2>2. r \in Seq(JoinRequestRecordDB) /\ RequestsNumbered(r, Len(r) + 1)
    BY <2>1, SeedAssumption, DirectoryAssumption DEF RequestsNumbered
  <2>3. PICK b : b = RequestView(r)
    OBVIOUS
  <2>4. b \in Seq(EntryRecord)
    BY <2>2, <2>3, RequestViewSeq
  <2>5. ShowsRequests(b, r)
    BY <2>2, <2>3, RequestViewIs
  <2>6. JoinRequests!NumberedInOrder(b) /\ JoinRequests!OneWaitingEach(b)
    <3>1. \A i \in DOMAIN r :
            /\ r[i].request_id = i
            /\ \A j \in DOMAIN r :
                 /\ r[i].status = Pending /\ r[j].status = Pending
                 /\ r[i].group_id = r[j].group_id /\ r[i].requester = r[j].requester
                 => i = j
      BY <2>1, DirectoryAssumption
    <3>2. QED
      BY <2>5, <3>1, SameBook
         DEF ShowsRequests, JoinRequests!NumberedInOrder, JoinRequests!OneWaitingEach
  <2>7. EntryRecord = JoinRequests!BookEntry
    BY SameBook DEF EntryRecord, JoinRequests!BookEntry, Status, JoinRequests!Status
  <2>8. QED
    BY <2>1, <2>3, <2>4, <2>6, <2>7 DEF JoinRequests!Init, RequestView
<1>2. Init => JoinRequests!Init
  BY <1>1
<1>3. IInv /\ [Next]_vars => [JoinRequests!Next]_(RequestView(requests))
  BY RequestBookStep
<1>4. QED
  BY Invariance, <1>2, <1>3, PTL
     DEF Spec, JoinRequestsAreABook, JoinRequests!Spec, RequestView

(* The same of the invitations. *)
THEOREM InvitationsAreKept == Spec => InvitationsAreABook
<1>1. ASSUME Init PROVE Invitations!Init
  <2>1. PICK r : r = invites /\ r = SeedInvites
    BY <1>1 DEF Init
  <2>2. r \in Seq(GroupInviteRecordDB) /\ InvitesNumbered(r, Len(r) + 1)
    BY <2>1, SeedAssumption, DirectoryAssumption DEF InvitesNumbered
  <2>3. PICK b : b = InviteView(r)
    OBVIOUS
  <2>4. b \in Seq(EntryRecord)
    BY <2>2, <2>3, InviteViewSeq
  <2>5. ShowsInvites(b, r)
    BY <2>2, <2>3, InviteViewIs
  <2>6. Invitations!NumberedInOrder(b) /\ Invitations!OneWaitingEach(b)
    <3>1. \A i \in DOMAIN r :
            /\ r[i].invite_id = i
            /\ \A j \in DOMAIN r :
                 /\ r[i].status = Pending /\ r[j].status = Pending
                 /\ r[i].group_id = r[j].group_id /\ r[i].invitee = r[j].invitee
                 => i = j
      BY <2>1, DirectoryAssumption
    <3>2. QED
      BY <2>5, <3>1, SameBook
         DEF ShowsInvites, Invitations!NumberedInOrder, Invitations!OneWaitingEach
  <2>7. EntryRecord = Invitations!BookEntry
    BY SameBook DEF EntryRecord, Invitations!BookEntry, Status, Invitations!Status
  <2>8. QED
    BY <2>1, <2>3, <2>4, <2>6, <2>7 DEF Invitations!Init, InviteView
<1>2. Init => Invitations!Init
  BY <1>1
<1>3. IInv /\ [Next]_vars => [Invitations!Next]_(InviteView(invites))
  BY InviteBookStep
<1>4. QED
  BY Invariance, <1>2, <1>3, PTL
     DEF Spec, InvitationsAreABook, Invitations!Spec, InviteView
=============================================================================
