--------------------------- MODULE SessionsProofs ---------------------------
(***************************************************************************)
(* Theorems about Sessions, for any number of clients, slots, descriptors  *)
(* and accounts, and any number of requests, disconnections and crashes.   *)
(***************************************************************************)
EXTENDS Sessions, FileLemmas

-----------------------------------------------------------------------------
(* The inductive invariant.  Slots, threads and descriptors are owned one  *)
(* by one; a thread's request is of the kind its label is about; a login   *)
(* under way still agrees with users.dat; and each client and the thread   *)
(* that serves it are at the same point of one conversation.               *)

(* The request of a thread inside a handler. *)
RequestOK(i) ==
  /\ pc[i] \in {"reg_scan", "reg_append"} =>
       loc[i].req \in AuthRequest /\ loc[i].req.command = "register"
  /\ pc[i] \in {"login_scan", "login_write", "login_set"} =>
       loc[i].req \in AuthRequest /\ loc[i].req.command = "login"
  /\ pc[i] = "group" => loc[i].req = GroupCmd

(* What a reply to client c says of the accounts and of the name it shows. *)
ReplyOK(c, r) ==
  /\ r.to = cl[c].asked.command
  /\ r.to = "group" => r.status = "success" /\ r.user = cl[c].current_user
  /\ r.to = "register" /\ r.status = "success" =>
       user_exists(users, cl[c].asked.username)

(* A client by itself, and before the server knows it. *)
ClientOK(c) ==
  /\ cl[c].pc = "wait" => cl[c].asked \in Offered(c)
  /\ cl[c].pc \in {"start", "gone"} => cl[c].session_id = 0
  /\ cl[c].pc = "start" <=> link[c] = "none"
  /\ link[c] = "none" => inbox[c] = <<>>
  /\ link[c] \in {"none", "queued"} => cl[c].session_id = 0 /\ outbox[c] = <<>>
  /\ link[c] = "queued" /\ cl[c].pc = "menu" => inbox[c] = <<>>
  /\ link[c] = "queued" /\ cl[c].pc = "wait" => inbox[c] = <<cl[c].asked>>
  /\ outbox[c] # <<>> =>
       cl[c].pc = "wait" /\ \E r \in ReplyMessage : outbox[c] = <<r>> /\ ReplyOK(c, r)

(* The slot of a client that shows a name. *)
Same(i, c) ==
  cl[c].session_id # 0 =>
    /\ clients[i].is_logged_in
    /\ clients[i].username = cl[c].current_user
    /\ clients[i].session_id = cl[c].session_id

(* A login that was answered with success took place in the slot. *)
LoggedIn(i, c, r) ==
  r.to = "login" /\ r.status = "success" =>
    clients[i].is_logged_in /\ clients[i].username = cl[c].asked.username

(* Where the conversation of a client and its thread can be. *)
Idle(i, c)  == cl[c].pc = "menu" /\ pc[i] = "recv" /\ inbox[c] = <<>> /\ outbox[c] = <<>>
Asked(i, c) == /\ cl[c].pc = "wait" /\ pc[i] = "recv"
               /\ inbox[c] = <<cl[c].asked>> /\ outbox[c] = <<>>
Working(i, c) == /\ cl[c].pc = "wait" /\ pc[i] \notin {"none", "recv", "cleanup"}
                 /\ inbox[c] = <<>> /\ outbox[c] = <<>>
                 /\ loc[i].req = cl[c].asked
                 /\ pc[i] = "reply" => /\ ReplyOK(c, loc[i].reply)
                                       /\ LoggedIn(i, c, loc[i].reply)
Answered(i, c) == /\ cl[c].pc = "wait" /\ pc[i] = "recv" /\ inbox[c] = <<>>
                  /\ \E r \in ReplyMessage : /\ outbox[c] = <<r>>
                                             /\ LoggedIn(i, c, r)
                                             /\ r.session_id = clients[i].session_id
LoggedOut(i, c) == /\ cl[c].session_id = 0 /\ outbox[c] = <<>>
                   /\ \/ pc[i] = "cleanup"
                      \/ pc[i] = "recv" /\ inbox[c] # <<>> /\ Head(inbox[c]) = Logout

Conversation(i, c) ==
  \/ cl[c].pc = "gone"
  \/ LoggedOut(i, c)
  \/ Same(i, c) /\ (Idle(i, c) \/ Asked(i, c) \/ Working(i, c) \/ Answered(i, c))

IInv ==
  /\ TypeOK
  /\ SocketsAreOwned
  /\ LoginStillValid
  /\ \A i \in Slot : RequestOK(i)
  /\ \A c \in Client : ClientOK(c)
  /\ \A i \in Slot : pc[i] # "none" => Conversation(i, Peer(i))

-----------------------------------------------------------------------------
(* users.dat: what the scan finds, and what an append does to it. *)
LEMMA UserFound ==
  ASSUME NEW f \in Seq(UserRecord), NEW n
  PROVE  \/ /\ UserAt(f, n) = 0
            /\ \A k \in DOMAIN f : f[k].username # n
         \/ /\ UserAt(f, n) \in DOMAIN f
            /\ f[UserAt(f, n)].username = n
            /\ \A k \in DOMAIN f : k < UserAt(f, n) => f[k].username # n
<1> DEFINE I == {k \in 1..Len(f) : f[k].username = n}
<1>1. UserAt(f, n) = IF I # {} THEN Min(I) ELSE 0
  BY DEF UserAt, SelectInSeq
<1>2. I \in SUBSET Nat /\ DOMAIN f = 1..Len(f)
  OBVIOUS
<1>3. CASE I = {}
  BY <1>1, <1>2, <1>3
<1>4. CASE I # {}
  <2>1. Min(I) \in I /\ \A k \in I : Min(I) <= k
    <3> HIDE DEF I
    <3> QED BY <1>2, <1>4, MinNat
  <2>2. \A k \in DOMAIN f : k < Min(I) => f[k].username # n
    BY <1>2, <2>1
  <2>3. QED BY <1>1, <1>2, <1>4, <2>1, <2>2
<1>5. QED BY <1>3, <1>4

(* The first record with a name is the one the scan finds. *)
LEMMA UserAtFirst ==
  ASSUME NEW f \in Seq(UserRecord), NEW n, NEW k \in DOMAIN f,
         f[k].username = n, \A j \in DOMAIN f : j < k => f[j].username # n
  PROVE  UserAt(f, n) = k /\ user_exists(f, n)
<1>1. k \in Nat /\ k # 0
  OBVIOUS
<1>2. /\ UserAt(f, n) \in DOMAIN f
      /\ f[UserAt(f, n)].username = n
      /\ \A j \in DOMAIN f : j < UserAt(f, n) => f[j].username # n
  BY UserFound
<1>3. PICK a \in Nat : a = UserAt(f, n)
  BY <1>2
<1>4. ~(a < k) /\ ~(k < a)
  BY <1>2, <1>3
<1>5. a = k
  BY <1>1, <1>4
<1>6. QED BY <1>1, <1>3, <1>5 DEF user_exists

(* Every account stays where it is. *)
AccountsKept(f, g) ==
  \A n : user_exists(f, n) => /\ user_exists(g, n)
                              /\ UserAt(g, n) = UserAt(f, n)
                              /\ g[UserAt(g, n)] = f[UserAt(f, n)]

(* An account is opened: its record is what a scan for its name finds now. *)
AccountOpened(f, r, g) ==
  /\ \A n : ~user_exists(f, n) /\ n # r.username => ~user_exists(g, n)
  /\ ~user_exists(f, r.username) => g[UserAt(g, r.username)] = r
  /\ user_exists(g, r.username)

(* A registration leaves the record of every name that has one in place,   *)
(* A name in no record is not found. *)
LEMMA NotFound ==
  \A f \in Seq(UserRecord) : \A n :
    (\A k \in DOMAIN f : f[k].username # n) => ~user_exists(f, n)
BY UserFound DEF user_exists

(* and opens an account for its own name if there is none.                 *)
LEMMA UserAppended ==
  ASSUME NEW f \in Seq(UserRecord), NEW r \in UserRecord,
         NEW g, g = Append(f, r)
  PROVE  /\ g \in Seq(UserRecord)
         /\ AccountsKept(f, g) /\ AccountOpened(f, r, g)
<1>1. /\ g \in Seq(UserRecord) /\ Len(f) \in Nat /\ Len(g) = Len(f) + 1
      /\ DOMAIN f = 1..Len(f) /\ DOMAIN g = 1..(Len(f) + 1)
      /\ \A k \in DOMAIN f : g[k] = f[k]
      /\ g[Len(f) + 1] = r
  OBVIOUS
<1>2. \A k \in DOMAIN g : k \in DOMAIN f \/ k = Len(f) + 1
  BY <1>1
<1>3. ASSUME NEW n, user_exists(f, n)
      PROVE  /\ user_exists(g, n) /\ UserAt(g, n) = UserAt(f, n)
             /\ g[UserAt(g, n)] = f[UserAt(f, n)]
  <2>1. PICK k \in DOMAIN f : /\ k = UserAt(f, n) /\ f[k].username = n
                              /\ \A j \in DOMAIN f : j < k => f[j].username # n
    BY <1>3, UserFound DEF user_exists
  <2>2. k \in DOMAIN g /\ g[k] = f[k] /\ g[k].username = n
    BY <1>1, <2>1
  <2>3. \A j \in DOMAIN g : j < k => g[j].username # n
    BY <1>1, <1>2, <2>1
  <2>4. UserAt(g, n) = k /\ user_exists(g, n)
    BY <1>1, <2>2, <2>3, UserAtFirst
  <2>5. QED BY <2>1, <2>2, <2>4
<1>4. ASSUME NEW n, ~user_exists(f, n), n # r.username
      PROVE  ~user_exists(g, n)
  <2>1. \A k \in DOMAIN f : f[k].username # n
    BY <1>4, UserFound DEF user_exists
  <2>2. \A k \in DOMAIN g : g[k].username # n
    BY <1>1, <1>2, <1>4, <2>1
  <2>3. QED BY <1>1, <2>2, NotFound, Zenon
<1>5. ASSUME ~user_exists(f, r.username)
      PROVE  user_exists(g, r.username) /\ g[UserAt(g, r.username)] = r
  <2>1. \A k \in DOMAIN f : f[k].username # r.username
    BY <1>5, UserFound DEF user_exists
  <2>2. Len(f) + 1 \in DOMAIN g /\ g[Len(f) + 1].username = r.username
    BY <1>1
  <2>3. \A j \in DOMAIN g : j < Len(f) + 1 => g[j].username # r.username
    BY <1>1, <1>2, <2>1
  <2>4. UserAt(g, r.username) = Len(f) + 1 /\ user_exists(g, r.username)
    BY <1>1, <2>2, <2>3, UserAtFirst
  <2>5. QED BY <1>1, <2>4
<1>6. user_exists(g, r.username)
  BY <1>3, <1>5
<1>7. QED BY <1>1, <1>3, <1>4, <1>5, <1>6 DEF AccountsKept, AccountOpened

-----------------------------------------------------------------------------
(* The types. *)
LEMMA MessageKinds ==
  /\ AuthRequest \subseteq Message /\ GroupCmd \in Message /\ Logout \in Message
  /\ Truncated \in Message
  /\ \A m \in AuthRequest : /\ m.command \in AuthCommand
                            /\ m.username \in Name /\ m.password \in Password
  /\ \A m \in Message : \/ m \in AuthRequest
                        \/ m = GroupCmd \/ m = Logout \/ m = Truncated
  /\ GroupCmd.command = "group" /\ Logout.command = "logout"
  /\ Truncated.command = "truncated"
BY DEF AuthRequest, Message, GroupCmd, Logout, Truncated, AuthCommand

LEMMA DispatchKinds ==
  ASSUME NEW m \in Message
  PROVE  /\ Dispatch[m.command] \in Labels
         /\ Dispatch[m.command] = "reg_scan" =>
              m \in AuthRequest /\ m.command = "register"
         /\ Dispatch[m.command] = "login_scan" =>
              m \in AuthRequest /\ m.command = "login"
         /\ Dispatch[m.command] = "group" => m = GroupCmd
         /\ Dispatch[m.command] \in {"reg_scan", "login_scan", "group", "cleanup"}
         /\ m # Logout /\ m # Truncated => Dispatch[m.command] # "cleanup"
         /\ m = Logout => Dispatch[m.command] = "cleanup"
<1>1. CASE m \in AuthRequest
  <2>1. m.command \in {"register", "login"} /\ m # Logout /\ m # Truncated
    BY <1>1, MessageKinds DEF AuthCommand
  <2>2. QED BY <1>1, <2>1 DEF Dispatch, Labels
<1>2. CASE m = GroupCmd
  BY <1>2 DEF GroupCmd, Dispatch, Labels, Logout, Truncated
<1>3. CASE m = Logout
  BY <1>3 DEF Logout, Dispatch, Labels, Truncated
<1>4. CASE m = Truncated
  BY <1>4 DEF Truncated, Dispatch, Labels, Logout
<1>5. QED BY <1>1, <1>2, <1>3, <1>4, MessageKinds

LEMMA NewUserType ==
  ASSUME NEW n \in Name, NEW p \in Password
  PROVE  NewUser(n, p) \in UserRecord
BY DEF NewUser, UserRecord, Hash

-----------------------------------------------------------------------------
(* What a step can count on. *)

(* The fields of a client and of a slot. *)
LEMMA FieldTypes ==
  ASSUME TypeOK
  PROVE  /\ \A c \in Client :
              /\ cl[c].session_id \in SessionId
              /\ cl[c].current_user \in Name \cup {NoName}
              /\ cl[c].asked \in AuthRequest \cup {GroupCmd, NoRequest}
         /\ \A i \in Slot :
              /\ clients[i].sockfd \in Descriptor \cup {-1}
              /\ clients[i].session_id \in SessionId
              /\ clients[i].username \in Name \cup {NoName}
              /\ clients[i].is_logged_in \in BOOLEAN
<1>1. \A c \in Client : cl[c] \in ClientGlobals
  BY DEF TypeOK
<1>2. \A i \in Slot : clients[i] \in ClientInfo
  BY DEF TypeOK
<1>3. QED BY <1>1, <1>2 DEF ClientGlobals, ClientInfo

(* A slot with a thread: its descriptor, its client. *)
LEMMA ServedSlot ==
  ASSUME TypeOK, SocketsAreOwned, NEW i \in Slot, pc[i] # "none"
  PROVE  /\ clients[i].sockfd \in Descriptor
         /\ Peer(i) \in Client /\ link[Peer(i)] = "accepted"
         /\ Peer(i) = sockets[clients[i].sockfd]
<1>1. clients[i].sockfd \in Descriptor \cup {-1}
  BY FieldTypes
<1>2. QED BY <1>1 DEF SocketsAreOwned, Peer

(* The slot and the descriptor a new connection gets are free. *)
LEMMA FirstFree ==
  ASSUME TypeOK, FreeSlots # {}, FreeDescriptors # {}
  PROVE  /\ Min(FreeSlots) \in Slot /\ clients[Min(FreeSlots)].sockfd = -1
         /\ Min(FreeDescriptors) \in Descriptor
         /\ sockets[Min(FreeDescriptors)] = Nobody
<1>1. FreeSlots \in SUBSET Nat /\ FreeDescriptors \in SUBSET Nat
  <2>1. Slot \subseteq Nat
    BY SlotAssumption DEF Slot
  <2>2. QED BY <2>1, DescriptorAssumption DEF FreeSlots, FreeDescriptors
<1>2. Min(FreeSlots) \in FreeSlots /\ Min(FreeDescriptors) \in FreeDescriptors
  BY <1>1, MinNat
<1>3. QED BY <1>2 DEF FreeSlots, FreeDescriptors

LEMMA FirstFreeSlot ==
  ASSUME TypeOK, FreeSlots # {}
  PROVE  Min(FreeSlots) \in Slot /\ clients[Min(FreeSlots)].sockfd = -1
<1>1. FreeSlots \in SUBSET Nat
  BY SlotAssumption DEF FreeSlots, Slot
<1>2. Min(FreeSlots) \in FreeSlots
  BY <1>1, MinNat
<1>3. QED BY <1>2 DEF FreeSlots

LEMMA NextId == ASSUME next_session_id \in SessionId
                PROVE  (next_session_id + 1) % SessionSpace \in SessionId
<1>1. PICK a \in Nat, n \in Nat : a = next_session_id /\ n = SessionSpace /\ n > 1
  BY SessionAssumption DEF SessionId
<1>2. (a + 1) % n \in 0..(n - 1)
  BY <1>1
<1>3. QED BY <1>1, <1>2 DEF SessionId

(* A step of a thread. *)
StepOf(i) ==
  \/ Receive(i) \/ Disconnected(i)
  \/ RegScan(i) \/ RegAppend(i)
  \/ LoginScan(i) \/ LoginWrite(i) \/ LoginSet(i)
  \/ OpenFails(i) \/ Group(i) \/ SendReply(i) \/ Cleanup(i)

(* Writing a record back after a login changes nothing a scan looks at. *)
LEMMA LoginWriteChangesNothing ==
  ASSUME IInv, NEW i \in Slot, LoginWrite(i)
  PROVE  users' = users
<1>1. /\ users \in Seq(UserRecord) /\ pc[i] = "login_write"
      /\ Authentic(users, loc[i].req.username, loc[i].req.password)
      /\ loc[i].at = UserAt(users, loc[i].req.username)
  BY DEF IInv, TypeOK, LoginStillValid, LoginWrite
<1>2. PICK at : at = loc[i].at
  OBVIOUS
<1>3. PICK n, h : n = loc[i].req.username /\ h = hash_password(loc[i].req.password)
  OBVIOUS
<1>4. at \in DOMAIN users /\ users[at].username = n /\ users[at].password_hash = h
  BY <1>1, <1>2, <1>3, UserFound DEF Authentic, user_exists
<1>5. users[at] \in [username : Name, password_hash : Hash]
  <2>1. users[at] \in UserRecord
    BY <1>1, <1>4
  <2>2. QED BY <2>1 DEF UserRecord
<1>6. users[at] = [username |-> n, password_hash |-> h]
  BY <1>4, <1>5
<1>7. users' = [users EXCEPT ![at] = [username |-> n, password_hash |-> h]]
  BY <1>2, <1>3 DEF LoginWrite, NewUser
<1>8. QED BY <1>1, <1>4, <1>6, <1>7

-----------------------------------------------------------------------------
(* Types are kept. *)
LEMMA ClientTypes ==
  ASSUME TypeOK, NEW c \in Client,
         NEW at \in {"start", "menu", "wait", "gone"}, NEW sid \in SessionId,
         NEW u \in Name \cup {NoName}
  PROVE  cl' = [cl EXCEPT ![c] = Running(at, sid, u, NoRequest)]
           => cl' \in [Client -> ClientGlobals]
<1>1. Running(at, sid, u, NoRequest) \in ClientGlobals
  BY DEF Running, ClientGlobals
<1>2. QED BY <1>1 DEF TypeOK

(* The step to the label "reply", with the command that is answered. *)
LEMMA FinishTypes ==
  ASSUME TypeOK, NEW i \in Slot,
         loc[i].req.command \in {"register", "login", "group"},
         NEW status \in {"success", "error", "auth_required"},
         NEW u \in Name \cup {NoName}, Finish(i, status, u)
  PROVE  pc' \in [Slot -> Labels] /\ loc' \in [Slot -> Locals]
<1>1. Reply(loc[i].req.command, status, u) \in ReplyTo
  BY DEF Reply, ReplyTo, AuthCommand
<1>2. loc \in [Slot -> Locals] /\ pc \in [Slot -> Labels]
  BY DEF TypeOK
<1>3. loc[i] \in Locals
  BY <1>2
<1>4. [loc[i] EXCEPT !.reply = Reply(loc[i].req.command, status, u)] \in Locals
  BY <1>1, <1>3 DEF Locals
<1>5. loc' = [loc EXCEPT ![i] =
                [loc[i] EXCEPT !.reply = Reply(loc[i].req.command, status, u)]]
  BY <1>2 DEF Finish
<1>6. pc' \in [Slot -> Labels]
  BY <1>2 DEF Finish, Goto, Labels
<1>7. QED BY <1>2, <1>4, <1>5, <1>6

(* The request a handler works on. *)
LEMMA RequestTypes ==
  ASSUME NEW i \in Slot, RequestOK(i)
  PROVE  /\ pc[i] \in {"reg_scan", "reg_append"} =>
              /\ loc[i].req.command = "register"
              /\ loc[i].req.username \in Name /\ loc[i].req.password \in Password
         /\ pc[i] \in {"login_scan", "login_write", "login_set"} =>
              /\ loc[i].req.command = "login"
              /\ loc[i].req.username \in Name /\ loc[i].req.password \in Password
         /\ pc[i] = "group" => loc[i].req.command = "group"
BY MessageKinds DEF RequestOK

LEMMA GotoType ==
  ASSUME TypeOK, NEW i \in Slot, NEW label \in Labels, Goto(i, label)
  PROVE  pc' \in [Slot -> Labels]
BY DEF Goto, TypeOK

LEMMA LocalsReset ==
  ASSUME TypeOK, NEW i \in Slot, loc' = [loc EXCEPT ![i] = NoLocals]
  PROVE  loc' \in [Slot -> Locals]
<1>1. NoLocals \in Locals
  BY DEF Locals, NoLocals, NoReply, Reply, ReplyTo
<1>2. QED BY <1>1 DEF TypeOK

LEMMA TypeStep == IInv /\ [Next]_vars => TypeOK'
<1>1. SUFFICES ASSUME IInv, [Next]_vars PROVE TypeOK'
  OBVIOUS
<1>2. TypeOK /\ SocketsAreOwned
  BY <1>1 DEF IInv
<1>3. 0 \in SessionId /\ 1 \in SessionId
  BY SessionAssumption DEF SessionId
<1>4. CASE UNCHANGED vars
  BY <1>2, <1>4 DEF TypeOK, vars, serverVars
<1>5. ASSUME NEW c \in Client, Connect(c) PROVE TypeOK'
  <2>1. cl' = [cl EXCEPT ![c] = Running("menu", 0, NoName, NoRequest)]
    BY <1>5 DEF Connect, AtMenu
  <2>2. link' \in [Client -> {"none", "queued", "accepted", "closed"}]
    BY <1>2, <1>5 DEF TypeOK, Connect
  <2>3. cl' \in [Client -> ClientGlobals]
    BY <1>2, <1>3, <2>1, ClientTypes
  <2>4. QED BY <1>2, <1>5, <2>2, <2>3 DEF TypeOK, Connect, serverVars
<1>6. ASSUME NEW c \in Client, NEW m \in Message, Deliver(c, m)
      PROVE  inbox' \in [Client -> Seq(Message)]
  BY <1>2, <1>6 DEF TypeOK, Deliver
<1>7. ASSUME NEW c \in Client, Ask(c) PROVE TypeOK'
  <2>1. PICK m \in Offered(c) : /\ cl' = [cl EXCEPT ![c].pc = "wait", ![c].asked = m]
                                /\ Deliver(c, m)
    BY <1>7 DEF Ask
  <2>2. m \in AuthRequest \cup {GroupCmd}
    BY <2>1 DEF Offered
  <2>3. inbox' \in [Client -> Seq(Message)]
    BY <1>6, <2>1, <2>2, MessageKinds
  <2>4. cl' \in [Client -> ClientGlobals]
    <3>1. cl[c] \in ClientGlobals /\ cl \in [Client -> ClientGlobals]
      BY <1>2 DEF TypeOK
    <3>2. [cl[c] EXCEPT !.pc = "wait", !.asked = m] \in ClientGlobals
      BY <2>2, <3>1 DEF ClientGlobals
    <3>3. cl' = [cl EXCEPT ![c] = [cl[c] EXCEPT !.pc = "wait", !.asked = m]]
      BY <2>1, <3>1
    <3>4. QED BY <3>1, <3>2, <3>3
  <2>5. asks' \in Nat
    BY <1>2, <1>7 DEF Ask, TypeOK
  <2>6. QED BY <1>2, <1>7, <2>3, <2>4, <2>5 DEF TypeOK, Ask, serverVars
<1>8. ASSUME NEW c \in Client, DoLogout(c) PROVE TypeOK'
  <2>1. inbox' \in [Client -> Seq(Message)]
    BY <1>6, <1>8, MessageKinds DEF DoLogout
  <2>2. cl' = [cl EXCEPT ![c] = Running("menu", 0, NoName, NoRequest)]
    BY <1>8 DEF DoLogout, AtMenu
  <2>3. QED BY <1>2, <1>3, <1>8, <2>1, <2>2, ClientTypes DEF TypeOK, DoLogout, serverVars
<1>9. ASSUME NEW c \in Client, ReadReply(c) PROVE TypeOK'
  <2>1. outbox[c] \in Seq(ReplyMessage) /\ outbox[c] # <<>>
    BY <1>2, <1>9 DEF TypeOK, ReadReply
  <2>2. PICK r : r = Head(outbox[c])
    OBVIOUS
  <2>3. r \in ReplyMessage
    BY <2>1, <2>2
  <2>4. r.session_id \in SessionId
    BY <2>3 DEF ReplyMessage
  <2>5. outbox' \in [Client -> Seq(ReplyMessage)]
    BY <1>2, <1>9, <2>1 DEF TypeOK, ReadReply
  <2>6. cl' \in [Client -> ClientGlobals]
    <3>1. CASE cl[c].asked.command = "login" /\ r.status = "success"
      <4>1. cl' = [cl EXCEPT ![c] = Running("menu", r.session_id, cl[c].asked.username,
                                            NoRequest)]
        BY <1>9, <2>2, <3>1 DEF ReadReply, AtMenu
      <4>2. cl[c].asked \in AuthRequest \cup {GroupCmd, NoRequest}
        BY <1>2, FieldTypes
      <4>3. cl[c].asked \in AuthRequest
        BY <3>1, <4>2 DEF GroupCmd, NoRequest
      <4>4. cl[c].asked.username \in Name
        BY <4>3, MessageKinds
      <4>5. QED BY <1>2, <2>4, <4>1, <4>4, ClientTypes
    <3>2. CASE ~(cl[c].asked.command = "login" /\ r.status = "success")
      <4>1. cl' = [cl EXCEPT ![c] = Running("menu", cl[c].session_id, cl[c].current_user,
                                            NoRequest)]
        BY <1>9, <2>2, <3>2 DEF ReadReply, AtMenu
      <4>2. cl[c].session_id \in SessionId /\ cl[c].current_user \in Name \cup {NoName}
        BY <1>2, FieldTypes
      <4>3. QED BY <1>2, <4>1, <4>2, ClientTypes
    <3>3. QED BY <3>1, <3>2
  <2>7. QED BY <1>2, <1>9, <2>5, <2>6 DEF TypeOK, ReadReply, serverVars
<1>10. ASSUME NEW c \in Client, ReadFails(c) PROVE TypeOK'
  <2>1. cl' = [cl EXCEPT ![c] = Running("menu", cl[c].session_id, cl[c].current_user,
                                        NoRequest)]
    BY <1>10 DEF ReadFails, AtMenu
  <2>2. cl[c].session_id \in SessionId /\ cl[c].current_user \in Name \cup {NoName}
    BY <1>2, FieldTypes
  <2>3. QED BY <1>2, <1>10, <2>1, <2>2, ClientTypes DEF TypeOK, ReadFails, serverVars
<1>11. ASSUME NEW c \in Client, Quit(c) PROVE TypeOK'
  <2>1. cl' = [cl EXCEPT ![c] = Running("gone", 0, NoName, NoRequest)]
    BY <1>11 DEF Quit, NotRunning
  <2>2. inbox' \in [Client -> Seq(Message)]
    <3>1. Truncated \in Message /\ inbox \in [Client -> Seq(Message)]
      BY <1>2, MessageKinds DEF TypeOK
    <3>2. CASE UNCHANGED inbox
      BY <3>1, <3>2
    <3>3. CASE inbox' = [inbox EXCEPT ![c] = Append(@, Truncated)]
      BY <3>1, <3>3
    <3>4. QED BY <1>11, <3>2, <3>3 DEF Quit
  <2>3. outbox' \in [Client -> Seq(ReplyMessage)]
    BY <1>2, <1>11 DEF TypeOK, Quit
  <2>4. QED
    BY <1>2, <1>3, <1>11, <2>1, <2>2, <2>3, ClientTypes DEF TypeOK, Quit, serverVars
<1>12. ASSUME NEW C, Hangup(C)
       PROVE  /\ link' \in [Client -> {"none", "queued", "accepted", "closed"}]
              /\ inbox' \in [Client -> Seq(Message)]
  BY <1>2, <1>12 DEF TypeOK, Hangup
<1>13. ASSUME NEW c \in Client, Accept(c) PROVE TypeOK'
  <2>1. PICK i \in Slot, d \in Descriptor :
          /\ add_client(i, d)
          /\ sockets' = [sockets EXCEPT ![d] = c]
          /\ pc' = [pc EXCEPT ![i] = "recv"]
    BY <1>2, <1>13, FirstFree DEF Accept
  <2>2. link' \in [Client -> {"none", "queued", "accepted", "closed"}]
    BY <1>2, <1>13 DEF TypeOK, Accept
  <2>3. next_session_id' \in SessionId
    BY <1>2, <2>1, NextId DEF TypeOK, add_client
  <2>4. sockets' \in [Descriptor -> Client \cup {Nobody}] /\ pc' \in [Slot -> Labels]
    BY <1>2, <2>1 DEF TypeOK, Labels
  <2>5. clients' \in [Slot -> ClientInfo]
    <3>1. clients[i] \in ClientInfo /\ clients \in [Slot -> ClientInfo]
      BY <1>2 DEF TypeOK
    <3>2. next_session_id \in SessionId
      BY <1>2 DEF TypeOK
    <3>3. [clients[i] EXCEPT !.sockfd = d, !.session_id = next_session_id,
                             !.is_logged_in = FALSE] \in ClientInfo
      BY <3>1, <3>2 DEF ClientInfo
    <3>4. clients' = [clients EXCEPT ![i] =
                        [clients[i] EXCEPT !.sockfd = d, !.session_id = next_session_id,
                                           !.is_logged_in = FALSE]]
      BY <2>1, <3>1 DEF add_client
    <3>5. QED BY <3>1, <3>3, <3>4
  <2>6. QED BY <1>2, <1>13, <2>2, <2>3, <2>4, <2>5 DEF TypeOK, Accept
<1>14. ASSUME NEW c \in Client, Reject(c) PROVE TypeOK'
  <2>1. /\ next_session_id' \in SessionId
        /\ clients' \in [Slot -> ClientInfo]
    <3>1. CASE UNCHANGED <<clients, next_session_id>>
      BY <1>2, <3>1 DEF TypeOK
    <3>2. CASE /\ FreeSlots # {}
               /\ clients' = [clients EXCEPT ![Min(FreeSlots)].session_id = next_session_id]
               /\ next_session_id' = (next_session_id + 1) % SessionSpace
      <4>1. next_session_id \in SessionId /\ clients \in [Slot -> ClientInfo]
        BY <1>2 DEF TypeOK
      <4>2. clients' \in [Slot -> ClientInfo]
        BY <3>2, <4>1 DEF ClientInfo
      <4>3. QED BY <3>2, <4>1, <4>2, NextId
    <3>3. QED BY <1>14, <3>1, <3>2 DEF Reject
  <2>2. QED BY <1>2, <1>12, <1>14, <2>1 DEF TypeOK, Reject
<1>15. ASSUME Crash PROVE TypeOK'
  <2>1. clients' \in [Slot -> ClientInfo]
    BY <1>3, <1>15 DEF Crash, ClientInfo
  <2>2. loc' \in [Slot -> Locals]
    BY <1>15 DEF Crash, Locals, NoLocals, NoReply, Reply, ReplyTo
  <2>3. /\ sockets' \in [Descriptor -> Client \cup {Nobody}] /\ pc' \in [Slot -> Labels]
        /\ crashes' \in Nat
    BY <1>2, <1>15 DEF Crash, Labels, TypeOK
  <2>4. QED BY <1>2, <1>3, <1>12, <1>15, <2>1, <2>2, <2>3 DEF TypeOK, Crash
<1>16. ASSUME NEW i \in Slot, Step(i) PROVE TypeOK'
  <2>1. UNCHANGED <<cl, asks, crashes>>
    BY <1>16 DEF Step, Receive, Disconnected, RegScan, OpenFails, RegAppend, LoginScan,
                 LoginWrite, LoginSet, Group, SendReply, Cleanup
  <2>2. RequestOK(i)
    BY <1>1 DEF IInv
  <2>3. /\ pc \in [Slot -> Labels] /\ loc \in [Slot -> Locals]
        /\ clients \in [Slot -> ClientInfo] /\ users \in Seq(UserRecord)
        /\ inbox \in [Client -> Seq(Message)]
        /\ outbox \in [Client -> Seq(ReplyMessage)]
    BY <1>2 DEF TypeOK
  <2>4. CASE Receive(i)
    <3>1. Peer(i) \in Client /\ inbox[Peer(i)] # <<>>
      BY <1>2, <2>4, ServedSlot DEF Receive
    <3>2. PICK m \in Message :
            /\ Goto(i, Dispatch[m.command]) /\ loc' = [loc EXCEPT ![i].req = m]
      <4>1. PICK c \in Client : c = Peer(i)
        BY <3>1
      <4>2. inbox[c] \in Seq(Message) /\ inbox[c] # <<>>
        BY <2>3, <3>1, <4>1
      <4>3. Head(inbox[c]) \in Message
        BY <4>2
      <4>4. QED BY <2>4, <4>1, <4>3 DEF Receive
    <3>3. pc' \in [Slot -> Labels]
      BY <1>2, <3>2, DispatchKinds, GotoType
    <3>4. loc' \in [Slot -> Locals]
      BY <2>3, <3>2 DEF Locals
    <3>5. inbox' \in [Client -> Seq(Message)]
      BY <2>3, <2>4, <3>1 DEF Receive
    <3>6. QED BY <1>2, <2>1, <2>4, <3>3, <3>4, <3>5 DEF TypeOK, Receive
  <2>5. CASE Disconnected(i)
    <3>1. pc' \in [Slot -> Labels]
      BY <1>2, <2>5, GotoType DEF Disconnected, Labels
    <3>2. QED BY <1>2, <2>1, <2>5, <3>1 DEF TypeOK, Disconnected
  <2>6. CASE RegScan(i)
    <3>1. pc' \in [Slot -> Labels] /\ loc' \in [Slot -> Locals]
      <4>1. CASE user_exists(users, loc[i].req.username)
        BY <1>2, <2>2, <2>6, <4>1, FinishTypes, RequestTypes DEF RegScan
      <4>2. CASE ~user_exists(users, loc[i].req.username)
        BY <1>2, <2>3, <2>6, <4>2, GotoType DEF RegScan, Labels
      <4>3. QED BY <4>1, <4>2
    <3>2. QED BY <1>2, <2>1, <2>6, <3>1 DEF TypeOK, RegScan
  <2>7. CASE RegAppend(i)
    <3>1. pc' \in [Slot -> Labels] /\ loc' \in [Slot -> Locals]
      BY <1>2, <2>2, <2>7, FinishTypes, RequestTypes DEF RegAppend
    <3>2. users' \in Seq(UserRecord)
      BY <2>2, <2>3, <2>7, RequestTypes, NewUserType DEF RegAppend
    <3>3. QED BY <1>2, <2>1, <2>7, <3>1, <3>2 DEF TypeOK, RegAppend
  <2>8. CASE LoginScan(i)
    <3>1. pc' \in [Slot -> Labels] /\ loc' \in [Slot -> Locals]
      <4>1. CASE Authentic(users, loc[i].req.username, loc[i].req.password)
        <5>1. UserAt(users, loc[i].req.username) \in Nat
          BY <2>3, UserFound
        <5>2. loc' = [loc EXCEPT ![i].at = UserAt(users, loc[i].req.username)]
          BY <2>8, <4>1 DEF LoginScan
        <5>3. loc' \in [Slot -> Locals]
          BY <2>3, <5>1, <5>2 DEF Locals
        <5>4. pc' \in [Slot -> Labels]
          BY <1>2, <2>8, <4>1, GotoType DEF LoginScan, Labels
        <5>5. QED BY <5>3, <5>4
      <4>2. CASE ~Authentic(users, loc[i].req.username, loc[i].req.password)
        BY <1>2, <2>2, <2>8, <4>2, FinishTypes, RequestTypes DEF LoginScan
      <4>3. QED BY <4>1, <4>2
    <3>2. QED BY <1>2, <2>1, <2>8, <3>1 DEF TypeOK, LoginScan
  <2>9. CASE LoginWrite(i)
    <3>1. users' = users
      BY <1>1, <2>9, LoginWriteChangesNothing
    <3>2. pc' \in [Slot -> Labels]
      BY <1>2, <2>9, GotoType DEF LoginWrite, Labels
    <3>3. QED BY <1>2, <2>1, <2>9, <3>1, <3>2 DEF TypeOK, LoginWrite
  <2>10. CASE LoginSet(i)
    <3>1. pc' \in [Slot -> Labels] /\ loc' \in [Slot -> Locals]
      BY <1>2, <2>2, <2>10, FinishTypes, RequestTypes DEF LoginSet
    <3>2. loc[i].req.username \in Name
      BY <2>2, <2>10, RequestTypes DEF LoginSet
    <3>3. clients[i] \in ClientInfo
      BY <2>3
    <3>4. [clients[i] EXCEPT !.is_logged_in = TRUE, !.username = loc[i].req.username]
            \in ClientInfo
      BY <3>2, <3>3 DEF ClientInfo
    <3>5. clients' = [clients EXCEPT ![i] =
                        [clients[i] EXCEPT !.is_logged_in = TRUE,
                                           !.username = loc[i].req.username]]
      BY <2>3, <2>10 DEF LoginSet
    <3>6. clients' \in [Slot -> ClientInfo]
      BY <2>3, <3>4, <3>5
    <3>7. QED BY <1>2, <2>1, <2>10, <3>1, <3>6 DEF TypeOK, LoginSet
  <2>11. CASE Group(i)
    <3>1. pc' \in [Slot -> Labels] /\ loc' \in [Slot -> Locals]
      <4>1. loc[i].req.command = "group" /\ clients[i].username \in Name \cup {NoName}
        BY <1>2, <2>2, <2>11, RequestTypes, FieldTypes DEF Group
      <4>2. CASE clients[i].is_logged_in
        BY <1>2, <2>11, <4>1, <4>2, FinishTypes DEF Group
      <4>3. CASE ~clients[i].is_logged_in
        BY <1>2, <2>11, <4>1, <4>3, FinishTypes DEF Group
      <4>4. QED BY <4>2, <4>3
    <3>2. QED BY <1>2, <2>1, <2>11, <3>1 DEF TypeOK, Group
  <2>12. CASE SendReply(i)
    <3>1. Peer(i) \in Client /\ clients[i].session_id \in SessionId
      BY <1>2, <2>12, ServedSlot, FieldTypes DEF SendReply
    <3>2. PICK r : r = [to |-> loc[i].reply.to, status |-> loc[i].reply.status,
                        user |-> loc[i].reply.user, session_id |-> clients[i].session_id]
      OBVIOUS
    <3>3. loc[i].reply \in ReplyTo
      BY <2>3 DEF Locals
    <3>4. r \in ReplyMessage
      BY <3>1, <3>2, <3>3 DEF ReplyTo, ReplyMessage
    <3>5. outbox' = outbox \/ outbox' = [outbox EXCEPT ![Peer(i)] = Append(@, r)]
      BY <2>12, <3>2 DEF SendReply
    <3>6. outbox' \in [Client -> Seq(ReplyMessage)]
      <4>1. PICK c \in Client : c = Peer(i)
        BY <3>1
      <4>2. Append(outbox[c], r) \in Seq(ReplyMessage)
        BY <2>3, <3>4
      <4>3. QED BY <2>3, <3>5, <4>1, <4>2
    <3>7. pc' \in [Slot -> Labels] /\ loc' \in [Slot -> Locals]
      BY <1>2, <2>12, GotoType, LocalsReset DEF SendReply, Labels
    <3>8. QED BY <1>2, <2>1, <2>12, <3>6, <3>7 DEF TypeOK, SendReply
  <2>13. CASE Cleanup(i)
    <3>1. pc' \in [Slot -> Labels] /\ loc' \in [Slot -> Locals]
      BY <1>2, <2>13, GotoType, LocalsReset DEF Cleanup, Labels
    <3>2. clients' \in [Slot -> ClientInfo]
      BY <2>3, <2>13 DEF Cleanup, remove_client, ClientInfo
    <3>3. sockets' \in [Descriptor -> Client \cup {Nobody}]
      BY <1>2, <2>13 DEF TypeOK, Cleanup, remove_client
    <3>4. QED
      BY <1>2, <1>12, <2>1, <2>13, <3>1, <3>2, <3>3 DEF TypeOK, Cleanup, remove_client
  <2>14. CASE OpenFails(i)
    <3>1. pc' \in [Slot -> Labels] /\ loc' \in [Slot -> Locals]
      <4>1. CASE pc[i] = "reg_scan" /\ Goto(i, "reg_append") /\ UNCHANGED loc
        BY <1>2, <2>3, <4>1, GotoType DEF Labels
      <4>2. CASE /\ pc[i] \in {"reg_append", "login_scan"}
                 /\ Finish(i, "error", NoName)
        <5>1. loc[i].req.command \in {"register", "login", "group"}
          BY <2>2, <4>2, RequestTypes
        <5>2. QED BY <1>2, <4>2, <5>1, FinishTypes
      <4>3. QED BY <2>14, <4>1, <4>2 DEF OpenFails
    <3>2. QED BY <1>2, <2>1, <2>14, <3>1 DEF TypeOK, OpenFails
  <2>15. QED
    BY <1>16, <2>4, <2>5, <2>6, <2>7, <2>8, <2>9, <2>10, <2>11, <2>12, <2>13, <2>14
       DEF Step
<1>17. QED
  BY <1>1, <1>4, <1>5, <1>7, <1>8, <1>9, <1>10, <1>11, <1>13, <1>14, <1>15, <1>16
     DEF Next, Receipt, Greet

-----------------------------------------------------------------------------
(* Ownership is kept: by steps that leave the table alone, and by the four *)
(* that open and close connections.                                        *)
LEMMA OwnersStay ==
  ASSUME SocketsAreOwned, sockets' = sockets,
         \A i \in Slot : clients'[i].sockfd = clients[i].sockfd,
         \A i \in Slot : pc'[i] = "none" <=> pc[i] = "none",
         \A i \in Slot : pc[i] = "none" => ~clients'[i].is_logged_in,
         \A c \in Client : link'[c] = "accepted" <=> link[c] = "accepted"
  PROVE  SocketsAreOwned'
<1>1. \A i \in Slot : Peer(i)' = Peer(i)
  BY DEF Peer
<1>2. ASSUME NEW i \in Slot
      PROVE  /\ pc'[i] = "none" <=> clients'[i].sockfd = -1
             /\ pc'[i] = "none" => ~clients'[i].is_logged_in
             /\ pc'[i] # "none" => Peer(i)' \in Client /\ link'[Peer(i)'] = "accepted"
  BY <1>1 DEF SocketsAreOwned
<1>3. ASSUME NEW i \in Slot, NEW j \in Slot
      PROVE  pc'[i] # "none" /\ pc'[j] # "none" /\ Peer(i)' = Peer(j)' => i = j
  BY <1>1 DEF SocketsAreOwned
<1>4. ASSUME NEW d \in Descriptor
      PROVE  sockets'[d] # Nobody => \E i \in Slot : clients'[i].sockfd = d
  BY DEF SocketsAreOwned
<1>5. ASSUME NEW c \in Client
      PROVE  link'[c] = "accepted" => \E i \in Slot : pc'[i] # "none" /\ Peer(i)' = c
  BY <1>1 DEF SocketsAreOwned
<1>6. QED BY <1>2, <1>3, <1>4, <1>5 DEF SocketsAreOwned

LEMMA AcceptOwned ==
  ASSUME TypeOK, SocketsAreOwned, NEW c \in Client, Accept(c)
  PROVE  SocketsAreOwned'
<1>1. PICK i \in Slot, d \in Descriptor :
        /\ clients[i].sockfd = -1 /\ sockets[d] = Nobody
        /\ add_client(i, d)
        /\ sockets' = [sockets EXCEPT ![d] = c]
        /\ pc' = [pc EXCEPT ![i] = "recv"]
  BY FirstFree DEF Accept
<1>2. /\ link[c] = "queued" /\ link'[c] = "accepted"
      /\ \A e \in Client : e # c => link'[e] = link[e]
  BY DEF Accept, TypeOK
<1>3. /\ sockets'[d] = c /\ \A e \in Descriptor : e # d => sockets'[e] = sockets[e]
      /\ pc'[i] = "recv" /\ \A j \in Slot : j # i => pc'[j] = pc[j]
  BY <1>1 DEF TypeOK
<1>4. /\ clients'[i].sockfd = d
      /\ \A j \in Slot : j # i => clients'[j] = clients[j]
  <2>1. clients[i] \in ClientInfo /\ clients \in [Slot -> ClientInfo]
    BY DEF TypeOK
  <2>2. QED BY <1>1, <2>1 DEF add_client, ClientInfo
<1>5. d # -1 /\ c # Nobody
  BY DescriptorAssumption, NobodyAssumption
<1>6. \A j \in Slot : j # i /\ pc[j] # "none" =>
        clients[j].sockfd \in Descriptor \ {d} /\ Peer(j) # c
  <2>1. \A j \in Slot : pc[j] # "none" =>
          /\ clients[j].sockfd \in Descriptor
          /\ sockets[clients[j].sockfd] \in Client
          /\ link[sockets[clients[j].sockfd]] = "accepted"
    BY ServedSlot
  <2>2. QED BY <1>1, <1>2, <2>1, NobodyAssumption DEF Peer
<1>7. \A j \in Slot : j # i /\ pc[j] # "none" => Peer(j)' = Peer(j)
  BY <1>3, <1>4, <1>6 DEF Peer
<1>8. Peer(i)' = c
  BY <1>3, <1>4 DEF Peer
<1>9. ASSUME NEW j \in Slot
      PROVE  /\ pc'[j] = "none" <=> clients'[j].sockfd = -1
             /\ pc'[j] = "none" => ~clients'[j].is_logged_in
             /\ pc'[j] # "none" => Peer(j)' \in Client /\ link'[Peer(j)'] = "accepted"
  <2>1. CASE j = i
    BY <1>2, <1>3, <1>4, <1>5, <1>8, <2>1
  <2>2. CASE j # i
    BY <1>2, <1>3, <1>4, <1>6, <1>7, <2>2 DEF SocketsAreOwned
  <2>3. QED BY <2>1, <2>2
<1>10. ASSUME NEW j \in Slot, NEW k \in Slot,
              pc'[j] # "none", pc'[k] # "none", Peer(j)' = Peer(k)'
       PROVE  j = k
  <2>1. CASE j # i /\ k # i
    BY <1>3, <1>7, <1>10, <2>1 DEF SocketsAreOwned
  <2>2. CASE j = i \/ k = i
    BY <1>3, <1>6, <1>7, <1>8, <1>10, <2>2
  <2>3. QED BY <2>1, <2>2
<1>11. ASSUME NEW e \in Descriptor, sockets'[e] # Nobody
       PROVE  \E j \in Slot : clients'[j].sockfd = e
  <2>1. CASE e = d
    BY <1>4, <2>1
  <2>2. CASE e # d
    <3>1. PICK j \in Slot : clients[j].sockfd = e
      BY <1>3, <1>11, <2>2 DEF SocketsAreOwned
    <3>2. j # i
      BY <1>1, <3>1, DescriptorAssumption
    <3>3. QED BY <1>4, <3>1, <3>2
  <2>3. QED BY <2>1, <2>2
<1>12. ASSUME NEW e \in Client, link'[e] = "accepted"
       PROVE  \E j \in Slot : pc'[j] # "none" /\ Peer(j)' = e
  <2>1. CASE e = c
    BY <1>3, <1>8, <2>1
  <2>2. CASE e # c
    <3>1. PICK j \in Slot : pc[j] # "none" /\ Peer(j) = e
      BY <1>2, <1>12, <2>2 DEF SocketsAreOwned
    <3>2. j # i
      BY <1>1, <3>1 DEF SocketsAreOwned
    <3>3. QED BY <1>3, <1>7, <3>1, <3>2
  <2>3. QED BY <2>1, <2>2
<1>13. QED BY <1>9, <1>10, <1>11, <1>12 DEF SocketsAreOwned

LEMMA CleanupOwned ==
  ASSUME TypeOK, SocketsAreOwned, NEW i \in Slot, Cleanup(i)
  PROVE  SocketsAreOwned'
<1>1. PICK d, c : d = clients[i].sockfd /\ c = Peer(i)
  OBVIOUS
<1>2. d \in Descriptor /\ c \in Client /\ link[c] = "accepted" /\ sockets[d] = c
  BY <1>1, ServedSlot DEF Cleanup
<1>3. /\ sockets'[d] = Nobody /\ \A e \in Descriptor : e # d => sockets'[e] = sockets[e]
      /\ pc'[i] = "none" /\ \A j \in Slot : j # i => pc'[j] = pc[j]
      /\ link'[c] = "closed" /\ \A e \in Client : e # c => link'[e] = link[e]
  BY <1>1, <1>2 DEF TypeOK, Cleanup, remove_client, Hangup, Goto
<1>4. /\ clients'[i].sockfd = -1 /\ clients'[i].is_logged_in = FALSE
      /\ \A j \in Slot : j # i => clients'[j] = clients[j]
  <2>1. clients[i] \in ClientInfo /\ clients \in [Slot -> ClientInfo]
    BY DEF TypeOK
  <2>2. QED BY <2>1 DEF Cleanup, remove_client, ClientInfo
<1>5. \A j \in Slot : j # i /\ pc[j] # "none" =>
        clients[j].sockfd \in Descriptor \ {d} /\ Peer(j) # c
  <2>1. \A j \in Slot : pc[j] # "none" =>
          clients[j].sockfd \in Descriptor /\ Peer(j) = sockets[clients[j].sockfd]
    BY ServedSlot
  <2>2. pc[i] # "none"
    BY DEF Cleanup
  <2>3. \A j \in Slot : j # i /\ pc[j] # "none" => Peer(j) # c
    BY <1>1, <2>2 DEF SocketsAreOwned
  <2>4. QED BY <1>2, <2>1, <2>3
<1>6. \A j \in Slot : j # i /\ pc[j] # "none" => Peer(j)' = Peer(j)
  BY <1>3, <1>4, <1>5 DEF Peer
<1>7. ASSUME NEW j \in Slot
      PROVE  /\ pc'[j] = "none" <=> clients'[j].sockfd = -1
             /\ pc'[j] = "none" => ~clients'[j].is_logged_in
             /\ pc'[j] # "none" => Peer(j)' \in Client /\ link'[Peer(j)'] = "accepted"
  <2>1. CASE j = i
    BY <1>3, <1>4, <2>1
  <2>2. CASE j # i
    BY <1>3, <1>4, <1>5, <1>6, <2>2 DEF SocketsAreOwned
  <2>3. QED BY <2>1, <2>2
<1>8. ASSUME NEW j \in Slot, NEW k \in Slot,
             pc'[j] # "none", pc'[k] # "none", Peer(j)' = Peer(k)'
      PROVE  j = k
  BY <1>3, <1>6, <1>8 DEF SocketsAreOwned
<1>9. ASSUME NEW e \in Descriptor, sockets'[e] # Nobody
      PROVE  \E j \in Slot : clients'[j].sockfd = e
  <2>1. e # d
    BY <1>3, <1>9
  <2>2. PICK j \in Slot : clients[j].sockfd = e
    BY <1>3, <1>9, <2>1 DEF SocketsAreOwned
  <2>3. j # i
    BY <1>1, <2>1, <2>2
  <2>4. QED BY <1>4, <2>2, <2>3
<1>10. ASSUME NEW e \in Client, link'[e] = "accepted"
       PROVE  \E j \in Slot : pc'[j] # "none" /\ Peer(j)' = e
  <2>1. e # c
    BY <1>3, <1>10
  <2>2. PICK j \in Slot : pc[j] # "none" /\ Peer(j) = e
    BY <1>3, <1>10, <2>1 DEF SocketsAreOwned
  <2>3. j # i
    BY <1>1, <2>1, <2>2
  <2>4. QED BY <1>3, <1>6, <2>2, <2>3
<1>11. QED BY <1>7, <1>8, <1>9, <1>10 DEF SocketsAreOwned

LEMMA OwnedStep == IInv /\ [Next]_vars => SocketsAreOwned'
<1>1. SUFFICES ASSUME IInv, [Next]_vars PROVE SocketsAreOwned'
  OBVIOUS
<1>2. TypeOK /\ SocketsAreOwned
  BY <1>1 DEF IInv
<1>3. CASE UNCHANGED vars
  BY <1>2, <1>3, OwnersStay DEF vars, serverVars, SocketsAreOwned
<1>4. ASSUME NEW c \in Client,
             Connect(c) \/ Ask(c) \/ DoLogout(c) \/ Receipt(c) \/ Quit(c)
      PROVE  SocketsAreOwned'
  <2>1. UNCHANGED serverVars
    BY <1>4 DEF Connect, Ask, DoLogout, Receipt, ReadReply, ReadFails, Quit
  <2>2. \A e \in Client : link'[e] = "accepted" <=> link[e] = "accepted"
    <3>1. CASE Connect(c)
      <4>1. link[c] # "accepted" /\ link' = [link EXCEPT ![c] = "queued"]
        BY <1>1, <3>1 DEF Connect, IInv, ClientOK
      <4>2. QED BY <1>2, <4>1 DEF TypeOK
    <3>2. CASE UNCHANGED link
      BY <3>2
    <3>3. QED BY <1>4, <3>1, <3>2 DEF Ask, DoLogout, Receipt, ReadReply, ReadFails, Quit
  <2>3. QED BY <1>2, <2>1, <2>2, OwnersStay DEF serverVars, SocketsAreOwned
<1>5. ASSUME NEW c \in Client, Reject(c) PROVE SocketsAreOwned'
  <2>1. \A e \in Client : link'[e] = "accepted" <=> link[e] = "accepted"
    BY <1>2, <1>5 DEF Reject, Hangup, TypeOK
  <2>2. \A i \in Slot : /\ clients'[i].sockfd = clients[i].sockfd
                        /\ clients'[i].is_logged_in = clients[i].is_logged_in
    <3>1. clients \in [Slot -> ClientInfo]
      BY <1>2 DEF TypeOK
    <3>2. QED BY <1>5, <3>1 DEF Reject, ClientInfo
  <2>3. QED BY <1>2, <1>5, <2>1, <2>2, OwnersStay DEF Reject, SocketsAreOwned
<1>6. CASE Crash
  <2>1. /\ \A i \in Slot : /\ pc'[i] = "none" /\ clients'[i].sockfd = -1
                           /\ ~clients'[i].is_logged_in
        /\ \A d \in Descriptor : sockets'[d] = Nobody
    BY <1>6 DEF Crash
  <2>2. \A c \in Client : link'[c] # "accepted"
    BY <1>2, <1>6 DEF Crash, Hangup, Open, TypeOK
  <2>3. QED BY <2>1, <2>2 DEF SocketsAreOwned
<1>7. ASSUME NEW i \in Slot, StepOf(i), ~Cleanup(i) PROVE SocketsAreOwned'
  <2>1. UNCHANGED <<link, sockets>>
    BY <1>7 DEF StepOf, Receive, Disconnected, RegScan, OpenFails, RegAppend, LoginScan,
                LoginWrite, LoginSet, Group, SendReply
  <2>2. \A j \in Slot : pc'[j] = "none" <=> pc[j] = "none"
    <3>1. PICK label : pc' = [pc EXCEPT ![i] = label] /\ label # "none" /\ pc[i] # "none"
      <4>1. ASSUME NEW m \in Message PROVE Dispatch[m.command] # "none"
        BY DispatchKinds
      <4>2. CASE Receive(i)
        <5>1. PICK c \in Client : c = Peer(i) /\ inbox[c] # <<>>
          BY <1>2, <4>2, ServedSlot DEF Receive
        <5>2. Head(inbox[c]) \in Message
          <6>1. inbox[c] \in Seq(Message)
            BY <1>2 DEF TypeOK
          <6>2. QED BY <5>1, <6>1
        <5>3. QED BY <4>1, <4>2, <5>1, <5>2 DEF Receive, Goto
      <4>3. QED
        BY <1>7, <4>2 DEF StepOf, Disconnected, RegScan, OpenFails, RegAppend,
                          LoginScan, LoginWrite, LoginSet, Group, SendReply, Goto,
                          Finish
    <3>2. QED BY <1>2, <3>1 DEF TypeOK
  <2>3. \A j \in Slot : /\ clients'[j].sockfd = clients[j].sockfd
                        /\ pc[j] = "none" => ~clients'[j].is_logged_in
    <3>1. CASE LoginSet(i)
      <4>1. clients \in [Slot -> ClientInfo]
        BY <1>2 DEF TypeOK
      <4>2. /\ \A j \in Slot : clients'[j].sockfd = clients[j].sockfd
            /\ \A j \in Slot : j # i => clients'[j] = clients[j]
        BY <3>1, <4>1 DEF LoginSet, ClientInfo
      <4>3. pc[i] # "none"
        BY <3>1 DEF LoginSet
      <4>4. QED BY <1>2, <4>2, <4>3 DEF SocketsAreOwned
    <3>2. CASE UNCHANGED clients
      BY <1>2, <3>2 DEF SocketsAreOwned
    <3>3. QED
      BY <1>7, <3>1, <3>2 DEF StepOf, Receive, Disconnected, RegScan, OpenFails,
                              RegAppend, LoginScan, LoginWrite, Group, SendReply
  <2>4. QED BY <1>2, <2>1, <2>2, <2>3, OwnersStay
<1>8. QED
  BY <1>1, <1>2, <1>3, <1>4, <1>5, <1>6, <1>7, AcceptOwned, CleanupOwned
     DEF Next, Greet, Step, StepOf

-----------------------------------------------------------------------------
(* What the threads work on. *)

(* Accounts stay where they are. *)
LEMMA AccountsStay ==
  ASSUME IInv, [Next]_vars
  PROVE  AccountsKept(users, users')
<1>1. TypeOK /\ users \in Seq(UserRecord)
  BY DEF IInv, TypeOK
<1>2. CASE UNCHANGED users
  BY <1>2 DEF AccountsKept
<1>3. ASSUME NEW i \in Slot, RegAppend(i) PROVE AccountsKept(users, users')
  <2>1. RequestOK(i) /\ pc[i] = "reg_append"
    BY <1>3 DEF IInv, RegAppend
  <2>2. PICK r \in UserRecord : users' = Append(users, r)
    BY <1>3, <2>1, RequestTypes, NewUserType DEF RegAppend
  <2>3. QED BY <1>1, <2>2, UserAppended
<1>4. ASSUME NEW i \in Slot, LoginWrite(i) PROVE UNCHANGED users
  BY <1>4, LoginWriteChangesNothing
<1>5. ASSUME NEW i \in Slot, StepOf(i), ~RegAppend(i), ~LoginWrite(i)
      PROVE  UNCHANGED users
  BY <1>5 DEF StepOf, Receive, Disconnected, RegScan, OpenFails, LoginScan, LoginSet,
              Group, SendReply, Cleanup
<1>6. ASSUME NEW c \in Client,
             Connect(c) \/ Ask(c) \/ DoLogout(c) \/ Receipt(c) \/ Quit(c) \/ Greet(c)
      PROVE  UNCHANGED users
  BY <1>6 DEF Connect, Ask, DoLogout, Receipt, ReadReply, ReadFails, Quit, Greet,
              Accept, Reject
<1>7. CASE Crash \/ UNCHANGED vars
  BY <1>2, <1>7 DEF Crash, vars
<1>8. QED BY <1>2, <1>3, <1>4, <1>5, <1>6, <1>7 DEF Next, Step, StepOf

(* A step of one thread leaves the others where they are. *)
LEMMA OtherThreads ==
  ASSUME TypeOK, NEW i \in Slot, StepOf(i), NEW j \in Slot, j # i
  PROVE  pc'[j] = pc[j] /\ loc'[j] = loc[j] /\ clients'[j] = clients[j]
<1>1. /\ pc \in [Slot -> Labels] /\ loc \in [Slot -> Locals]
      /\ clients \in [Slot -> ClientInfo]
  BY DEF TypeOK
<1>2. pc'[j] = pc[j]
  BY <1>1 DEF StepOf, Receive, Disconnected, RegScan, OpenFails, RegAppend, LoginScan,
              LoginWrite, LoginSet, Group, SendReply, Cleanup, Goto, Finish
<1>3. loc'[j] = loc[j]
  BY <1>1 DEF StepOf, Receive, Disconnected, RegScan, OpenFails, RegAppend, LoginScan,
              LoginWrite, LoginSet, Group, SendReply, Cleanup, Finish
<1>4. clients'[j] = clients[j]
  BY <1>1 DEF StepOf, Receive, Disconnected, RegScan, OpenFails, RegAppend, LoginScan,
              LoginWrite, LoginSet, Group, SendReply, Cleanup, remove_client
<1>5. QED BY <1>2, <1>3, <1>4

(* Clients do not touch the server's threads. *)
LEMMA ClientSteps ==
  ASSUME NEW c, Connect(c) \/ Ask(c) \/ DoLogout(c) \/ Receipt(c) \/ Quit(c)
  PROVE  UNCHANGED <<serverVars, users>>
BY DEF Connect, Ask, DoLogout, Receipt, ReadReply, ReadFails, Quit

(* Opening and closing connections starts and ends threads, and moves none. *)
LEMMA GreetThreads ==
  ASSUME TypeOK, NEW c, Greet(c), NEW j \in Slot
  PROVE  loc'[j] = loc[j] /\ (pc'[j] = pc[j] \/ pc'[j] = "recv")
BY DEF Greet, Accept, Reject, TypeOK

(* The thread that moves, label by label. *)
LEMMA ReceiveLocals ==
  ASSUME TypeOK, SocketsAreOwned, NEW i \in Slot, Receive(i)
  PROVE  \E m \in Message :
           /\ m = Head(inbox[Peer(i)])
           /\ pc'[i] = Dispatch[m.command] /\ loc'[i].req = m
<1>1. PICK c \in Client : c = Peer(i) /\ inbox[c] # <<>>
  BY ServedSlot DEF Receive
<1>2. inbox[c] \in Seq(Message)
  BY DEF TypeOK
<1>3. Head(inbox[c]) \in Message
  BY <1>1, <1>2
<1>4. loc \in [Slot -> Locals] /\ pc \in [Slot -> Labels]
  BY DEF TypeOK
<1>5. loc[i] \in Locals
  BY <1>4
<1>6. loc'[i].req = Head(inbox[c]) /\ pc'[i] = Dispatch[Head(inbox[c]).command]
  BY <1>1, <1>4, <1>5 DEF Receive, Goto, Locals
<1>7. QED BY <1>1, <1>3, <1>6

LEMMA RequestStep == IInv /\ [Next]_vars => \A j \in Slot : RequestOK(j)'
<1>1. SUFFICES ASSUME IInv, [Next]_vars, NEW j \in Slot PROVE RequestOK(j)'
  OBVIOUS
<1>2. TypeOK /\ SocketsAreOwned /\ RequestOK(j)
  BY <1>1 DEF IInv
<1>3. ASSUME loc'[j] = loc[j], pc'[j] = pc[j] PROVE RequestOK(j)'
  BY <1>2, <1>3 DEF RequestOK
<1>4. ASSUME pc'[j] \in {"none", "recv", "reply", "cleanup"} PROVE RequestOK(j)'
  BY <1>4 DEF RequestOK
<1>5. CASE UNCHANGED vars
  BY <1>3, <1>5 DEF vars, serverVars
<1>6. ASSUME NEW c \in Client,
             Connect(c) \/ Ask(c) \/ DoLogout(c) \/ Receipt(c) \/ Quit(c)
      PROVE  RequestOK(j)'
  BY <1>3, <1>6, ClientSteps DEF serverVars
<1>7. ASSUME NEW c \in Client, Greet(c) PROVE RequestOK(j)'
  BY <1>2, <1>3, <1>4, <1>7, GreetThreads
<1>8. CASE Crash
  BY <1>4, <1>8 DEF Crash
<1>9. ASSUME NEW i \in Slot, StepOf(i), i # j PROVE RequestOK(j)'
  BY <1>2, <1>3, <1>9, OtherThreads
<1>10. CASE StepOf(j)
  <2>1. pc \in [Slot -> Labels] /\ loc \in [Slot -> Locals]
    BY <1>2 DEF TypeOK
  <2>2. CASE Receive(j)
    BY <1>2, <2>2, ReceiveLocals, DispatchKinds DEF RequestOK
  <2>3. CASE RegScan(j)
    <3>1. CASE user_exists(users, loc[j].req.username)
      BY <1>4, <2>1, <2>3, <3>1 DEF RegScan, Finish, Goto
    <3>2. CASE ~user_exists(users, loc[j].req.username)
      BY <1>2, <2>1, <2>3, <3>2 DEF RegScan, Goto, RequestOK
    <3>3. QED BY <3>1, <3>2
  <2>4. CASE LoginScan(j)
    <3>1. CASE Authentic(users, loc[j].req.username, loc[j].req.password)
      <4>1. loc[j] \in Locals
        BY <2>1
      <4>2. loc'[j].req = loc[j].req /\ pc'[j] = "login_write" /\ pc[j] = "login_scan"
        BY <2>1, <2>4, <3>1, <4>1 DEF LoginScan, Goto, Locals
      <4>3. QED BY <1>2, <4>2 DEF RequestOK
    <3>2. CASE ~Authentic(users, loc[j].req.username, loc[j].req.password)
      BY <1>4, <2>1, <2>4, <3>2 DEF LoginScan, Finish, Goto
    <3>3. QED BY <3>1, <3>2
  <2>5. CASE LoginWrite(j)
    BY <1>2, <2>1, <2>5 DEF LoginWrite, Goto, RequestOK
  <2>6. CASE Disconnected(j) \/ RegAppend(j) \/ LoginSet(j) \/ Group(j) \/ SendReply(j)
             \/ Cleanup(j)
    BY <1>4, <2>1, <2>6 DEF Disconnected, RegAppend, LoginSet, Group, SendReply, Cleanup,
                            Finish, Goto
  <2>7. CASE OpenFails(j)
    <3>1. CASE pc[j] = "reg_scan" /\ Goto(j, "reg_append") /\ UNCHANGED loc
      BY <1>2, <2>1, <3>1 DEF Goto, RequestOK
    <3>2. CASE Finish(j, "error", NoName)
      BY <1>4, <2>1, <3>2 DEF Finish, Goto
    <3>3. QED BY <2>7, <3>1, <3>2 DEF OpenFails
  <2>8. QED BY <1>10, <2>2, <2>3, <2>4, <2>5, <2>6, <2>7 DEF StepOf
<1>11. QED
  BY <1>1, <1>5, <1>6, <1>7, <1>8, <1>9, <1>10 DEF Next, Step, StepOf

LEMMA LoginStep == IInv /\ [Next]_vars => LoginStillValid'
<1>1. SUFFICES ASSUME IInv, [Next]_vars, NEW j \in Slot,
                      pc'[j] \in {"login_write", "login_set"}
               PROVE  /\ Authentic(users', loc'[j].req.username, loc'[j].req.password)
                      /\ loc'[j].at = UserAt(users', loc'[j].req.username)
  BY DEF LoginStillValid
<1> DEFINE Valid(f, l) == /\ Authentic(f, l.req.username, l.req.password)
                          /\ l.at = UserAt(f, l.req.username)
<1>2. TypeOK /\ SocketsAreOwned /\ LoginStillValid
  BY <1>1 DEF IInv
<1>3. ASSUME NEW l, Valid(users, l) PROVE Valid(users', l)
  <2>1. PICK n : n = l.req.username
    OBVIOUS
  <2>2. user_exists(users, n)
    BY <1>3, <2>1 DEF Authentic
  <2>3. /\ user_exists(users', n)
        /\ UserAt(users', n) = UserAt(users, n)
        /\ users'[UserAt(users', n)] = users[UserAt(users, n)]
    BY <1>1, <2>2, AccountsStay DEF AccountsKept
  <2>4. QED BY <1>3, <2>1, <2>3 DEF Authentic
<1>4. ASSUME loc'[j] = loc[j], pc[j] \in {"login_write", "login_set"}
      PROVE  Valid(users', loc'[j])
  BY <1>2, <1>3, <1>4 DEF LoginStillValid
<1>5. ASSUME loc'[j] = loc[j], pc'[j] = pc[j] PROVE Valid(users', loc'[j])
  BY <1>1, <1>4, <1>5
<1>6. CASE UNCHANGED vars
  BY <1>5, <1>6 DEF vars, serverVars
<1>7. ASSUME NEW c \in Client,
             Connect(c) \/ Ask(c) \/ DoLogout(c) \/ Receipt(c) \/ Quit(c)
      PROVE  Valid(users', loc'[j])
  BY <1>5, <1>7, ClientSteps DEF serverVars
<1>8. ASSUME NEW c \in Client, Greet(c) PROVE Valid(users', loc'[j])
  BY <1>1, <1>2, <1>5, <1>8, GreetThreads
<1>9. ~Crash
  BY <1>1 DEF Crash
<1>10. ASSUME NEW i \in Slot, StepOf(i), i # j PROVE Valid(users', loc'[j])
  BY <1>2, <1>5, <1>10, OtherThreads
<1>11. CASE StepOf(j)
  <2>1. pc \in [Slot -> Labels] /\ loc \in [Slot -> Locals]
    BY <1>2 DEF TypeOK
  <2>2. CASE LoginScan(j)
    <3>1. CASE Authentic(users, loc[j].req.username, loc[j].req.password)
      <4>1. loc[j] \in Locals
        BY <2>1
      <4>2. loc'[j].req = loc[j].req /\ loc'[j].at = UserAt(users, loc[j].req.username)
        BY <2>1, <2>2, <3>1, <4>1 DEF LoginScan, Locals
      <4>3. Valid(users, loc'[j])
        BY <3>1, <4>2
      <4>4. QED BY <1>3, <4>3
    <3>2. CASE ~Authentic(users, loc[j].req.username, loc[j].req.password)
      BY <1>1, <2>1, <2>2, <3>2 DEF LoginScan, Finish, Goto
    <3>3. QED BY <3>1, <3>2
  <2>3. CASE LoginWrite(j)
    BY <1>4, <2>3 DEF LoginWrite
  <2>4. CASE Receive(j)
    <3>1. PICK m \in Message : pc'[j] = Dispatch[m.command]
      BY <1>2, <2>4, ReceiveLocals
    <3>2. QED BY <1>1, <3>1, DispatchKinds
  <2>5. CASE Disconnected(j) \/ RegScan(j) \/ RegAppend(j) \/ LoginSet(j) \/ Group(j)
             \/ SendReply(j) \/ Cleanup(j)
    BY <1>1, <2>1, <2>5 DEF Disconnected, RegScan, RegAppend, LoginSet, Group, SendReply,
                            Cleanup, Finish, Goto
  <2>6. CASE OpenFails(j)
    BY <1>1, <2>1, <2>6 DEF OpenFails, Finish, Goto
  <2>7. QED BY <1>11, <2>2, <2>3, <2>4, <2>5, <2>6 DEF StepOf
<1>12. QED
  BY <1>1, <1>6, <1>7, <1>8, <1>9, <1>10, <1>11 DEF Next, Step, StepOf

-----------------------------------------------------------------------------
(* The clients, and the conversations. *)

(* A step of one client leaves the others where they are. *)
LEMMA OtherClients ==
  ASSUME TypeOK, NEW c \in Client,
         Connect(c) \/ Ask(c) \/ DoLogout(c) \/ Receipt(c) \/ Quit(c),
         NEW e \in Client, e # c
  PROVE  /\ cl'[e] = cl[e] /\ link'[e] = link[e]
         /\ inbox'[e] = inbox[e] /\ outbox'[e] = outbox[e]
BY DEF TypeOK, Connect, Ask, DoLogout, Receipt, ReadReply, ReadFails, Quit, Deliver

(* A step of a thread leaves the clients it does not serve where they are. *)
LEMMA OtherPeers ==
  ASSUME TypeOK, SocketsAreOwned, NEW i \in Slot, StepOf(i),
         NEW e \in Client, e # Peer(i)
  PROVE  /\ link'[e] = link[e]
         /\ inbox'[e] = inbox[e] /\ outbox'[e] = outbox[e]
<1>1. pc[i] # "none"
  BY DEF StepOf, Receive, Disconnected, RegScan, OpenFails, RegAppend, LoginScan,
         LoginWrite, LoginSet, Group, SendReply, Cleanup
<1>2. PICK c \in Client : c = Peer(i)
  BY <1>1, ServedSlot
<1>3. link'[e] = link[e]
  BY <1>2 DEF TypeOK, StepOf, Receive, Disconnected, RegScan, OpenFails, RegAppend,
     LoginScan, LoginWrite, LoginSet, Group, SendReply, Cleanup, remove_client, Hangup
<1>4. inbox'[e] = inbox[e]
  BY <1>2 DEF TypeOK, StepOf, Receive, Disconnected, RegScan, OpenFails, RegAppend,
     LoginScan, LoginWrite, LoginSet, Group, SendReply, Cleanup, remove_client, Hangup
<1>5. outbox'[e] = outbox[e]
  BY <1>2 DEF TypeOK, StepOf, Receive, Disconnected, RegScan, OpenFails, RegAppend,
     LoginScan, LoginWrite, LoginSet, Group, SendReply, Cleanup
<1>6. QED BY <1>3, <1>4, <1>5

LEMMA ThreadsLeaveClients ==
  ASSUME NEW i \in Slot, StepOf(i)
  PROVE  cl' = cl
BY DEF StepOf, Receive, Disconnected, RegScan, OpenFails, RegAppend, LoginScan,
       LoginWrite, LoginSet, Group, SendReply, Cleanup

(* What a client's own step makes of it. *)
LEMMA ClientMoves ==
  ASSUME TypeOK, NEW c \in Client
  PROVE  /\ Connect(c) => cl'[c] = AtMenu(0, NoName) /\ link'[c] = "queued"
         /\ \A m : cl' = [cl EXCEPT ![c].pc = "wait", ![c].asked = m] =>
              /\ cl'[c].pc = "wait" /\ cl'[c].asked = m
              /\ cl'[c].session_id = cl[c].session_id
              /\ cl'[c].current_user = cl[c].current_user
         /\ DoLogout(c) => cl'[c] = AtMenu(0, NoName)
         /\ ReadFails(c) => cl'[c] = AtMenu(cl[c].session_id, cl[c].current_user)
         /\ Quit(c) => cl'[c] = NotRunning("gone") /\ outbox'[c] = <<>>
<1>1. cl \in [Client -> ClientGlobals] /\ cl[c] \in ClientGlobals
  BY DEF TypeOK
<1>2. Connect(c) => cl'[c] = AtMenu(0, NoName) /\ link'[c] = "queued"
  BY DEF TypeOK, Connect
<1>3. ASSUME NEW m, cl' = [cl EXCEPT ![c].pc = "wait", ![c].asked = m]
      PROVE  /\ cl'[c].pc = "wait" /\ cl'[c].asked = m
             /\ cl'[c].session_id = cl[c].session_id
             /\ cl'[c].current_user = cl[c].current_user
  <2>1. cl'[c] = [cl[c] EXCEPT !.pc = "wait", !.asked = m]
    BY <1>1, <1>3
  <2>2. QED BY <1>1, <2>1 DEF ClientGlobals
<1>4. DoLogout(c) => cl'[c] = AtMenu(0, NoName)
  BY <1>1 DEF DoLogout
<1>5. ReadFails(c) => cl'[c] = AtMenu(cl[c].session_id, cl[c].current_user)
  BY <1>1 DEF ReadFails
<1>6. Quit(c) => cl'[c] = NotRunning("gone") /\ outbox'[c] = <<>>
  BY <1>1 DEF TypeOK, Quit
<1>7. QED BY <1>2, <1>3, <1>4, <1>5, <1>6

LEMMA MenuFields ==
  ASSUME NEW sid, NEW u
  PROVE  /\ AtMenu(sid, u).pc = "menu" /\ AtMenu(sid, u).session_id = sid
         /\ AtMenu(sid, u).current_user = u
         /\ NotRunning("gone").pc = "gone" /\ NotRunning("gone").session_id = 0
BY DEF AtMenu, NotRunning, Running

(* A reply is read. *)
LEMMA ReplyRead ==
  ASSUME TypeOK, NEW c \in Client, ReadReply(c),
         NEW r \in ReplyMessage, outbox[c] = <<r>>
  PROVE  /\ outbox'[c] = <<>>
         /\ cl[c].asked.command = "login" /\ r.status = "success" =>
              cl'[c] = AtMenu(r.session_id, cl[c].asked.username)
         /\ ~(cl[c].asked.command = "login" /\ r.status = "success") =>
              cl'[c] = AtMenu(cl[c].session_id, cl[c].current_user)
<1>1. cl \in [Client -> ClientGlobals] /\ outbox \in [Client -> Seq(ReplyMessage)]
  BY DEF TypeOK
<1>2. Head(outbox[c]) = r /\ Tail(outbox[c]) = <<>>
  OBVIOUS
<1>3. outbox'[c] = <<>>
  BY <1>1, <1>2 DEF ReadReply
<1>4. QED BY <1>1, <1>2, <1>3 DEF ReadReply

(* A client nobody touches, and one whose connection the server takes or   *)
(* closes.                                                                 *)
LEMMA ClientStays ==
  ASSUME NEW c \in Client, ClientOK(c), AccountsKept(users, users'),
         cl'[c] = cl[c], outbox'[c] = outbox[c],
         \/ link'[c] = link[c] /\ inbox'[c] = inbox[c]
         \/ link[c] # "none" /\ link'[c] \in {"accepted", "closed"}
  PROVE  ClientOK(c)'
<1>1. \A r : ReplyOK(c, r) => ReplyOK(c, r)'
  BY DEF ReplyOK, AccountsKept
<1>2. Offered(c)' = Offered(c)
  BY DEF Offered
<1>3. QED BY <1>1, <1>2 DEF ClientOK

LEMMA ClientStep == IInv /\ [Next]_vars => \A e \in Client : ClientOK(e)'
<1>1. SUFFICES ASSUME IInv, [Next]_vars, NEW e \in Client PROVE ClientOK(e)'
  OBVIOUS
<1>2. TypeOK /\ SocketsAreOwned /\ ClientOK(e) /\ AccountsKept(users, users')
  BY <1>1, AccountsStay DEF IInv
<1>3. CASE UNCHANGED vars
  BY <1>2, <1>3, ClientStays DEF vars
<1>4. ASSUME NEW c \in Client, c # e,
             Connect(c) \/ Ask(c) \/ DoLogout(c) \/ Receipt(c) \/ Quit(c)
      PROVE  ClientOK(e)'
  BY <1>2, <1>4, OtherClients, ClientStays
<1>5. CASE Connect(e)
  <2>1. cl'[e].pc = "menu" /\ cl'[e].session_id = 0 /\ link'[e] = "queued"
    <3>1. cl'[e] = AtMenu(0, NoName) /\ link'[e] = "queued"
      BY <1>2, <1>5, ClientMoves
    <3>2. QED BY <3>1, MenuFields
  <2>2. inbox[e] = <<>> /\ outbox[e] = <<>> /\ inbox' = inbox /\ outbox' = outbox
    BY <1>2, <1>5 DEF ClientOK, Connect
  <2>3. QED BY <2>1, <2>2 DEF ClientOK
<1>6. CASE Ask(e)
  <2>1. PICK m \in Offered(e) : /\ cl' = [cl EXCEPT ![e].pc = "wait", ![e].asked = m]
                                /\ Deliver(e, m)
    BY <1>6 DEF Ask
  <2>2. /\ cl'[e].pc = "wait" /\ cl'[e].asked = m
        /\ cl'[e].session_id = cl[e].session_id
    BY <1>2, <2>1, ClientMoves
  <2>3. /\ outbox[e] = <<>> /\ outbox'[e] = outbox[e] /\ link'[e] = link[e]
        /\ link[e] # "none" /\ cl[e].pc = "menu"
    BY <1>2, <1>6 DEF ClientOK, Ask
  <2>4. link[e] = "queued" => inbox'[e] = <<m>>
    <3>1. SUFFICES ASSUME link[e] = "queued" PROVE inbox'[e] = <<m>>
      OBVIOUS
    <3>2. inbox[e] = <<>> /\ inbox \in [Client -> Seq(Message)]
      BY <1>2, <2>3, <3>1 DEF ClientOK, TypeOK
    <3>3. inbox' = [inbox EXCEPT ![e] = Append(@, m)]
      BY <2>1, <3>1 DEF Deliver, Open
    <3>4. QED BY <3>2, <3>3
  <2>5. m \in Offered(e)'
    BY <2>1, <2>2 DEF Offered
  <2>6. QED BY <1>2, <2>2, <2>3, <2>4, <2>5 DEF ClientOK
<1>7. CASE DoLogout(e)
  <2>1. cl'[e].pc = "menu" /\ cl'[e].session_id = 0
    <3>1. cl'[e] = AtMenu(0, NoName)
      BY <1>2, <1>7, ClientMoves
    <3>2. QED BY <3>1, MenuFields
  <2>2. /\ link[e] \notin {"none", "queued"} /\ link'[e] = link[e]
        /\ outbox[e] = <<>> /\ outbox'[e] = outbox[e]
    BY <1>2, <1>7 DEF ClientOK, DoLogout
  <2>3. QED BY <2>1, <2>2 DEF ClientOK
<1>8. CASE ReadReply(e)
  <2>1. PICK r \in ReplyMessage : outbox[e] = <<r>>
    BY <1>2, <1>8 DEF ReadReply, ClientOK
  <2>2. outbox'[e] = <<>> /\ cl'[e].pc = "menu"
    BY <1>2, <1>8, <2>1, ReplyRead, MenuFields
  <2>3. link[e] \notin {"none", "queued"} /\ link'[e] = link[e]
    BY <1>2, <1>8 DEF ReadReply, ClientOK
  <2>4. QED BY <2>2, <2>3 DEF ClientOK
<1>9. CASE ReadFails(e)
  <2>1. cl'[e].pc = "menu"
    <3>1. cl'[e] = AtMenu(cl[e].session_id, cl[e].current_user)
      BY <1>2, <1>9, ClientMoves
    <3>2. QED BY <3>1, MenuFields
  <2>2. /\ link[e] \notin {"none", "queued"} /\ link'[e] = link[e]
        /\ outbox'[e] = <<>>
    BY <1>2, <1>9 DEF ReadFails, ClientOK, Open
  <2>3. QED BY <2>1, <2>2 DEF ClientOK
<1>10. CASE Quit(e)
  <2>1. cl'[e].pc = "gone" /\ cl'[e].session_id = 0 /\ outbox'[e] = <<>>
    BY <1>2, <1>10, ClientMoves, MenuFields
  <2>2. link[e] # "none" /\ link'[e] = link[e]
    BY <1>2, <1>10 DEF Quit, ClientOK
  <2>3. QED BY <2>1, <2>2 DEF ClientOK
<1>11. ASSUME NEW c \in Client, Greet(c) PROVE ClientOK(e)'
  <2>1. UNCHANGED <<cl, outbox>> /\ link[c] = "queued"
    BY <1>11 DEF Greet, Accept, Reject
  <2>2. \/ link'[e] = link[e] /\ inbox'[e] = inbox[e]
        \/ link[e] # "none" /\ link'[e] \in {"accepted", "closed"}
    BY <1>2, <1>11, <2>1 DEF Greet, Accept, Reject, Hangup, TypeOK
  <2>3. QED BY <1>2, <2>1, <2>2, ClientStays
<1>12. CASE Crash
  <2>1. UNCHANGED <<cl, outbox>>
    BY <1>12 DEF Crash
  <2>2. \/ link'[e] = link[e] /\ inbox'[e] = inbox[e]
        \/ link[e] # "none" /\ link'[e] \in {"accepted", "closed"}
    BY <1>2, <1>12 DEF Crash, Hangup, Open, TypeOK
  <2>3. QED BY <1>2, <2>1, <2>2, ClientStays
<1>13. ASSUME NEW i \in Slot, StepOf(i) PROVE ClientOK(e)'
  <2>1. cl' = cl
    BY <1>13, ThreadsLeaveClients
  <2>2. CASE e # Peer(i)
    BY <1>2, <1>13, <2>1, <2>2, OtherPeers, ClientStays
  <2>3. CASE e = Peer(i)
    <3>1. pc[i] # "none"
      BY <1>13 DEF StepOf, Receive, Disconnected, RegScan, OpenFails, RegAppend,
                   LoginScan, LoginWrite, LoginSet, Group, SendReply, Cleanup
    <3>2. link[e] = "accepted" /\ Conversation(i, e)
      BY <1>1, <1>2, <2>3, <3>1, ServedSlot DEF IInv
    <3>3. link'[e] \in {"accepted", "closed"}
      BY <1>2, <1>13, <3>2 DEF StepOf, Receive, Disconnected, RegScan, OpenFails,
         RegAppend, LoginScan, LoginWrite, LoginSet, Group, SendReply, Cleanup,
         remove_client, Hangup, TypeOK
    <3>4. CASE outbox'[e] = outbox[e]
      BY <1>2, <2>1, <3>2, <3>3, <3>4, ClientStays
    <3>5. CASE outbox'[e] # outbox[e]
      <4>1. SendReply(i)
        BY <1>13, <3>5 DEF StepOf, Receive, Disconnected, RegScan, OpenFails, RegAppend,
                           LoginScan, LoginWrite, LoginSet, Group, Cleanup
      <4>2. Working(i, e) /\ pc[i] = "reply"
        BY <2>3, <3>2, <3>5, <4>1 DEF SendReply, Conversation, LoggedOut, Idle, Asked,
                                      Answered
      <4>3. PICK r : r = [to |-> loc[i].reply.to, status |-> loc[i].reply.status,
                          user |-> loc[i].reply.user, session_id |-> clients[i].session_id]
        OBVIOUS
      <4>4. ReplyOK(e, r)
        BY <4>2, <4>3 DEF Working, ReplyOK
      <4>5. r \in ReplyMessage
        <5>1. loc[i] \in Locals /\ clients[i].session_id \in SessionId
          BY <1>2, FieldTypes DEF TypeOK
        <5>2. loc[i].reply \in ReplyTo
          BY <5>1 DEF Locals
        <5>3. QED BY <4>3, <5>1, <5>2 DEF ReplyTo, ReplyMessage
      <4>6. outbox'[e] = <<r>>
        <5>1. outbox[e] = <<>> /\ cl[e].pc # "gone"
          BY <4>2 DEF Working
        <5>2. outbox' = [outbox EXCEPT ![e] = Append(@, r)]
          BY <2>3, <4>1, <4>3, <5>1 DEF SendReply
        <5>3. QED BY <1>2, <5>1, <5>2 DEF TypeOK
      <4>7. ReplyOK(e, r)'
        BY <2>1, <1>2, <4>4 DEF ReplyOK, AccountsKept
      <4>8. /\ cl'[e].pc = "wait" /\ cl[e].pc = "wait"
            /\ Offered(e)' = Offered(e) /\ link[e] # "none"
        BY <2>1, <3>2, <4>2 DEF Working, Offered
      <4>9. QED
        BY <1>2, <2>1, <3>3, <4>5, <4>6, <4>7, <4>8 DEF ClientOK
    <3>6. QED BY <3>4, <3>5
  <2>4. QED BY <2>2, <2>3
<1>14. QED
  BY <1>1, <1>3, <1>4, <1>5, <1>6, <1>7, <1>8, <1>9, <1>10, <1>11, <1>12, <1>13
     DEF Next, Receipt, Step, StepOf

(* A conversation whose two ends do not move. *)
LEMMA ConversationStays ==
  ASSUME NEW j \in Slot, NEW e \in Client, Conversation(j, e),
         cl'[e] = cl[e], inbox'[e] = inbox[e], outbox'[e] = outbox[e],
         pc'[j] = pc[j], loc'[j] = loc[j], clients'[j] = clients[j],
         AccountsKept(users, users')
  PROVE  Conversation(j, e)'
<1>1. \A r : ReplyOK(e, r) => ReplyOK(e, r)'
  BY DEF ReplyOK, AccountsKept
<1>2. \A r : LoggedIn(j, e, r) => LoggedIn(j, e, r)'
  BY DEF LoggedIn
<1>3. Working(j, e) => Working(j, e)'
  BY <1>1, <1>2 DEF Working
<1>4. Answered(j, e) => Answered(j, e)'
  BY <1>2 DEF Answered
<1>5. /\ Idle(j, e) => Idle(j, e)'
      /\ Asked(j, e) => Asked(j, e)'
      /\ LoggedOut(j, e) => LoggedOut(j, e)'
      /\ Same(j, e) => Same(j, e)'
  BY DEF Idle, Asked, LoggedOut, Same
<1>6. QED BY <1>3, <1>4, <1>5 DEF Conversation

(* A thread that leaves its label is a thread. *)
LEMMA ThreadRuns ==
  ASSUME NEW i \in Slot, StepOf(i)
  PROVE  pc[i] # "none"
BY DEF StepOf, Receive, Disconnected, RegScan, OpenFails, RegAppend, LoginScan,
       LoginWrite, LoginSet, Group, SendReply, Cleanup

(* Another thread's step. *)
LEMMA OtherConversation ==
  ASSUME IInv, [Next]_vars, NEW i \in Slot, StepOf(i),
         NEW j \in Slot, j # i, pc'[j] # "none"
  PROVE  Conversation(j, Peer(j))'
<1>1. TypeOK /\ SocketsAreOwned /\ AccountsKept(users, users')
  BY AccountsStay DEF IInv
<1>2. pc'[j] = pc[j] /\ loc'[j] = loc[j] /\ clients'[j] = clients[j]
  BY <1>1, OtherThreads
<1>3. PICK e \in Client, d \in Descriptor :
        /\ e = Peer(j) /\ d = clients[j].sockfd /\ sockets[d] = e
  BY <1>1, <1>2, ServedSlot
<1>4. Conversation(j, e)
  BY <1>2, <1>3 DEF IInv
<1>5. e # Peer(i) /\ d # clients[i].sockfd
  <2>1. pc[i] # "none"
    BY ThreadRuns
  <2>2. e # Peer(i)
    BY <1>1, <1>2, <1>3, <2>1 DEF SocketsAreOwned
  <2>3. QED BY <1>3, <2>2 DEF Peer
<1>6. sockets'[d] = sockets[d]
  BY <1>1, <1>5 DEF TypeOK, StepOf, Receive, Disconnected, RegScan, OpenFails,
     RegAppend, LoginScan, LoginWrite, LoginSet, Group, SendReply, Cleanup,
     remove_client
<1>7. Peer(j)' = e
  BY <1>2, <1>3, <1>6 DEF Peer
<1>8. cl' = cl /\ inbox'[e] = inbox[e] /\ outbox'[e] = outbox[e]
  BY <1>1, <1>5, ThreadsLeaveClients, OtherPeers
<1>9. Conversation(j, e)'
  BY <1>1, <1>2, <1>4, <1>8, ConversationStays
<1>10. QED BY <1>7, <1>9

(* What a handler's end leaves in its locals. *)
LEMMA FinishFields ==
  ASSUME TypeOK, NEW i \in Slot, NEW status, NEW u, Finish(i, status, u)
  PROVE  /\ pc'[i] = "reply" /\ loc'[i].req = loc[i].req
         /\ loc'[i].reply.to = loc[i].req.command
         /\ loc'[i].reply.status = status /\ loc'[i].reply.user = u
<1>1. pc \in [Slot -> Labels] /\ loc \in [Slot -> Locals] /\ loc[i] \in Locals
  BY DEF TypeOK
<1>2. loc'[i] = [loc[i] EXCEPT !.reply = Reply(loc[i].req.command, status, u)]
  BY <1>1 DEF Finish
<1>3. loc'[i].req = loc[i].req /\ loc'[i].reply = Reply(loc[i].req.command, status, u)
  BY <1>1, <1>2 DEF Locals
<1>4. pc'[i] = "reply"
  BY <1>1 DEF Finish, Goto
<1>5. QED BY <1>3, <1>4 DEF Reply

(* The thread's own step, in a handler. *)
LEMMA HandlerConversation ==
  ASSUME IInv, [Next]_vars, NEW i \in Slot, StepOf(i),
         NEW c \in Client, c = Peer(i), Working(i, c), Same(i, c), pc'[i] # "none"
  PROVE  Conversation(i, c)'
<1>1. TypeOK /\ SocketsAreOwned /\ AccountsKept(users, users')
      /\ RequestOK(i) /\ ClientOK(c)
  BY AccountsStay DEF IInv
<1>2. cl' = cl /\ loc[i].req = cl[c].asked
  BY ThreadsLeaveClients DEF Working
<1>3. pc \in [Slot -> Labels] /\ loc \in [Slot -> Locals] /\ loc[i] \in Locals
      /\ clients \in [Slot -> ClientInfo] /\ clients[i] \in ClientInfo
  BY <1>1 DEF TypeOK
<1>4. ASSUME UNCHANGED <<inbox, outbox>>, loc'[i].req = loc[i].req, Same(i, c)',
             pc'[i] \notin {"none", "recv", "cleanup"},
             pc'[i] = "reply" => ReplyOK(c, loc[i].reply)' /\ LoggedIn(i, c, loc[i].reply)'
      PROVE  Conversation(i, c)'
  BY <1>2, <1>4 DEF Conversation, Working
<1>5. ASSUME UNCHANGED clients PROVE Same(i, c)'
  BY <1>2, <1>5 DEF Same
<1>6. CASE Receive(i) \/ Disconnected(i) \/ Cleanup(i)
  BY <1>6 DEF Receive, Disconnected, Cleanup, Working
<1>7. ASSUME UNCHANGED <<inbox, outbox, clients>>, Finish(i, "error", NoName),
             loc[i].req.command \in {"register", "login"}
      PROVE  Conversation(i, c)'
  <2>1. /\ pc'[i] = "reply" /\ loc'[i].req = loc[i].req
        /\ loc'[i].reply.to = loc[i].req.command
        /\ loc'[i].reply.status = "error"
    BY <1>1, <1>7, FinishFields
  <2>2. ReplyOK(c, loc[i].reply)' /\ LoggedIn(i, c, loc[i].reply)'
    BY <1>2, <1>7, <2>1 DEF ReplyOK, LoggedIn
  <2>3. QED BY <1>4, <1>5, <1>7, <2>1, <2>2
<1>8. CASE RegScan(i)
  <2>1. loc[i].req.command = "register" /\ UNCHANGED <<inbox, outbox, clients>>
    BY <1>1, <1>8, RequestTypes DEF RegScan
  <2>2. CASE user_exists(users, loc[i].req.username)
    BY <1>7, <1>8, <2>1, <2>2 DEF RegScan
  <2>3. CASE ~user_exists(users, loc[i].req.username)
    <3>1. pc'[i] = "reg_append" /\ loc' = loc
      BY <1>3, <1>8, <2>3 DEF RegScan, Goto
    <3>2. QED BY <1>4, <1>5, <2>1, <3>1
  <2>4. QED BY <2>2, <2>3
<1>9. CASE RegAppend(i)
  <2>1. UNCHANGED <<inbox, outbox, clients>> /\ Finish(i, "success", NoName)
        /\ users' = Append(users, NewUser(loc[i].req.username, loc[i].req.password))
    BY <1>9 DEF RegAppend
  <2>2. /\ pc'[i] = "reply" /\ loc'[i].req = loc[i].req
        /\ loc'[i].reply.to = loc[i].req.command
        /\ loc'[i].reply.status = "success"
    BY <1>1, <2>1, FinishFields
  <2>3. user_exists(users', loc[i].req.username)
    <3>1. PICK n \in Name, p \in Password :
             n = loc[i].req.username /\ p = loc[i].req.password
      BY <1>1, <1>9, RequestTypes DEF RegAppend
    <3>2. PICK r \in UserRecord : r = NewUser(n, p) /\ users' = Append(users, r)
      BY <2>1, <3>1, NewUserType
    <3>3. users \in Seq(UserRecord)
      BY <1>1 DEF TypeOK
    <3>4. AccountOpened(users, r, users')
      BY <3>2, <3>3, UserAppended
    <3>5. r.username = n
      BY <3>2 DEF NewUser
    <3>6. QED BY <3>1, <3>4, <3>5 DEF AccountOpened
  <2>4. loc[i].req.command = "register"
    BY <1>1, <1>9, RequestTypes DEF RegAppend
  <2>5. ReplyOK(c, loc[i].reply)' /\ LoggedIn(i, c, loc[i].reply)'
    BY <1>2, <2>2, <2>3, <2>4 DEF ReplyOK, LoggedIn
  <2>6. QED BY <1>4, <1>5, <2>1, <2>2, <2>5
<1>10. CASE LoginScan(i)
  <2>1. loc[i].req.command = "login" /\ UNCHANGED <<inbox, outbox, clients>>
    BY <1>1, <1>10, RequestTypes DEF LoginScan
  <2>2. CASE Authentic(users, loc[i].req.username, loc[i].req.password)
    <3>1. pc'[i] = "login_write" /\ loc'[i].req = loc[i].req
      BY <1>3, <1>10, <2>2 DEF LoginScan, Goto, Locals
    <3>2. QED BY <1>4, <1>5, <2>1, <3>1
  <2>3. CASE ~Authentic(users, loc[i].req.username, loc[i].req.password)
    BY <1>7, <1>10, <2>1, <2>3 DEF LoginScan
  <2>4. QED BY <2>2, <2>3
<1>11. CASE LoginWrite(i)
  <2>1. pc'[i] = "login_set" /\ loc' = loc /\ UNCHANGED <<inbox, outbox, clients>>
    BY <1>3, <1>11 DEF LoginWrite, Goto
  <2>2. QED BY <1>4, <1>5, <2>1
<1>12. CASE LoginSet(i)
  <2>1. UNCHANGED <<inbox, outbox>> /\ Finish(i, "success", NoName)
    BY <1>12 DEF LoginSet
  <2>2. /\ pc'[i] = "reply" /\ loc'[i].req = loc[i].req
        /\ loc'[i].reply.to = loc[i].req.command
    BY <1>1, <2>1, FinishFields
  <2>3. clients'[i].is_logged_in /\ clients'[i].username = loc[i].req.username
    BY <1>3, <1>12 DEF LoginSet, ClientInfo
  <2>4. loc[i].req.command = "login" /\ loc[i].req \in AuthRequest
    BY <1>1, <1>12, RequestTypes DEF LoginSet, RequestOK
  <2>5. ReplyOK(c, loc[i].reply)' /\ LoggedIn(i, c, loc[i].reply)'
    BY <1>2, <2>2, <2>3, <2>4 DEF ReplyOK, LoggedIn
  <2>6. Same(i, c)'
    <3>1. cl[c].asked \in Offered(c) /\ cl[c].asked.command = "login"
      BY <1>1, <1>2, <2>4 DEF ClientOK, Working
    <3>2. cl[c].session_id = 0
      BY <3>1 DEF Offered, GroupCmd
    <3>3. QED BY <1>2, <3>2 DEF Same
  <2>7. QED BY <1>4, <2>1, <2>2, <2>5, <2>6
<1>13. CASE Group(i)
  <2>1. cl[c].asked = GroupCmd /\ cl[c].asked \in Offered(c)
    BY <1>1, <1>2, <1>13 DEF Group, RequestOK, ClientOK, Working
  <2>2. cl[c].session_id # 0
    BY <2>1, MessageKinds DEF Offered, AuthCommand
  <2>3. clients[i].is_logged_in /\ clients[i].username = cl[c].current_user
    BY <2>2 DEF Same
  <2>4. UNCHANGED <<inbox, outbox, clients>> /\ Finish(i, "success", clients[i].username)
    BY <1>13, <2>3 DEF Group
  <2>5. /\ pc'[i] = "reply" /\ loc'[i].req = loc[i].req
        /\ loc'[i].reply.to = "group" /\ loc'[i].reply.status = "success"
        /\ loc'[i].reply.user = clients[i].username
    BY <1>1, <1>2, <2>1, <2>4, FinishFields, MessageKinds
  <2>6. ReplyOK(c, loc[i].reply)' /\ LoggedIn(i, c, loc[i].reply)'
    BY <1>2, <2>1, <2>3, <2>5, MessageKinds DEF ReplyOK, LoggedIn
  <2>7. QED BY <1>4, <1>5, <2>4, <2>5, <2>6
<1>14. CASE SendReply(i)
  <2>1. PICK r : r = [to |-> loc[i].reply.to, status |-> loc[i].reply.status,
                      user |-> loc[i].reply.user, session_id |-> clients[i].session_id]
    OBVIOUS
  <2>2. /\ pc[i] = "reply" /\ pc'[i] = "recv" /\ UNCHANGED <<inbox, clients>>
    BY <1>3, <1>14 DEF SendReply, Goto
  <2>3. outbox'[c] = <<r>>
    <3>1. outbox[c] = <<>> /\ cl[c].pc # "gone" /\ outbox \in [Client -> Seq(ReplyMessage)]
      BY <1>1 DEF Working, TypeOK
    <3>2. outbox' = [outbox EXCEPT ![c] = Append(@, r)]
      BY <1>14, <2>1, <3>1 DEF SendReply
    <3>3. QED BY <3>1, <3>2
  <2>4. r \in ReplyMessage
    <3>1. clients[i].session_id \in SessionId /\ loc[i].reply \in ReplyTo
      BY <1>1, <1>3, FieldTypes DEF Locals
    <3>2. QED BY <2>1, <3>1 DEF ReplyTo, ReplyMessage
  <2>5. LoggedIn(i, c, loc[i].reply)
    BY <2>2 DEF Working
  <2>6. LoggedIn(i, c, r)' /\ r.session_id = clients'[i].session_id
    BY <1>2, <2>1, <2>2, <2>5 DEF LoggedIn
  <2>7. Answered(i, c)'
    BY <1>2, <2>2, <2>3, <2>4, <2>6 DEF Answered, Working
  <2>8. QED BY <1>5, <2>2, <2>7 DEF Conversation
<1>15. CASE OpenFails(i)
  <2>1. UNCHANGED <<inbox, outbox, clients>>
    BY <1>15 DEF OpenFails
  <2>2. CASE pc[i] = "reg_scan" /\ Goto(i, "reg_append") /\ UNCHANGED loc
    <3>1. pc'[i] = "reg_append" /\ loc' = loc
      BY <1>3, <2>2 DEF Goto
    <3>2. QED BY <1>4, <1>5, <2>1, <2>2, <3>1
  <2>3. CASE pc[i] \in {"reg_append", "login_scan"} /\ Finish(i, "error", NoName)
    <3>1. loc[i].req.command \in {"register", "login"}
      BY <1>1, <2>3, RequestTypes
    <3>2. QED BY <1>7, <2>1, <2>3, <3>1
  <2>4. QED BY <1>15, <2>2, <2>3 DEF OpenFails
<1>16. QED
  BY <1>6, <1>8, <1>9, <1>10, <1>11, <1>12, <1>13, <1>14, <1>15 DEF StepOf

(* The thread's own step. *)
LEMMA ThreadConversation ==
  ASSUME IInv, [Next]_vars, NEW i \in Slot, StepOf(i), pc'[i] # "none"
  PROVE  Conversation(i, Peer(i))'
<1>1. TypeOK /\ SocketsAreOwned
  BY DEF IInv
<1>2. PICK c \in Client : c = Peer(i)
  BY <1>1, ThreadRuns, ServedSlot
<1>3. Conversation(i, c) /\ ClientOK(c)
  BY <1>2, ThreadRuns DEF IInv
<1>4. cl' = cl /\ pc \in [Slot -> Labels] /\ clients \in [Slot -> ClientInfo]
      /\ inbox \in [Client -> Seq(Message)]
  BY <1>1, ThreadsLeaveClients DEF TypeOK
<1>5. ~Cleanup(i)
  BY <1>4 DEF Cleanup, Goto
<1>6. Peer(i)' = c
  <2>1. sockets' = sockets
    BY <1>5 DEF StepOf, Receive, Disconnected, RegScan, OpenFails, RegAppend, LoginScan,
                LoginWrite, LoginSet, Group, SendReply
  <2>2. clients'[i].sockfd = clients[i].sockfd
    BY <1>4, <1>5 DEF StepOf, Receive, Disconnected, RegScan, OpenFails, RegAppend,
                      LoginScan, LoginWrite, LoginSet, Group, SendReply, ClientInfo
  <2>3. QED BY <1>2, <2>1, <2>2 DEF Peer
<1>7. CASE cl[c].pc = "gone"
  BY <1>4, <1>6, <1>7 DEF Conversation
<1>8. ASSUME pc[i] = "recv", inbox[c] # <<>>, cl[c].pc # "gone"
      PROVE  /\ Receive(i) /\ UNCHANGED <<outbox, clients>>
             /\ pc'[i] = Dispatch[Head(inbox[c]).command] /\ loc'[i].req = Head(inbox[c])
             /\ Head(inbox[c]) \in Message /\ inbox'[c] = Tail(inbox[c])
  <2>1. Receive(i)
    BY <1>2, <1>8 DEF StepOf, Receive, Disconnected, RegScan, OpenFails, RegAppend,
                      LoginScan, LoginWrite, LoginSet, Group, SendReply, Cleanup
  <2>2. UNCHANGED <<outbox, clients>> /\ inbox'[c] = Tail(inbox[c])
    BY <1>2, <1>4, <2>1 DEF Receive
  <2>3. QED BY <1>1, <1>2, <2>1, <2>2, ReceiveLocals
<1>9. CASE LoggedOut(i, c) /\ cl[c].pc # "gone"
  <2>1. pc[i] = "recv" /\ inbox[c] # <<>> /\ Head(inbox[c]) = Logout
    BY <1>5, <1>9 DEF LoggedOut, StepOf, Receive, Disconnected, RegScan, OpenFails,
                      RegAppend, LoginScan, LoginWrite, LoginSet, Group, SendReply
  <2>2. pc'[i] = "cleanup" /\ outbox' = outbox
    BY <1>8, <1>9, <2>1, DispatchKinds
  <2>3. LoggedOut(i, c)'
    BY <1>4, <1>9, <2>2 DEF LoggedOut
  <2>4. QED BY <1>6, <2>3 DEF Conversation
<1>10. CASE Idle(i, c) \/ Answered(i, c)
  BY <1>2, <1>10 DEF Idle, Answered, StepOf, Receive, Disconnected, RegScan, OpenFails,
                     RegAppend, LoginScan, LoginWrite, LoginSet, Group, SendReply,
                     Cleanup
<1>11. CASE Asked(i, c) /\ Same(i, c)
  <2>1. /\ cl[c].pc = "wait" /\ pc[i] = "recv" /\ outbox[c] = <<>>
        /\ inbox[c] = <<cl[c].asked>> /\ Head(inbox[c]) = cl[c].asked
        /\ inbox[c] # <<>> /\ Tail(inbox[c]) = <<>>
    BY <1>11 DEF Asked
  <2>2. /\ UNCHANGED <<outbox, clients>> /\ inbox'[c] = <<>>
        /\ pc'[i] = Dispatch[cl[c].asked.command] /\ loc'[i].req = cl[c].asked
        /\ cl[c].asked \in Message
    BY <1>8, <2>1
  <2>3. cl[c].asked # Logout /\ cl[c].asked # Truncated
    <3>1. cl[c].asked \in AuthRequest \cup {GroupCmd}
      BY <1>3, <2>1 DEF ClientOK, Offered
    <3>2. QED BY <3>1, MessageKinds DEF AuthCommand
  <2>4. pc'[i] \in {"reg_scan", "login_scan", "group"}
    BY <2>2, <2>3, DispatchKinds
  <2>5. Working(i, c)'
    BY <1>4, <2>1, <2>2, <2>4 DEF Working
  <2>6. Same(i, c)'
    BY <1>4, <1>11, <2>2 DEF Same
  <2>7. QED BY <1>6, <2>5, <2>6 DEF Conversation
<1>12. CASE Working(i, c) /\ Same(i, c)
  <2>1. Conversation(i, c)'
    BY <1>2, <1>12, HandlerConversation
  <2>2. QED BY <1>6, <2>1
<1>13. QED BY <1>3, <1>7, <1>9, <1>10, <1>11, <1>12 DEF Conversation

(* A request on its way to the thread. *)
LEMMA AskMoves ==
  ASSUME TypeOK, NEW c \in Client, link[c] = "accepted", Ask(c)
  PROVE  \E m \in Message :
           /\ cl'[c].pc = "wait" /\ cl'[c].asked = m
           /\ cl'[c].session_id = cl[c].session_id
           /\ cl'[c].current_user = cl[c].current_user
           /\ inbox'[c] = Append(inbox[c], m) /\ outbox'[c] = outbox[c]
<1>1. PICK m \in Offered(c) : /\ cl' = [cl EXCEPT ![c].pc = "wait", ![c].asked = m]
                              /\ Deliver(c, m)
  BY DEF Ask
<1>2. /\ cl'[c].pc = "wait" /\ cl'[c].asked = m
      /\ cl'[c].session_id = cl[c].session_id
      /\ cl'[c].current_user = cl[c].current_user
  BY <1>1, ClientMoves
<1>3. inbox'[c] = Append(inbox[c], m)
  BY <1>1 DEF Deliver, Open, TypeOK
<1>4. m \in Message /\ outbox' = outbox
  BY <1>1, MessageKinds DEF Offered, Ask
<1>5. QED BY <1>2, <1>3, <1>4

(* What is sent first is received first. *)
LEMMA HeadStays ==
  ASSUME NEW q \in Seq(Message), NEW m \in Message
  PROVE  /\ q # <<>> => Append(q, m) # <<>> /\ Head(Append(q, m)) = Head(q)
         /\ q = <<>> => Append(q, m) = <<m>> /\ Head(Append(q, m)) = m
<1>1. CASE q # <<>>
  <2>1. Len(q) \in Nat /\ Len(q) # 0 /\ Len(Append(q, m)) = Len(q) + 1
    BY <1>1
  <2>2. Append(q, m)[1] = q[1]
    BY <2>1
  <2>3. QED BY <1>1, <2>1, <2>2
<1>2. CASE q = <<>>
  <2>1. Append(q, m) = <<m>>
    BY <1>2
  <2>2. Head(<<m>>) = m
    OBVIOUS
  <2>3. QED BY <1>2, <2>1, <2>2
<1>3. QED BY <1>1, <1>2

(* A step of the client that the thread serves. *)
LEMMA ClientConversation ==
  ASSUME IInv, [Next]_vars, NEW j \in Slot, NEW c \in Client, pc[j] # "none", c = Peer(j),
         Connect(c) \/ Ask(c) \/ DoLogout(c) \/ Receipt(c) \/ Quit(c)
  PROVE  Conversation(j, c)'
<1>1. TypeOK /\ SocketsAreOwned /\ ClientOK(c) /\ Conversation(j, c)
  BY DEF IInv
<1>2. link[c] = "accepted"
  BY <1>1, ServedSlot
<1>3. pc' = pc /\ loc' = loc /\ clients' = clients
  BY ClientSteps DEF serverVars
<1>4. inbox \in [Client -> Seq(Message)] /\ inbox[c] \in Seq(Message)
  BY <1>1 DEF TypeOK
<1>5. ~Connect(c) /\ ~ReadFails(c)
  BY <1>1, <1>2 DEF Connect, ReadFails, ClientOK, Open
<1>6. CASE Ask(c)
  <2>1. PICK m \in Message :
          /\ cl'[c].pc = "wait" /\ cl'[c].asked = m
          /\ cl'[c].session_id = cl[c].session_id
          /\ cl'[c].current_user = cl[c].current_user
          /\ inbox'[c] = Append(inbox[c], m) /\ outbox'[c] = outbox[c]
    BY <1>1, <1>2, <1>6, AskMoves
  <2>2. cl[c].pc = "menu"
    BY <1>6 DEF Ask
  <2>3. CASE LoggedOut(j, c)
    <3>1. LoggedOut(j, c)'
      BY <1>3, <1>4, <2>1, <2>3, HeadStays DEF LoggedOut
    <3>2. QED BY <3>1 DEF Conversation
  <2>4. CASE Idle(j, c) /\ Same(j, c)
    <3>1. Same(j, c)'
      BY <1>3, <2>1, <2>4 DEF Same
    <3>2. Asked(j, c)'
      BY <1>3, <1>4, <2>1, <2>4, HeadStays DEF Asked, Idle
    <3>3. QED BY <3>1, <3>2 DEF Conversation
  <2>5. QED
    BY <1>1, <2>2, <2>3, <2>4 DEF Conversation, Asked, Working, Answered
<1>7. CASE DoLogout(c)
  <2>1. cl'[c].session_id = 0
    <3>1. cl'[c] = AtMenu(0, NoName)
      BY <1>1, <1>7, ClientMoves
    <3>2. QED BY <3>1, MenuFields
  <2>2. cl[c].session_id # 0 /\ cl[c].pc = "menu" /\ outbox' = outbox
        /\ inbox'[c] = Append(inbox[c], Logout)
    BY <1>2, <1>4, <1>7 DEF DoLogout, Deliver, Open
  <2>3. Idle(j, c)
    BY <1>1, <2>2 DEF Conversation, LoggedOut, Asked, Working, Answered
  <2>4. pc'[j] = "recv" /\ outbox'[c] = <<>> /\ inbox'[c] # <<>> /\ Head(inbox'[c]) = Logout
    BY <1>3, <1>4, <2>2, <2>3, HeadStays, MessageKinds DEF Idle
  <2>5. LoggedOut(j, c)'
    BY <2>1, <2>4 DEF LoggedOut
  <2>6. QED BY <2>5 DEF Conversation
<1>8. CASE ReadReply(c)
  <2>1. cl[c].pc = "wait" /\ outbox[c] # <<>> /\ inbox' = inbox
    BY <1>8 DEF ReadReply
  <2>2. Answered(j, c) /\ Same(j, c)
    BY <1>1, <2>1 DEF Conversation, LoggedOut, Idle, Asked, Working
  <2>3. PICK r \in ReplyMessage : /\ outbox[c] = <<r>> /\ LoggedIn(j, c, r)
                                  /\ r.session_id = clients[j].session_id
    BY <2>2 DEF Answered
  <2>4. ReplyOK(c, r)
    <3>1. PICK q \in ReplyMessage : outbox[c] = <<q>> /\ ReplyOK(c, q)
      BY <1>1, <2>1 DEF ClientOK
    <3>2. q = r
      BY <2>3, <3>1
    <3>3. QED BY <3>1, <3>2
  <2>5. /\ outbox'[c] = <<>>
        /\ cl[c].asked.command = "login" /\ r.status = "success" =>
             cl'[c] = AtMenu(r.session_id, cl[c].asked.username)
        /\ ~(cl[c].asked.command = "login" /\ r.status = "success") =>
             cl'[c] = AtMenu(cl[c].session_id, cl[c].current_user)
    BY <1>1, <1>8, <2>3, ReplyRead
  <2>6. cl'[c].pc = "menu"
    BY <2>5, MenuFields
  <2>7. Same(j, c)'
    <3>1. CASE cl[c].asked.command = "login" /\ r.status = "success"
      <4>1. cl'[c].session_id = r.session_id /\ cl'[c].current_user = cl[c].asked.username
        BY <2>5, <3>1, MenuFields
      <4>2. clients[j].is_logged_in /\ clients[j].username = cl[c].asked.username
        BY <2>3, <2>4, <3>1 DEF LoggedIn, ReplyOK
      <4>3. QED BY <1>3, <2>3, <4>1, <4>2 DEF Same
    <3>2. CASE ~(cl[c].asked.command = "login" /\ r.status = "success")
      <4>1. /\ cl'[c].session_id = cl[c].session_id
            /\ cl'[c].current_user = cl[c].current_user
        BY <2>5, <3>2, MenuFields
      <4>2. QED BY <1>3, <2>2, <4>1 DEF Same
    <3>3. QED BY <3>1, <3>2
  <2>8. Idle(j, c)'
    BY <1>3, <2>1, <2>2, <2>5, <2>6 DEF Idle, Answered
  <2>9. QED BY <2>7, <2>8 DEF Conversation
<1>9. CASE Quit(c)
  <2>1. cl'[c].pc = "gone"
    <3>1. cl'[c] = NotRunning("gone")
      BY <1>1, <1>9, ClientMoves
    <3>2. QED BY <3>1, MenuFields
  <2>2. QED BY <2>1 DEF Conversation
<1>10. QED BY <1>5, <1>6, <1>7, <1>8, <1>9 DEF Receipt

(* What accept does to each thread. *)
LEMMA AcceptPeers ==
  ASSUME TypeOK, SocketsAreOwned, NEW c \in Client, Accept(c), NEW j \in Slot, pc'[j] # "none"
  PROVE  \/ pc'[j] = "recv" /\ Peer(j)' = c
         \/ /\ pc[j] # "none" /\ pc'[j] = pc[j] /\ clients'[j] = clients[j]
            /\ Peer(j)' = Peer(j)
<1>1. PICK i \in Slot, d \in Descriptor :
        /\ clients[i].sockfd = -1 /\ sockets[d] = Nobody
        /\ add_client(i, d)
        /\ sockets' = [sockets EXCEPT ![d] = c]
        /\ pc' = [pc EXCEPT ![i] = "recv"]
  BY FirstFree DEF Accept
<1>2. pc \in [Slot -> Labels] /\ clients \in [Slot -> ClientInfo]
      /\ sockets \in [Descriptor -> Client \cup {Nobody}]
  BY DEF TypeOK
<1>3. CASE j = i
  <2>1. clients'[i].sockfd = d
    BY <1>1, <1>2 DEF add_client, ClientInfo
  <2>2. QED BY <1>1, <1>2, <1>3, <2>1 DEF Peer
<1>4. CASE j # i
  <2>1. pc'[j] = pc[j] /\ clients'[j] = clients[j]
    BY <1>1, <1>2, <1>4 DEF add_client
  <2>2. clients[j].sockfd \in Descriptor /\ Peer(j) \in Client
        /\ Peer(j) = sockets[clients[j].sockfd]
    BY <2>1, ServedSlot
  <2>3. clients[j].sockfd # d
    BY <1>1, <2>2, NobodyAssumption
  <2>4. Peer(j)' = Peer(j)
    BY <1>1, <1>2, <2>1, <2>2, <2>3 DEF Peer
  <2>5. QED BY <2>1, <2>4
<1>5. QED BY <1>3, <1>4

(* The accept loop. *)
LEMMA GreetConversation ==
  ASSUME IInv, [Next]_vars, NEW c \in Client, Greet(c), NEW j \in Slot, pc'[j] # "none"
  PROVE  Conversation(j, Peer(j))'
<1>1. TypeOK /\ SocketsAreOwned /\ ClientOK(c) /\ AccountsKept(users, users')
  BY AccountsStay DEF IInv
<1>2. link[c] = "queued" /\ UNCHANGED <<cl, outbox>> /\ loc'[j] = loc[j]
  BY <1>1, GreetThreads DEF Greet, Accept, Reject
<1>3. ASSUME NEW e \in Client, pc[j] # "none", e = Peer(j), pc'[j] = pc[j],
             clients'[j] = clients[j], inbox'[e] = inbox[e]
      PROVE  Conversation(j, e)'
  <2>1. Conversation(j, e)
    BY <1>3 DEF IInv
  <2>2. QED BY <1>1, <1>2, <1>3, <2>1, ConversationStays
<1>4. CASE Accept(c)
  <2>1. inbox' = inbox
    BY <1>4 DEF Accept
  <2>2. CASE pc'[j] = "recv" /\ Peer(j)' = c
    <3>1. cl[c].session_id = 0 /\ outbox[c] = <<>>
      BY <1>1, <1>2 DEF ClientOK
    <3>2. cl[c].pc \in {"menu", "wait", "gone"}
      <4>1. cl[c] \in ClientGlobals
        BY <1>1 DEF TypeOK
      <4>2. cl[c].pc \in {"start", "menu", "wait", "gone"}
        BY <4>1 DEF ClientGlobals
      <4>3. QED BY <1>1, <1>2, <4>2 DEF ClientOK
    <3>3. Same(j, c)'
      BY <1>2, <3>1 DEF Same
    <3>4. CASE cl[c].pc = "menu"
      <4>1. Idle(j, c)'
        BY <1>1, <1>2, <2>1, <2>2, <3>1, <3>4 DEF Idle, ClientOK
      <4>2. QED BY <2>2, <3>3, <4>1 DEF Conversation
    <3>5. CASE cl[c].pc = "wait"
      <4>1. Asked(j, c)'
        BY <1>1, <1>2, <2>1, <2>2, <3>1, <3>5 DEF Asked, ClientOK
      <4>2. QED BY <2>2, <3>3, <4>1 DEF Conversation
    <3>6. CASE cl[c].pc = "gone"
      BY <1>2, <2>2, <3>6 DEF Conversation
    <3>7. QED BY <3>2, <3>4, <3>5, <3>6
  <2>3. CASE /\ pc[j] # "none" /\ pc'[j] = pc[j] /\ clients'[j] = clients[j]
             /\ Peer(j)' = Peer(j)
    <3>1. PICK e \in Client : e = Peer(j)
      BY <1>1, <2>3, ServedSlot
    <3>2. Conversation(j, e)'
      BY <1>3, <2>1, <2>3, <3>1
    <3>3. QED BY <2>3, <3>1, <3>2
  <2>4. QED BY <1>1, <1>4, <2>2, <2>3, AcceptPeers
<1>5. CASE Reject(c)
  <2>1. pc' = pc /\ sockets' = sockets
    BY <1>5 DEF Reject
  <2>2. PICK e \in Client : e = Peer(j) /\ link[e] = "accepted"
    BY <1>1, <2>1, ServedSlot
  <2>3. clients'[j] = clients[j]
    <3>1. CASE FreeSlots = {} /\ UNCHANGED clients
      BY <3>1
    <3>2. CASE /\ FreeSlots # {}
               /\ clients' = [clients EXCEPT ![Min(FreeSlots)].session_id = next_session_id]
      <4>1. Min(FreeSlots) # j
        BY <1>1, <2>1, <3>2, FirstFreeSlot DEF SocketsAreOwned
      <4>2. QED BY <1>1, <3>2, <4>1 DEF TypeOK
    <3>3. QED BY <1>5, <3>1, <3>2 DEF Reject
  <2>4. inbox'[e] = inbox[e]
    BY <1>2, <1>5, <2>2 DEF Reject, Hangup
  <2>5. Conversation(j, e)'
    BY <1>3, <2>1, <2>2, <2>3, <2>4
  <2>6. Peer(j)' = e
    BY <2>1, <2>2, <2>3 DEF Peer
  <2>7. QED BY <2>5, <2>6
<1>6. QED BY <1>4, <1>5 DEF Greet

LEMMA ConversationStep ==
  IInv /\ [Next]_vars => \A j \in Slot : pc'[j] # "none" => Conversation(j, Peer(j))'
<1>1. SUFFICES ASSUME IInv, [Next]_vars, NEW j \in Slot, pc'[j] # "none"
               PROVE  Conversation(j, Peer(j))'
  OBVIOUS
<1>2. TypeOK /\ SocketsAreOwned /\ AccountsKept(users, users')
  BY <1>1, AccountsStay DEF IInv
<1>3. ASSUME UNCHANGED serverVars
      PROVE  /\ pc[j] # "none" /\ Peer(j) \in Client /\ Conversation(j, Peer(j))
             /\ Peer(j)' = Peer(j)
             /\ pc'[j] = pc[j] /\ loc'[j] = loc[j] /\ clients'[j] = clients[j]
  <2>1. pc[j] # "none"
    BY <1>1, <1>3 DEF serverVars
  <2>2. QED BY <1>1, <1>2, <1>3, <2>1, ServedSlot DEF IInv, serverVars, Peer
<1>4. CASE UNCHANGED vars
  <2>1. PICK e \in Client : /\ e = Peer(j) /\ Conversation(j, e) /\ Peer(j)' = e
                            /\ pc'[j] = pc[j] /\ loc'[j] = loc[j] /\ clients'[j] = clients[j]
    BY <1>3, <1>4 DEF vars
  <2>2. Conversation(j, e)'
    BY <1>2, <1>4, <2>1, ConversationStays DEF vars
  <2>3. QED BY <2>1, <2>2
<1>5. ASSUME NEW c \in Client,
             Connect(c) \/ Ask(c) \/ DoLogout(c) \/ Receipt(c) \/ Quit(c)
      PROVE  Conversation(j, Peer(j))'
  <2>1. PICK e \in Client : /\ e = Peer(j) /\ Conversation(j, e) /\ Peer(j)' = e
                            /\ pc[j] # "none"
                            /\ pc'[j] = pc[j] /\ loc'[j] = loc[j] /\ clients'[j] = clients[j]
    BY <1>3, <1>5, ClientSteps
  <2>2. CASE e = c
    <3>1. Conversation(j, c)'
      BY <1>1, <1>5, <2>1, <2>2, ClientConversation
    <3>2. QED BY <2>1, <2>2, <3>1
  <2>3. CASE e # c
    <3>1. cl'[e] = cl[e] /\ inbox'[e] = inbox[e] /\ outbox'[e] = outbox[e]
      BY <1>2, <1>5, <2>3, OtherClients
    <3>2. Conversation(j, e)'
      BY <1>2, <2>1, <3>1, ConversationStays
    <3>3. QED BY <2>1, <3>2
  <2>4. QED BY <2>2, <2>3
<1>6. ASSUME NEW c \in Client, Greet(c) PROVE Conversation(j, Peer(j))'
  BY <1>1, <1>6, GreetConversation
<1>7. ~Crash
  BY <1>1 DEF Crash
<1>8. ASSUME NEW i \in Slot, StepOf(i) PROVE Conversation(j, Peer(j))'
  BY <1>1, <1>8, OtherConversation, ThreadConversation
<1>9. QED BY <1>1, <1>4, <1>5, <1>6, <1>7, <1>8 DEF Next, Step, StepOf

-----------------------------------------------------------------------------
(* The theorems. *)
LEMMA InitIInv == Init => IInv
<1>1. SUFFICES ASSUME Init PROVE IInv
  OBVIOUS
<1>2. 0 \in SessionId /\ 1 \in SessionId
  BY SessionAssumption DEF SessionId
<1>3. TypeOK
  <2>1. cl \in [Client -> ClientGlobals]
    <3>1. NotRunning("start") \in ClientGlobals
      BY <1>2 DEF NotRunning, Running, ClientGlobals
    <3>2. QED BY <1>1, <3>1 DEF Init
  <2>2. clients \in [Slot -> ClientInfo] /\ loc \in [Slot -> Locals]
    BY <1>1, <1>2 DEF Init, ClientInfo, Locals, NoLocals, NoReply, Reply, ReplyTo
  <2>3. /\ inbox \in [Client -> Seq(Message)] /\ outbox \in [Client -> Seq(ReplyMessage)]
        /\ sockets \in [Descriptor -> Client \cup {Nobody}] /\ pc \in [Slot -> Labels]
        /\ link \in [Client -> {"none", "queued", "accepted", "closed"}]
    BY <1>1 DEF Init, Labels
  <2>4. users \in Seq(UserRecord) /\ next_session_id \in SessionId
        /\ asks \in Nat /\ crashes \in Nat
    BY <1>1, <1>2, SeedAssumption DEF Init
  <2>5. QED BY <2>1, <2>2, <2>3, <2>4 DEF TypeOK
<1>4. /\ \A i \in Slot : pc[i] = "none" /\ clients[i].sockfd = -1 /\ ~clients[i].is_logged_in
      /\ \A d \in Descriptor : sockets[d] = Nobody
      /\ \A c \in Client : link[c] = "none" /\ inbox[c] = <<>> /\ outbox[c] = <<>>
  BY <1>1 DEF Init
<1>5. SocketsAreOwned
  BY <1>4 DEF SocketsAreOwned
<1>6. LoginStillValid /\ \A i \in Slot : RequestOK(i)
  BY <1>4 DEF LoginStillValid, RequestOK
<1>7. \A c \in Client : cl[c].pc = "start" /\ cl[c].session_id = 0
  BY <1>1 DEF Init, NotRunning, Running
<1>8. \A c \in Client : ClientOK(c)
  BY <1>4, <1>7 DEF ClientOK
<1>9. QED BY <1>3, <1>4, <1>5, <1>6, <1>8 DEF IInv

(* The inductive invariant, from which the safety properties follow.       *)
THEOREM Invariance == Spec => []IInv
<1>1. IInv /\ [Next]_vars => IInv'
  <2>1. SUFFICES ASSUME IInv, [Next]_vars PROVE IInv'
    OBVIOUS
  <2>2. TypeOK' /\ SocketsAreOwned' /\ LoginStillValid'
    BY <2>1, TypeStep, OwnedStep, LoginStep
  <2>3. \A i \in Slot : RequestOK(i)'
    BY <2>1, RequestStep
  <2>4. \A c \in Client : ClientOK(c)'
    BY <2>1, ClientStep
  <2>5. \A i \in Slot : pc'[i] # "none" => Conversation(i, Peer(i))'
    BY <2>1, ConversationStep
  <2>6. QED BY <2>2, <2>3, <2>4, <2>5 DEF IInv
<1>2. QED BY InitIInv, <1>1, PTL DEF Spec

(* users.dat holds whole records, and every variable keeps its type. *)
THEOREM TypeCorrect == Spec => []TypeOK
<1>1. IInv => TypeOK
  BY DEF IInv
<1>2. QED BY Invariance, <1>1, PTL

(* Slots, threads, descriptors and connections belong together one by one, *)
(* through add_client, remove_client, a table that is full and a crash.    *)
THEOREM Ownership == Spec => []SocketsAreOwned
<1>1. IInv => SocketsAreOwned
  BY DEF IInv
<1>2. QED BY Invariance, <1>1, PTL

(* Between authenticate_user's comparison and the marking of the slot, no  *)
(* registration and no other login makes the comparison wrong.             *)
THEOREM LoginsStayValid == Spec => []LoginStillValid
<1>1. IInv => LoginStillValid
  BY DEF IInv
<1>2. QED BY Invariance, <1>1, PTL

(* A client that shows a name is logged in under it in the slot that       *)
(* serves it, whatever the slot's last connection left there.              *)
THEOREM OneUserAtBothEnds == Spec => []SameUserBothEnds
<1>1. ASSUME IInv PROVE SameUserBothEnds
  <2>1. SUFFICES ASSUME NEW i \in Slot, pc[i] # "none", cl[Peer(i)].session_id # 0
                 PROVE  /\ clients[i].is_logged_in
                        /\ clients[i].username = cl[Peer(i)].current_user
                        /\ clients[i].session_id = cl[Peer(i)].session_id
    BY DEF SameUserBothEnds
  <2>2. Peer(i) \in Client
    BY <1>1, <2>1, ServedSlot DEF IInv
  <2>3. Conversation(i, Peer(i)) /\ ClientOK(Peer(i))
    BY <1>1, <2>1, <2>2 DEF IInv
  <2>4. Same(i, Peer(i))
    BY <2>1, <2>3 DEF Conversation, LoggedOut, ClientOK
  <2>5. QED BY <2>1, <2>4 DEF Same
<1>2. QED BY Invariance, <1>1, PTL

(* What a client reads is the answer to what it asked last: the logout     *)
(* without a reply does not put requests and replies out of step.          *)
THEOREM StepForStep == Spec => []RepliesInStep
<1>1. ASSUME IInv PROVE RepliesInStep
  <2>1. SUFFICES ASSUME NEW c \in Client, outbox[c] # <<>>
                 PROVE  /\ Len(outbox[c]) = 1
                        /\ cl[c].pc = "wait" /\ Head(outbox[c]).to = cl[c].asked.command
    BY DEF RepliesInStep
  <2>2. PICK r \in ReplyMessage : /\ cl[c].pc = "wait" /\ outbox[c] = <<r>>
                                  /\ ReplyOK(c, r)
    BY <1>1, <2>1 DEF IInv, ClientOK
  <2>3. Head(outbox[c]) = r /\ Len(outbox[c]) = 1
    BY <2>2
  <2>4. QED BY <2>2, <2>3 DEF ReplyOK
<1>2. QED BY Invariance, <1>1, PTL

(* A group command runs in the name its client shows, and a client that    *)
(* shows one is never told to log in first.                                *)
THEOREM NobodyElse == Spec => []ServedAsSelf
<1>1. ASSUME IInv PROVE ServedAsSelf
  <2>1. SUFFICES ASSUME NEW c \in Client, outbox[c] # <<>>, Head(outbox[c]).to = "group"
                 PROVE  /\ Head(outbox[c]).status = "success"
                        /\ Head(outbox[c]).user = cl[c].current_user
    BY DEF ServedAsSelf
  <2>2. PICK r \in ReplyMessage : outbox[c] = <<r>> /\ ReplyOK(c, r)
    BY <1>1, <2>1 DEF IInv, ClientOK
  <2>3. Head(outbox[c]) = r
    BY <2>2
  <2>4. QED BY <2>1, <2>2, <2>3 DEF ReplyOK
<1>2. QED BY Invariance, <1>1, PTL

(* "Registration successful" is heard only of an account that is in the    *)
(* file, and it stays there through every crash.                           *)
THEOREM Durability == Spec => []RegistrationIsDurable
<1>1. ASSUME IInv PROVE RegistrationIsDurable
  <2>1. SUFFICES ASSUME NEW c \in Client, outbox[c] # <<>>,
                        Head(outbox[c]).to = "register", Head(outbox[c]).status = "success"
                 PROVE  user_exists(users, cl[c].asked.username)
    BY DEF RegistrationIsDurable
  <2>2. PICK r \in ReplyMessage : outbox[c] = <<r>> /\ ReplyOK(c, r)
    BY <1>1, <2>1 DEF IInv, ClientOK
  <2>3. Head(outbox[c]) = r
    BY <2>2
  <2>4. QED BY <2>1, <2>2, <2>3 DEF ReplyOK
<1>2. QED BY Invariance, <1>1, PTL

-----------------------------------------------------------------------------
(* Session ids, as long as the counter has not come round to 0: after      *)
(* 2^32 - 1 connections it does, and the code has no answer to that.       *)
IdsBelow ==
  /\ next_session_id # 0
  /\ \A i \in Slot : clients[i].sockfd # -1 =>
       clients[i].session_id # 0 /\ clients[i].session_id < next_session_id
  /\ SessionIdsDiffer

LEMMA IdsStay ==
  ASSUME IdsBelow, next_session_id' = next_session_id,
         \A i \in Slot : /\ clients'[i].sockfd = clients[i].sockfd \/ clients'[i].sockfd = -1
                         /\ clients'[i].session_id = clients[i].session_id
  PROVE  IdsBelow'
BY DEF IdsBelow, SessionIdsDiffer

(* A new connection takes the counter's value, which no other has. *)
LEMMA IdTaken ==
  ASSUME IInv, IdsBelow, next_session_id' # 0, NEW i \in Slot, clients[i].sockfd = -1,
         next_session_id' = (next_session_id + 1) % SessionSpace,
         clients'[i].session_id = next_session_id,
         \A j \in Slot : j # i => clients'[j] = clients[j]
  PROVE  IdsBelow'
<1>1. next_session_id' = next_session_id + 1
  <2>1. PICK a \in Nat, n \in Nat : a = next_session_id /\ n = SessionSpace /\ a < n /\ n > 1
    BY SessionAssumption DEF IInv, TypeOK, SessionId
  <2>2. (a + 1) % n = IF a + 1 = n THEN 0 ELSE a + 1
    BY <2>1
  <2>3. QED BY <2>1, <2>2
<1>2. PICK a \in Nat : a = next_session_id /\ a # 0 /\ next_session_id' = a + 1
  BY <1>1 DEF IInv, TypeOK, SessionId, IdsBelow
<1>3. ASSUME NEW j \in Slot, clients'[j].sockfd # -1
      PROVE  clients'[j].session_id # 0 /\ clients'[j].session_id < a + 1
             /\ (j # i => clients'[j].session_id # a)
  <2>1. CASE j = i
    BY <1>2, <2>1
  <2>2. CASE j # i
    <3>1. PICK s \in Nat : s = clients[j].session_id
      BY FieldTypes DEF IInv, SessionId
    <3>2. s # 0 /\ s < a
      BY <1>2, <1>3, <2>2, <3>1 DEF IdsBelow
    <3>3. QED BY <1>2, <2>2, <3>1, <3>2
  <2>3. QED BY <2>1, <2>2
<1>4. ASSUME NEW j \in Slot, NEW k \in Slot, clients'[j].sockfd # -1,
             clients'[k].sockfd # -1, clients'[j].session_id = clients'[k].session_id
      PROVE  j = k
  <2>1. CASE j # i /\ k # i
    BY <1>4, <2>1 DEF IdsBelow, SessionIdsDiffer
  <2>2. CASE j = i \/ k = i
    BY <1>2, <1>3, <1>4, <2>2
  <2>3. QED BY <2>1, <2>2
<1>5. SessionIdsDiffer'
  BY <1>3, <1>4 DEF SessionIdsDiffer
<1>6. QED BY <1>2, <1>3, <1>5 DEF IdsBelow

LEMMA IdsStep == IInv /\ IdsBelow /\ next_session_id' # 0 /\ [Next]_vars => IdsBelow'
<1>1. SUFFICES ASSUME IInv, IdsBelow, next_session_id' # 0, [Next]_vars PROVE IdsBelow'
  OBVIOUS
<1>2. TypeOK /\ clients \in [Slot -> ClientInfo]
  BY <1>1 DEF IInv, TypeOK
<1>3. CASE UNCHANGED <<clients, next_session_id>>
  BY <1>1, <1>3, IdsStay
<1>4. ASSUME NEW c \in Client, Accept(c) PROVE IdsBelow'
  <2>1. PICK i \in Slot, d \in Descriptor : clients[i].sockfd = -1 /\ add_client(i, d)
    BY <1>2, <1>4, FirstFree DEF Accept
  <2>2. /\ clients'[i].session_id = next_session_id
        /\ \A j \in Slot : j # i => clients'[j] = clients[j]
        /\ next_session_id' = (next_session_id + 1) % SessionSpace
    BY <1>2, <2>1 DEF add_client, ClientInfo
  <2>3. QED BY <1>1, <2>1, <2>2, IdTaken
<1>5. ASSUME NEW c \in Client, Reject(c), ~UNCHANGED <<clients, next_session_id>>
      PROVE  IdsBelow'
  <2>1. FreeSlots # {}
        /\ clients' = [clients EXCEPT ![Min(FreeSlots)].session_id = next_session_id]
        /\ next_session_id' = (next_session_id + 1) % SessionSpace
    BY <1>5 DEF Reject
  <2>2. PICK i \in Slot : i = Min(FreeSlots) /\ clients[i].sockfd = -1
    BY <1>2, <2>1, FirstFreeSlot
  <2>3. /\ clients'[i].session_id = next_session_id
        /\ \A j \in Slot : j # i => clients'[j] = clients[j]
    BY <1>2, <2>1, <2>2 DEF ClientInfo
  <2>4. QED BY <1>1, <2>1, <2>2, <2>3, IdTaken
<1>6. ASSUME NEW i \in Slot, LoginSet(i) PROVE IdsBelow'
  <2>1. \A j \in Slot : /\ clients'[j].sockfd = clients[j].sockfd
                        /\ clients'[j].session_id = clients[j].session_id
    BY <1>2, <1>6 DEF LoginSet, ClientInfo
  <2>2. QED BY <1>1, <1>6, <2>1, IdsStay DEF LoginSet
<1>7. ASSUME NEW i \in Slot, Cleanup(i) PROVE IdsBelow'
  <2>1. \A j \in Slot : /\ clients'[j].sockfd = clients[j].sockfd \/ clients'[j].sockfd = -1
                        /\ clients'[j].session_id = clients[j].session_id
    BY <1>2, <1>7 DEF Cleanup, remove_client, ClientInfo
  <2>2. QED BY <1>1, <1>7, <2>1, IdsStay DEF Cleanup
<1>8. CASE Crash
  BY <1>1, <1>8 DEF Crash, IdsBelow, SessionIdsDiffer
<1>9. ASSUME NEW i \in Slot, StepOf(i), ~LoginSet(i), ~Cleanup(i)
      PROVE  UNCHANGED <<clients, next_session_id>>
  BY <1>9 DEF StepOf, Receive, Disconnected, RegScan, OpenFails, RegAppend, LoginScan,
              LoginWrite, Group, SendReply
<1>10. ASSUME NEW c \in Client,
              Connect(c) \/ Ask(c) \/ DoLogout(c) \/ Receipt(c) \/ Quit(c)
       PROVE  UNCHANGED <<clients, next_session_id>>
  BY <1>10, ClientSteps DEF serverVars
<1>11. QED
  BY <1>1, <1>3, <1>4, <1>5, <1>6, <1>7, <1>8, <1>9, <1>10
     DEF Next, Greet, Step, StepOf, vars, serverVars

(* Connections that are open together have different session ids, and none *)
(* has 0, as long as the counter does not wrap around.                     *)
THEOREM DifferentIds == Spec /\ [](next_session_id # 0) => []SessionIdsDiffer
<1>1. Init => IdsBelow
  <2>1. SUFFICES ASSUME Init PROVE IdsBelow
    OBVIOUS
  <2>2. next_session_id = 1 /\ \A i \in Slot : clients[i].sockfd = -1
    BY <2>1 DEF Init
  <2>3. QED BY <2>2 DEF IdsBelow, SessionIdsDiffer
<1>2. IInv /\ IdsBelow /\ (next_session_id # 0)' /\ [Next]_vars => IdsBelow'
  BY IdsStep
<1>3. IdsBelow => SessionIdsDiffer
  BY DEF IdsBelow
<1>4. QED BY Invariance, <1>1, <1>2, <1>3, PTL DEF Spec

-----------------------------------------------------------------------------
(* A user the server keeps logged in, whose client shows the               *)
(* authentication menu: the success of the login is on its way to it, or   *)
(* its logout is on its way to the server.                                 *)
IsWelcome(r) == r.to = "login" /\ r.status = "success"

Told(i, c) ==
  /\ cl[c].pc = "wait"
  /\ \/ pc[i] = "reply" /\ IsWelcome(loc[i].reply)
     \/ pc[i] = "recv" /\ \E r \in ReplyMessage : outbox[c] = <<r>> /\ IsWelcome(r)

Heard(i, c) ==
  clients[i].is_logged_in =>
    \/ cl[c].pc = "gone"
    \/ LoggedOut(i, c)
    \/ cl[c].session_id # 0
    \/ Told(i, c)

HInv == \A i \in Slot : pc[i] # "none" => Heard(i, Peer(i))

LEMMA HeardStays ==
  ASSUME NEW j \in Slot, NEW e \in Client, Heard(j, e),
         cl'[e] = cl[e], inbox'[e] = inbox[e], outbox'[e] = outbox[e],
         pc'[j] = pc[j], loc'[j] = loc[j], clients'[j] = clients[j]
  PROVE  Heard(j, e)'
<1>1. /\ LoggedOut(j, e) => LoggedOut(j, e)'
      /\ Told(j, e) => Told(j, e)'
  BY DEF LoggedOut, Told
<1>2. QED BY <1>1 DEF Heard

(* A step of another thread. *)
LEMMA OtherHeard ==
  ASSUME IInv, HInv, NEW i \in Slot, StepOf(i),
         NEW j \in Slot, j # i, pc'[j] # "none"
  PROVE  Heard(j, Peer(j))'
<1>1. TypeOK /\ SocketsAreOwned
  BY DEF IInv
<1>2. pc'[j] = pc[j] /\ loc'[j] = loc[j] /\ clients'[j] = clients[j]
  BY <1>1, OtherThreads
<1>3. PICK e \in Client, d \in Descriptor :
        /\ e = Peer(j) /\ d = clients[j].sockfd /\ sockets[d] = e
  BY <1>1, <1>2, ServedSlot
<1>4. e # Peer(i) /\ d # clients[i].sockfd
  <2>1. pc[i] # "none"
    BY ThreadRuns
  <2>2. e # Peer(i)
    BY <1>1, <1>2, <1>3, <2>1 DEF SocketsAreOwned
  <2>3. QED BY <1>3, <2>2 DEF Peer
<1>5. sockets'[d] = sockets[d]
  BY <1>1, <1>4 DEF TypeOK, StepOf, Receive, Disconnected, RegScan, OpenFails,
     RegAppend, LoginScan, LoginWrite, LoginSet, Group, SendReply, Cleanup,
     remove_client
<1>6. Peer(j)' = e
  BY <1>2, <1>3, <1>5 DEF Peer
<1>7. cl' = cl /\ inbox'[e] = inbox[e] /\ outbox'[e] = outbox[e]
  BY <1>1, <1>4, ThreadsLeaveClients, OtherPeers
<1>8. Heard(j, e)
  BY <1>2, <1>3 DEF HInv
<1>9. Heard(j, e)'
  BY <1>2, <1>7, <1>8, HeardStays
<1>10. QED BY <1>6, <1>9

(* The thread's own step: it marks the slot and tells the client, and it   *)
(* gives the slot back when it reads the logout.                           *)
LEMMA ThreadHeard ==
  ASSUME IInv, HInv, IInv', NEW i \in Slot, StepOf(i), pc'[i] # "none"
  PROVE  Heard(i, Peer(i))'
<1>1. TypeOK /\ SocketsAreOwned
  BY DEF IInv
<1>2. pc[i] # "none"
  BY ThreadRuns
<1>3. PICK c \in Client : c = Peer(i) /\ Heard(i, c) /\ Conversation(i, c)
  BY <1>1, <1>2, ServedSlot DEF HInv, IInv
<1>4. pc \in [Slot -> Labels] /\ loc \in [Slot -> Locals] /\ loc[i] \in Locals
      /\ clients \in [Slot -> ClientInfo] /\ clients[i] \in ClientInfo
  BY <1>1 DEF TypeOK
<1>5. ~Cleanup(i) /\ cl' = cl
  BY <1>4, ThreadsLeaveClients DEF Cleanup, Goto
<1>6. Peer(i)' = c
  <2>1. sockets' = sockets /\ clients'[i].sockfd = clients[i].sockfd
    BY <1>4, <1>5 DEF StepOf, Receive, Disconnected, RegScan, OpenFails, RegAppend,
       LoginScan, LoginWrite, LoginSet, Group, SendReply, ClientInfo
  <2>2. QED BY <1>3, <2>1 DEF Peer
<1>7. Conversation(i, c)'
  BY <1>6 DEF IInv
<1>8. SUFFICES ASSUME cl[c].pc # "gone", cl[c].session_id = 0, clients'[i].is_logged_in,
                      ~LoggedOut(i, c)'
               PROVE  Told(i, c)'
  BY <1>5, <1>6 DEF Heard
<1>9. ~LoggedOut(i, c)
  <2>1. SUFFICES ASSUME LoggedOut(i, c) PROVE FALSE
    OBVIOUS
  <2>2. pc[i] = "recv" /\ inbox[c] # <<>> /\ Head(inbox[c]) = Logout
    BY <1>5, <1>8, <1>3, <2>1 DEF LoggedOut, StepOf, Receive, Disconnected, RegScan,
       OpenFails, RegAppend, LoginScan, LoginWrite, LoginSet, Group, SendReply
  <2>3. Receive(i)
    BY <1>3, <1>5, <2>2 DEF StepOf, Receive, Disconnected, RegScan, OpenFails,
       RegAppend, LoginScan, LoginWrite, LoginSet, Group, SendReply
  <2>4. pc'[i] = "cleanup"
    BY <1>1, <1>3, <2>2, <2>3, ReceiveLocals, DispatchKinds
  <2>5. QED
    BY <1>5, <1>7, <1>8, <2>4 DEF Conversation, Idle, Asked, Working, Answered
<1>10. Idle(i, c) \/ Asked(i, c) \/ Working(i, c) \/ Answered(i, c)
  BY <1>3, <1>8, <1>9 DEF Conversation
<1>11. CASE LoginSet(i)
  <2>1. Finish(i, "success", NoName) /\ RequestOK(i)
    BY <1>11 DEF LoginSet, IInv
  <2>2. /\ pc'[i] = "reply" /\ loc'[i].reply.to = loc[i].req.command
        /\ loc'[i].reply.status = "success"
    BY <1>1, <2>1, FinishFields
  <2>3. loc[i].req.command = "login" /\ pc[i] = "login_set"
    BY <1>11, <2>1, RequestTypes DEF LoginSet
  <2>4. cl[c].pc = "wait"
    BY <1>10, <2>3 DEF Idle, Asked, Working, Answered
  <2>5. QED BY <1>5, <2>2, <2>3, <2>4 DEF Told, IsWelcome
<1>12. CASE ~LoginSet(i)
  <2>1. clients' = clients
    BY <1>5, <1>12 DEF StepOf, Receive, Disconnected, RegScan, OpenFails, RegAppend,
       LoginScan, LoginWrite, Group, SendReply
  <2>2. Told(i, c)
    BY <1>3, <1>8, <1>9, <2>1 DEF Heard
  <2>3. CASE pc[i] = "recv"
    <3>1. inbox[c] = <<>> /\ cl[c].pc = "wait"
      BY <1>10, <2>2, <2>3 DEF Told, Idle, Asked, Working, Answered
    <3>2. QED BY <1>3, <1>5, <1>12, <2>3, <3>1 DEF StepOf, Receive, Disconnected,
       RegScan, OpenFails, RegAppend, LoginScan, LoginWrite, LoginSet, Group, SendReply
  <2>4. CASE pc[i] = "reply" /\ IsWelcome(loc[i].reply)
    <3>1. SendReply(i)
      BY <1>5, <2>4 DEF StepOf, Receive, Disconnected, RegScan, OpenFails,
         RegAppend, LoginScan, LoginWrite, LoginSet, Group
    <3>2. cl[c].pc = "wait" /\ outbox[c] = <<>>
      BY <1>10, <2>2, <2>4 DEF Told, Idle, Asked, Working, Answered
    <3>3. PICK r : r = [to |-> loc[i].reply.to, status |-> loc[i].reply.status,
                        user |-> loc[i].reply.user, session_id |-> clients[i].session_id]
      OBVIOUS
    <3>4. pc'[i] = "recv" /\ outbox'[c] = <<r>>
      <4>1. outbox \in [Client -> Seq(ReplyMessage)]
        BY <1>1 DEF TypeOK
      <4>2. outbox' = [outbox EXCEPT ![c] = Append(@, r)]
        BY <1>3, <3>1, <3>2, <3>3 DEF SendReply
      <4>3. outbox'[c] = <<r>>
        BY <3>2, <4>1, <4>2
      <4>4. QED BY <1>4, <3>1, <4>3 DEF SendReply, Goto
    <3>5. r \in ReplyMessage
      <4>1. clients[i].session_id \in SessionId /\ loc[i].reply \in ReplyTo
        BY <1>1, <1>4, FieldTypes DEF Locals
      <4>2. QED BY <3>3, <4>1 DEF ReplyTo, ReplyMessage
    <3>6. IsWelcome(r)
      BY <2>4, <3>3 DEF IsWelcome
    <3>7. QED BY <1>5, <3>2, <3>4, <3>5, <3>6 DEF Told
  <2>5. QED BY <2>2, <2>3, <2>4 DEF Told
<1>13. QED BY <1>11, <1>12

(* The client's own step: told of its login it takes a session id that is  *)
(* not 0, and a logout goes out before anything else it sends.             *)
LEMMA ClientHeard ==
  ASSUME IInv, IdsBelow, IInv', NEW j \in Slot, NEW c \in Client, pc[j] # "none",
         c = Peer(j), Peer(j)' = c, Heard(j, c),
         Connect(c) \/ Ask(c) \/ DoLogout(c) \/ Receipt(c) \/ Quit(c)
  PROVE  Heard(j, c)'
<1>1. TypeOK /\ SocketsAreOwned /\ ClientOK(c) /\ Conversation(j, c)
  BY DEF IInv
<1>2. link[c] = "accepted"
  BY <1>1, ServedSlot
<1>3. pc' = pc /\ loc' = loc /\ clients' = clients
  BY ClientSteps DEF serverVars
<1>4. inbox \in [Client -> Seq(Message)] /\ inbox[c] \in Seq(Message)
  BY <1>1 DEF TypeOK
<1>5. ~Connect(c) /\ ~ReadFails(c)
  BY <1>1, <1>2 DEF Connect, ReadFails, ClientOK, Open
<1>6. CASE Ask(c)
  <2>1. PICK m \in Message :
          /\ cl'[c].session_id = cl[c].session_id
          /\ inbox'[c] = Append(inbox[c], m) /\ outbox'[c] = outbox[c]
    BY <1>1, <1>2, <1>6, AskMoves
  <2>2. cl[c].pc = "menu"
    BY <1>6 DEF Ask
  <2>3. LoggedOut(j, c) => LoggedOut(j, c)'
    BY <1>3, <1>4, <2>1, HeadStays DEF LoggedOut
  <2>4. QED BY <1>3, <2>1, <2>2, <2>3 DEF Heard, Told
<1>7. CASE DoLogout(c)
  <2>1. cl'[c].session_id = 0 /\ cl'[c].pc = "menu"
    <3>1. cl'[c] = AtMenu(0, NoName)
      BY <1>1, <1>7, ClientMoves
    <3>2. QED BY <3>1, MenuFields
  <2>2. inbox'[c] = Append(inbox[c], Logout)
    BY <1>2, <1>4, <1>7 DEF DoLogout, Deliver, Open
  <2>3. inbox'[c] # <<>>
    BY <1>4, <2>2, HeadStays, MessageKinds
  <2>4. Conversation(j, c)'
    BY <1>3 DEF IInv
  <2>5. LoggedOut(j, c)'
    BY <2>1, <2>3, <2>4 DEF Conversation, Idle, Asked, Working, Answered
  <2>6. QED BY <2>5 DEF Heard
<1>8. CASE ReadReply(c)
  <2>1. cl[c].pc = "wait" /\ outbox[c] # <<>>
    BY <1>8 DEF ReadReply
  <2>2. Answered(j, c)
    BY <1>1, <2>1 DEF Conversation, LoggedOut, Idle, Asked, Working
  <2>3. PICK r \in ReplyMessage : /\ outbox[c] = <<r>>
                                  /\ r.session_id = clients[j].session_id
    BY <2>2 DEF Answered
  <2>4. ReplyOK(c, r)
    <3>1. PICK q \in ReplyMessage : outbox[c] = <<q>> /\ ReplyOK(c, q)
      BY <1>1, <2>1 DEF ClientOK
    <3>2. q = r
      BY <2>3, <3>1
    <3>3. QED BY <3>1, <3>2
  <2>5. /\ cl[c].asked.command = "login" /\ r.status = "success" =>
             cl'[c] = AtMenu(r.session_id, cl[c].asked.username)
        /\ ~(cl[c].asked.command = "login" /\ r.status = "success") =>
             cl'[c] = AtMenu(cl[c].session_id, cl[c].current_user)
    BY <1>1, <1>8, <2>3, ReplyRead
  <2>6. r.session_id # 0
    BY <1>1, <2>3 DEF IdsBelow, SocketsAreOwned
  <2>7. SUFFICES ASSUME clients[j].is_logged_in PROVE cl'[c].session_id # 0
    BY <1>3 DEF Heard
  <2>8. CASE cl[c].asked.command = "login" /\ r.status = "success"
    BY <2>5, <2>6, <2>8, MenuFields
  <2>9. CASE ~(cl[c].asked.command = "login" /\ r.status = "success")
    <3>1. ~Told(j, c)
      <4>1. SUFFICES ASSUME NEW q \in ReplyMessage, outbox[c] = <<q>>, IsWelcome(q)
                     PROVE  FALSE
        BY <2>2 DEF Told, Answered
      <4>2. q = r
        BY <2>3, <4>1
      <4>3. QED BY <2>4, <2>9, <4>1, <4>2 DEF IsWelcome, ReplyOK
    <3>2. cl[c].session_id # 0
      BY <2>1, <2>7, <3>1 DEF Heard, LoggedOut
    <3>3. QED BY <2>5, <2>9, <3>2, MenuFields
  <2>10. QED BY <2>8, <2>9
<1>9. CASE Quit(c)
  <2>1. cl'[c].pc = "gone"
    <3>1. cl'[c] = NotRunning("gone")
      BY <1>1, <1>9, ClientMoves
    <3>2. QED BY <3>1, MenuFields
  <2>2. QED BY <2>1 DEF Heard
<1>10. QED BY <1>5, <1>6, <1>7, <1>8, <1>9 DEF Receipt

(* The accept loop: a slot starts with nobody logged in. *)
LEMMA GreetHeard ==
  ASSUME IInv, HInv, NEW c \in Client, Greet(c), NEW j \in Slot, pc'[j] # "none"
  PROVE  Heard(j, Peer(j))'
<1>1. TypeOK /\ SocketsAreOwned
  BY DEF IInv
<1>2. link[c] = "queued" /\ UNCHANGED <<cl, outbox>> /\ loc'[j] = loc[j]
  BY <1>1, GreetThreads DEF Greet, Accept, Reject
<1>3. clients \in [Slot -> ClientInfo]
  BY <1>1 DEF TypeOK
<1>4. ASSUME NEW e \in Client, pc[j] # "none", e = Peer(j), pc'[j] = pc[j],
             clients'[j] = clients[j], inbox'[e] = inbox[e]
      PROVE  Heard(j, e)'
  BY <1>2, <1>4, HeardStays DEF HInv
<1>5. CASE Accept(c)
  <2>1. inbox' = inbox
    BY <1>5 DEF Accept
  <2>2. CASE pc[j] = "none"
    <3>1. PICK i \in Slot, d \in Descriptor :
            add_client(i, d) /\ pc' = [pc EXCEPT ![i] = "recv"]
      BY <1>1, <1>5, FirstFree DEF Accept
    <3>2. ~clients'[i].is_logged_in
      BY <1>3, <3>1 DEF add_client, ClientInfo
    <3>3. j = i
      BY <1>1, <2>2, <3>1 DEF TypeOK
    <3>4. QED BY <3>2, <3>3 DEF Heard
  <2>3. CASE pc[j] # "none"
    <3>1. PICK e \in Client : e = Peer(j) /\ e # c
      BY <1>1, <1>2, <2>3, ServedSlot
    <3>2. PICK i \in Slot, d \in Descriptor :
            /\ clients[i].sockfd = -1 /\ sockets[d] = Nobody
            /\ add_client(i, d) /\ pc' = [pc EXCEPT ![i] = "recv"]
            /\ sockets' = [sockets EXCEPT ![d] = c]
      BY <1>1, <1>5, FirstFree DEF Accept
    <3>3. j # i
      BY <1>1, <2>3, <3>2 DEF SocketsAreOwned
    <3>4. pc'[j] = pc[j] /\ clients'[j] = clients[j]
      BY <1>1, <1>3, <3>2, <3>3 DEF add_client, TypeOK
    <3>5. Peer(j)' = e
      <4>1. clients[j].sockfd \in Descriptor /\ clients[j].sockfd # d
            /\ sockets[clients[j].sockfd] = e
        BY <1>1, <2>3, <3>1, <3>2, ServedSlot, NobodyAssumption
      <4>2. QED BY <1>1, <3>2, <3>4, <4>1 DEF TypeOK, Peer
    <3>6. Heard(j, e)'
      BY <1>4, <2>1, <2>3, <3>1, <3>4
    <3>7. QED BY <3>5, <3>6
  <2>4. QED BY <2>2, <2>3
<1>6. CASE Reject(c)
  <2>1. pc' = pc /\ sockets' = sockets
    BY <1>6 DEF Reject
  <2>2. PICK e \in Client : e = Peer(j) /\ link[e] = "accepted"
    BY <1>1, <2>1, ServedSlot
  <2>3. clients'[j] = clients[j]
    <3>1. CASE FreeSlots = {} /\ UNCHANGED clients
      BY <3>1
    <3>2. CASE /\ FreeSlots # {}
               /\ clients' = [clients EXCEPT ![Min(FreeSlots)].session_id = next_session_id]
      <4>1. Min(FreeSlots) # j
        BY <1>1, <2>1, <3>2, FirstFreeSlot DEF SocketsAreOwned
      <4>2. QED BY <1>3, <3>2, <4>1
    <3>3. QED BY <1>6, <3>1, <3>2 DEF Reject
  <2>4. inbox'[e] = inbox[e]
    BY <1>2, <1>6, <2>2 DEF Reject, Hangup
  <2>5. Heard(j, e)'
    BY <1>4, <2>1, <2>2, <2>3, <2>4
  <2>6. Peer(j)' = e
    BY <2>1, <2>2, <2>3 DEF Peer
  <2>7. QED BY <2>5, <2>6
<1>7. QED BY <1>5, <1>6 DEF Greet

LEMMA HeardStep == IInv /\ IInv' /\ IdsBelow /\ HInv /\ [Next]_vars => HInv'
<1>1. SUFFICES ASSUME IInv, IInv', IdsBelow, HInv, [Next]_vars,
                      NEW j \in Slot, pc'[j] # "none"
               PROVE  Heard(j, Peer(j))'
  BY DEF HInv
<1>2. TypeOK /\ SocketsAreOwned
  BY <1>1 DEF IInv
<1>3. ASSUME UNCHANGED serverVars
      PROVE  /\ pc[j] # "none" /\ Peer(j) \in Client /\ Heard(j, Peer(j))
             /\ Peer(j)' = Peer(j)
             /\ pc'[j] = pc[j] /\ loc'[j] = loc[j] /\ clients'[j] = clients[j]
  <2>1. pc[j] # "none"
    BY <1>1, <1>3 DEF serverVars
  <2>2. QED BY <1>1, <1>2, <1>3, <2>1, ServedSlot DEF HInv, serverVars, Peer
<1>4. CASE UNCHANGED vars
  <2>1. PICK e \in Client : /\ e = Peer(j) /\ Heard(j, e) /\ Peer(j)' = e
                            /\ pc'[j] = pc[j] /\ loc'[j] = loc[j] /\ clients'[j] = clients[j]
    BY <1>3, <1>4 DEF vars
  <2>2. Heard(j, e)'
    BY <1>4, <2>1, HeardStays DEF vars
  <2>3. QED BY <2>1, <2>2
<1>5. ASSUME NEW c \in Client,
             Connect(c) \/ Ask(c) \/ DoLogout(c) \/ Receipt(c) \/ Quit(c)
      PROVE  Heard(j, Peer(j))'
  <2>1. PICK e \in Client : /\ e = Peer(j) /\ Heard(j, e) /\ Peer(j)' = e
                            /\ pc[j] # "none"
                            /\ pc'[j] = pc[j] /\ loc'[j] = loc[j] /\ clients'[j] = clients[j]
    BY <1>3, <1>5, ClientSteps
  <2>2. CASE e = c
    <3>1. Heard(j, c)'
      BY <1>1, <1>5, <2>1, <2>2, ClientHeard
    <3>2. QED BY <2>1, <2>2, <3>1
  <2>3. CASE e # c
    <3>1. cl'[e] = cl[e] /\ inbox'[e] = inbox[e] /\ outbox'[e] = outbox[e]
      BY <1>2, <1>5, <2>3, OtherClients
    <3>2. Heard(j, e)'
      BY <2>1, <3>1, HeardStays
    <3>3. QED BY <2>1, <3>2
  <2>4. QED BY <2>2, <2>3
<1>6. ASSUME NEW c \in Client, Greet(c) PROVE Heard(j, Peer(j))'
  BY <1>1, <1>6, GreetHeard
<1>7. ~Crash
  BY <1>1 DEF Crash
<1>8. ASSUME NEW i \in Slot, StepOf(i) PROVE Heard(j, Peer(j))'
  BY <1>1, <1>8, OtherHeard, ThreadHeard
<1>9. QED BY <1>1, <1>4, <1>5, <1>6, <1>7, <1>8 DEF Next, Step, StepOf

(* A user whose client went back to the authentication menu stays logged   *)
(* in at the server only until the thread comes to the logout, and nothing *)
(* the client sends after it is read - as long as the session counter does *)
(* not wrap around: a login in a connection whose id is 0 leaves the       *)
(* client at the authentication menu.                                      *)
THEOREM LogoutsAreHeard == Spec /\ [](next_session_id # 0) => []LogoutIsHeard
<1>1. Init => IdsBelow /\ HInv
  BY DEF Init, IdsBelow, SessionIdsDiffer, HInv
<1>2. IInv /\ IdsBelow /\ (next_session_id # 0)' /\ [Next]_vars => IdsBelow'
  BY IdsStep
<1>3. IInv /\ IInv' /\ IdsBelow /\ HInv /\ [Next]_vars => HInv'
  BY HeardStep
<1>4. ASSUME IInv, HInv PROVE LogoutIsHeard
  <2>1. SUFFICES ASSUME NEW i \in Slot, NEW c, c = Peer(i), pc[i] # "none",
                        clients[i].is_logged_in, cl[c].session_id = 0, cl[c].pc = "menu"
                 PROVE  \/ pc[i] = "cleanup"
                        \/ pc[i] = "recv" /\ inbox[c] # <<>> /\ Head(inbox[c]) = Logout
    BY DEF LogoutIsHeard
  <2>2. Heard(i, c)
    BY <1>4, <2>1 DEF HInv
  <2>3. QED BY <2>1, <2>2 DEF Heard, Told, LoggedOut
<1>5. QED BY Invariance, <1>1, <1>2, <1>3, <1>4, PTL DEF Spec

-----------------------------------------------------------------------------
(* The accounts are the book's. *)
AccountOf(f) == [n \in Name |-> IF user_exists(f, n)
                                THEN f[UserAt(f, n)].password_hash ELSE NoHash]
SeatOf(t) == [i \in Slot |-> IF t[i].is_logged_in THEN t[i].username ELSE NoName]

LEMMA HashKinds ==
  /\ NoHash \notin Hash
  /\ \A f \in Seq(UserRecord) : \A n \in Name :
       /\ AccountOf(f)[n] \in Hash \cup {NoHash}
       /\ user_exists(f, n) <=> AccountOf(f)[n] # NoHash
<1>1. NoHash \notin Hash
  <2>1. ASSUME NEW p \in Password PROVE hash_password(p) # NoHash
    BY NameAssumption DEF NoHash, hash_password
  <2>2. QED BY <2>1 DEF Hash
<1>2. ASSUME NEW f \in Seq(UserRecord), NEW n \in Name, user_exists(f, n)
      PROVE  AccountOf(f)[n] \in Hash
  <2>1. PICK k \in DOMAIN f : k = UserAt(f, n)
    BY <1>2, UserFound DEF user_exists
  <2>2. f[k] \in UserRecord
    BY <2>1
  <2>3. f[k].password_hash \in Hash
    BY <2>2 DEF UserRecord
  <2>4. QED BY <1>2, <2>1, <2>3 DEF AccountOf
<1>3. ASSUME NEW f \in Seq(UserRecord), NEW n \in Name, ~user_exists(f, n)
      PROVE  AccountOf(f)[n] = NoHash
  BY <1>3 DEF AccountOf
<1>4. QED BY <1>1, <1>2, <1>3

LEMMA SameHashes == Book!Hash = Hash
BY DEF Book!Hash, Hash, Book!hash_password, hash_password

(* A registration opens an account, or appends a record nobody ever finds. *)
OpensOrStutters(f, n, h, g) ==
  \/ AccountOf(g) = AccountOf(f)
  \/ /\ AccountOf(f)[n] = NoHash
     /\ AccountOf(g) = [AccountOf(f) EXCEPT ![n] = h]

LEMMA AccountOpens ==
  ASSUME NEW f \in Seq(UserRecord), NEW r \in UserRecord,
         NEW g, g = Append(f, r)
  PROVE  OpensOrStutters(f, r.username, r.password_hash, g)
<1>1. AccountsKept(f, g) /\ AccountOpened(f, r, g) /\ r.username \in Name
  <2>1. r.username \in Name
    BY DEF UserRecord
  <2>2. QED BY <2>1, UserAppended
<1>2. \A n \in Name : user_exists(f, n) => AccountOf(g)[n] = AccountOf(f)[n]
  BY <1>1 DEF AccountsKept, AccountOf
<1>3. \A n \in Name : ~user_exists(f, n) /\ n # r.username =>
        AccountOf(g)[n] = AccountOf(f)[n]
  BY <1>1 DEF AccountOpened, AccountOf
<1>4. /\ AccountOf(f) = [n \in Name |-> AccountOf(f)[n]]
      /\ AccountOf(g) = [n \in Name |-> AccountOf(g)[n]]
  BY DEF AccountOf
<1>5. CASE user_exists(f, r.username)
  <2>1. \A n \in Name : AccountOf(g)[n] = AccountOf(f)[n]
    BY <1>2, <1>3, <1>5
  <2>2. QED BY <1>4, <2>1 DEF OpensOrStutters
<1>6. CASE ~user_exists(f, r.username)
  <2>1. AccountOf(f)[r.username] = NoHash
    BY <1>1, <1>6 DEF AccountOf
  <2>2. AccountOf(g)[r.username] = r.password_hash
    BY <1>1, <1>6 DEF AccountOpened, AccountOf
  <2>3. \A n \in Name : n # r.username => AccountOf(g)[n] = AccountOf(f)[n]
    BY <1>2, <1>3
  <2>4. AccountOf(g) = [AccountOf(f) EXCEPT ![r.username] = r.password_hash]
    BY <1>1, <1>4, <2>2, <2>3
  <2>5. QED BY <2>1, <2>4 DEF OpensOrStutters
<1>7. QED BY <1>5, <1>6

LEMMA BookStep ==
  ASSUME IInv, [Next]_vars
  PROVE  [Book!Next]_<<AccountOf(users), SeatOf(clients)>>
<1> DEFINE BookStutters == AccountOf(users)' = AccountOf(users)
                           /\ SeatOf(clients)' = SeatOf(clients)
<1>1. TypeOK /\ users \in Seq(UserRecord) /\ clients \in [Slot -> ClientInfo]
  BY DEF IInv, TypeOK
<1>2. CASE UNCHANGED <<users, clients>>
  BY <1>2
<1>3. ASSUME users' = users,
             \A i \in Slot : clients'[i].is_logged_in = clients[i].is_logged_in
                             /\ (clients[i].is_logged_in =>
                                   clients'[i].username = clients[i].username)
      PROVE  BookStutters
  BY <1>3 DEF SeatOf
<1>4. ASSUME NEW c \in Client, Accept(c) PROVE BookStutters
  <2>1. PICK i \in Slot, d \in Descriptor : clients[i].sockfd = -1 /\ add_client(i, d)
    BY <1>1, <1>4, FirstFree DEF Accept
  <2>2. clients[i].is_logged_in = FALSE
    BY <1>1, <2>1, FieldTypes DEF IInv, SocketsAreOwned
  <2>3. /\ clients'[i].is_logged_in = FALSE
        /\ \A j \in Slot : j # i => clients'[j] = clients[j]
    BY <1>1, <2>1 DEF add_client, ClientInfo
  <2>4. users' = users
    BY <1>4 DEF Accept
  <2>5. QED BY <1>3, <2>2, <2>3, <2>4
<1>5. ASSUME NEW c \in Client, Reject(c) PROVE BookStutters
  <2>1. \A i \in Slot : /\ clients'[i].is_logged_in = clients[i].is_logged_in
                        /\ clients'[i].username = clients[i].username
    BY <1>1, <1>5 DEF Reject, ClientInfo
  <2>2. users' = users
    BY <1>5 DEF Reject
  <2>3. QED BY <1>3, <2>1, <2>2
<1>6. ASSUME NEW i \in Slot, RegAppend(i) PROVE BookStutters \/ Book!Next
  <2>1. PICK n \in Name, p \in Password :
          n = loc[i].req.username /\ p = loc[i].req.password
    BY <1>6, RequestTypes DEF RegAppend, IInv
  <2>2. PICK r \in UserRecord : r = NewUser(n, p) /\ users' = Append(users, r)
    BY <1>6, <2>1, NewUserType DEF RegAppend
  <2>3. r.username = n /\ r.password_hash \in Hash
    BY <2>2 DEF NewUser, Hash
  <2>4. SeatOf(clients)' = SeatOf(clients)
    BY <1>6 DEF RegAppend
  <2>5. \/ AccountOf(users') = AccountOf(users)
        \/ /\ AccountOf(users)[n] = NoHash
           /\ AccountOf(users') = [AccountOf(users) EXCEPT ![n] = r.password_hash]
    <3>1. OpensOrStutters(users, r.username, r.password_hash, users')
      BY <1>1, <2>2, AccountOpens
    <3>2. OpensOrStutters(users, n, r.password_hash, users')
      BY <2>3, <3>1
    <3>3. QED BY <3>2 DEF OpensOrStutters
  <2>6. CASE AccountOf(users') = AccountOf(users)
    BY <2>4, <2>6
  <2>7. CASE /\ AccountOf(users)[n] = NoHash
             /\ AccountOf(users') = [AccountOf(users) EXCEPT ![n] = r.password_hash]
    <3>1. Book!OpenAccount(n, r.password_hash)
      BY <2>4, <2>7 DEF Book!OpenAccount, AccountOf, SeatOf
    <3>2. QED BY <2>3, <3>1, SameHashes DEF Book!Next
  <2>8. QED BY <2>5, <2>6, <2>7
<1>7. ASSUME NEW i \in Slot, LoginSet(i) PROVE Book!Next
  <2>1. PICK n \in Name : n = loc[i].req.username
    BY <1>7, RequestTypes DEF LoginSet, IInv
  <2>2. AccountOf(users)[n] # NoHash
    BY <1>1, <1>7, <2>1, HashKinds DEF LoginSet, IInv, LoginStillValid, Authentic
  <2>3. /\ clients'[i].is_logged_in = TRUE /\ clients'[i].username = n
        /\ \A j \in Slot : j # i => clients'[j] = clients[j]
        /\ users' = users
    BY <1>1, <1>7, <2>1 DEF LoginSet, ClientInfo
  <2>4. SeatOf(clients)' = [SeatOf(clients) EXCEPT ![i] = n]
    BY <2>3 DEF SeatOf
  <2>5. Book!TakeSeat(i, n)
    BY <2>2, <2>3, <2>4 DEF Book!TakeSeat, AccountOf, SeatOf
  <2>6. QED BY <2>5 DEF Book!Next
<1>8. ASSUME NEW S \in SUBSET Slot, users' = users,
             \A i \in S : clients'[i].is_logged_in = FALSE,
             \A i \in Slot \ S : clients'[i] = clients[i]
      PROVE  Book!Next
  <2>1. SeatOf(clients)' = [i \in Slot |-> IF i \in S THEN NoName ELSE SeatOf(clients)[i]]
    BY <1>8 DEF SeatOf
  <2>2. Book!LeaveSeats(S)
    BY <1>8, <2>1 DEF Book!LeaveSeats, AccountOf, SeatOf
  <2>3. QED BY <2>2 DEF Book!Next
<1>9. ASSUME NEW i \in Slot, Cleanup(i) PROVE Book!Next
  <2>1. /\ clients'[i].is_logged_in = FALSE /\ users' = users
        /\ \A j \in Slot : j # i => clients'[j] = clients[j]
    BY <1>1, <1>9 DEF Cleanup, remove_client, ClientInfo
  <2>2. {i} \in SUBSET Slot
    OBVIOUS
  <2>3. QED BY <1>8, <2>1, <2>2
<1>10. CASE Crash
  <2>1. users' = users /\ \A i \in Slot : clients'[i].is_logged_in = FALSE
    BY <1>10 DEF Crash
  <2>2. QED BY <1>8, <2>1
<1>11. ASSUME NEW i \in Slot, StepOf(i), ~RegAppend(i), ~LoginSet(i), ~Cleanup(i)
       PROVE  UNCHANGED <<users, clients>>
  <2>1. LoginWrite(i) => users' = users
    BY LoginWriteChangesNothing
  <2>2. QED
    BY <1>11, <2>1 DEF StepOf, Receive, Disconnected, RegScan, OpenFails, LoginScan,
                       LoginWrite, Group, SendReply
<1>12. ASSUME NEW c \in Client,
              Connect(c) \/ Ask(c) \/ DoLogout(c) \/ Receipt(c) \/ Quit(c)
       PROVE  UNCHANGED <<users, clients>>
  BY <1>12, ClientSteps DEF serverVars
<1>13. CASE UNCHANGED vars
  BY <1>2, <1>13 DEF vars, serverVars
<1>14. QED
  BY <1>2, <1>4, <1>5, <1>6, <1>7, <1>9, <1>10, <1>11, <1>12, <1>13
     DEF Next, Greet, Step, StepOf

(* Registrations that overlap, logins that write records back and crashes  *)
(* in the middle: accounts are opened once and keep their password, and    *)
(* nobody is logged in under a name without an account.                    *)
THEOREM AccountsAreKept == Spec => AccountsAreABook
<1>1. ASSUME Init PROVE Book!Init
  <2>1. users \in Seq(UserRecord) /\ \A i \in Slot : clients[i].is_logged_in = FALSE
    BY <1>1, InitIInv DEF IInv, TypeOK, Init
  <2>2. SeatOf(clients) = [i \in Slot |-> NoName]
    BY <2>1 DEF SeatOf
  <2>3. AccountOf(users) \in [Name -> Hash \cup {NoHash}]
    BY <2>1, HashKinds DEF AccountOf
  <2>4. QED BY <2>2, <2>3, SameHashes DEF Book!Init, AccountOf, SeatOf
<1>2. ASSUME IInv, [Next]_vars PROVE [Book!Next]_<<AccountOf(users), SeatOf(clients)>>
  BY <1>2, BookStep
<1>3. Init => Book!Init
  BY <1>1
<1>4. IInv /\ [Next]_vars => [Book!Next]_<<AccountOf(users), SeatOf(clients)>>
  BY <1>2
<1>5. QED
  BY Invariance, <1>3, <1>4, PTL DEF Spec, AccountsAreABook, Book!Spec, AccountOf, SeatOf
=============================================================================
