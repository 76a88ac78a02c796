------------------------------ MODULE Sessions ------------------------------
(***************************************************************************)
(* Who talks to whom: client/client.c, the connections between the clients *)
(* and the server, the table clients[] of server/server.c with its accept  *)
(* loop and its thread for each connection, and the accounts of            *)
(* server/user_db.c.  What a group command does to the group files is the  *)
(* matter of GroupServer; here it is a step made in somebody's name.       *)
(*                                                                         *)
(* A client is one run of the client program, which connects once.  A      *)
(* thread of the server is known by the slot of clients[] it serves; only  *)
(* that thread touches the slot until it gives it back, and everything     *)
(* that other threads look at is under clients_mutex, so that a critical   *)
(* section is one step.  An access to users.dat is one step, without a     *)
(* mutex: appended, or read to be rewritten.                               *)
(*                                                                         *)
(* A message is whole when both of its parts were sent, and TCP keeps the  *)
(* order.  Either process can be killed at any time.  Neither handles      *)
(* SIGPIPE, so that writing to a connection whose other end is closed can  *)
(* be what kills it.                                                       *)
(*                                                                         *)
(* A definition with a suffix, such as remove_client_NoClose, is the       *)
(* definition it is named after with one plausible mistake in it: the      *)
(* properties are tried against it, and no specification uses it.          *)
(***************************************************************************)
EXTENDS UserRecords, FiniteSets

CONSTANTS
  Client,        (* The runs of the client program.                        *)
  Nobody,        (* The peer of a descriptor that is closed.               *)
  MaxClients,    (* MAX_CLIENTS, the length of clients[].                  *)
  Descriptor,    (* The numbers the kernel gives to the server's sockets.  *)
  SessionSpace,  (* 2^32: session ids are uint32_t.                        *)
  SeedUsers,     (* users.dat as the first process finds it.               *)
  MayFail,       (* The labels whose fopen of users.dat may fail.          *)
  MaxAsks,       (* Bound of the model on the requests of all clients.     *)
  MaxCrashes     (* Bound of the model on the crashes of the server.       *)

Slot == 1 .. MaxClients

ASSUME NobodyAssumption == Nobody \notin Client
ASSUME SlotAssumption == MaxClients \in Nat
ASSUME DescriptorAssumption == Descriptor \subseteq Nat
ASSUME SessionAssumption == SessionSpace \in Nat /\ SessionSpace > 1
ASSUME SeedAssumption ==
  /\ SeedUsers \in Seq(UserRecord)
  /\ \A i, j \in DOMAIN SeedUsers :
       SeedUsers[i].username = SeedUsers[j].username => i = j
ASSUME BoundsAssumption == MaxAsks \in Nat /\ MaxCrashes \in Nat

VARIABLES
  cl,               (* The variables of each client program.               *)
  link,             (* How the server sees the connection of a client.     *)
  inbox,            (* The messages on their way to the server,            *)
  outbox,           (* and those on their way to each client.              *)
  sockets,          (* The peer of each descriptor of the server.          *)
  clients,          (* The table of the same name.                         *)
  next_session_id,
  pc, loc,          (* Next step and locals of the thread of each slot.    *)
  users,            (* data/users.dat                                      *)
  asks, crashes     (* How many requests were sent, crashes were seen.     *)

serverVars == <<sockets, clients, next_session_id, pc, loc>>
vars == <<cl, link, inbox, outbox, serverVars, users, asks, crashes>>

-----------------------------------------------------------------------------
(* Messages.  A group command is any of those the main menu sends.         *)
AuthCommand == {"register", "login"}

Request(cmd, n, p) == [command |-> cmd, username |-> n, password |-> p]
Logout    == [command |-> "logout"]
GroupCmd  == [command |-> "group"]
Truncated == [command |-> "truncated"]   (* The sender died between two sends. *)
NoRequest == [command |-> "none"]

AuthRequest == [command : AuthCommand, username : Name, password : Password]

(* The reply to a command; user is the name the server ran it in. *)
Reply(cmd, status, u) == [to |-> cmd, status |-> status, user |-> u]
NoReply == Reply("none", "none", NoName)

NoLocals == [req |-> NoRequest, at |-> 0, reply |-> NoReply]

-----------------------------------------------------------------------------
(* The globals of a client; asked is what it waits for an answer to. *)
Running(at, sid, u, m) ==
  [pc |-> at, session_id |-> sid, current_user |-> u, asked |-> m]

NotRunning(at) == Running(at, 0, NoName, NoRequest)
AtMenu(sid, u) == Running("menu", sid, u, NoRequest)

Init ==
  /\ cl = [c \in Client |-> NotRunning("start")]
  /\ link = [c \in Client |-> "none"]
  /\ inbox = [c \in Client |-> <<>>]
  /\ outbox = [c \in Client |-> <<>>]
  /\ sockets = [d \in Descriptor |-> Nobody]
  /\ clients = [i \in Slot |-> [sockfd |-> -1, session_id |-> 0,
                                username |-> NoName, is_logged_in |-> FALSE]]
  /\ next_session_id = 1
  /\ pc = [i \in Slot |-> "none"]
  /\ loc = [i \in Slot |-> NoLocals]
  /\ users = SeedUsers
  /\ asks = 0 /\ crashes = 0

-----------------------------------------------------------------------------
(* client.c *)
Open(c) == link[c] \in {"queued", "accepted"}

Connect(c) ==
  /\ cl[c].pc = "start"
  /\ cl' = [cl EXCEPT ![c] = AtMenu(0, NoName)]
  /\ link' = [link EXCEPT ![c] = "queued"]
  /\ UNCHANGED <<inbox, outbox, serverVars, users, asks, crashes>>

(* What the menus let a client send and wait for: the authentication menu  *)
(* while session_id is 0, the main menu otherwise.                         *)
Offered(c) == IF cl[c].session_id = 0 THEN AuthRequest ELSE {GroupCmd}

Deliver(c, m) ==
  inbox' = IF Open(c) THEN [inbox EXCEPT ![c] = Append(@, m)] ELSE inbox

(* The client sends a request and goes on to receive the reply.  On a      *)
(* connection the server has closed, the send may also fail, which leaves  *)
(* the client at the menu, or kill it (Quit).                              *)
Ask(c) ==
  /\ cl[c].pc = "menu" /\ asks < MaxAsks
  /\ asks' = asks + 1
  /\ \E m \in Offered(c) :
       /\ cl' = [cl EXCEPT ![c].pc = "wait", ![c].asked = m]
       /\ Deliver(c, m)
  /\ UNCHANGED <<link, outbox, serverVars, users, crashes>>

(* Logout is sent and not answered. *)
DoLogout(c) ==
  /\ cl[c].pc = "menu" /\ cl[c].session_id # 0
  /\ cl' = [cl EXCEPT ![c] = AtMenu(0, NoName)]
  /\ Deliver(c, Logout)
  /\ UNCHANGED <<link, outbox, serverVars, users, asks, crashes>>

ReadReply(c) ==
  /\ cl[c].pc = "wait" /\ outbox[c] # <<>>
  /\ LET r == Head(outbox[c]) IN
     cl' = IF cl[c].asked.command = "login" /\ r.status = "success"
           THEN [cl EXCEPT ![c] = AtMenu(r.session_id, @.asked.username)]
           ELSE [cl EXCEPT ![c] = AtMenu(@.session_id, @.current_user)]
  /\ outbox' = [outbox EXCEPT ![c] = Tail(@)]
  /\ UNCHANGED <<link, inbox, serverVars, users, asks, crashes>>

(* "Failed to receive response", and back to the menu. *)
ReadFails(c) ==
  /\ cl[c].pc = "wait" /\ outbox[c] = <<>> /\ ~Open(c)
  /\ cl' = [cl EXCEPT ![c] = AtMenu(@.session_id, @.current_user)]
  /\ UNCHANGED <<link, inbox, outbox, serverVars, users, asks, crashes>>

(* Exit, or killed (also by a send to a closed connection): at the menu,   *)
(* in a receive, or between the two sends of a message.                    *)
Quit(c) ==
  /\ cl[c].pc \in {"menu", "wait"}
  /\ cl' = [cl EXCEPT ![c] = NotRunning("gone")]
  /\ \/ UNCHANGED inbox
     \/ /\ cl[c].pc = "menu" /\ Open(c)
        /\ inbox' = [inbox EXCEPT ![c] = Append(@, Truncated)]
  /\ outbox' = [outbox EXCEPT ![c] = <<>>]
  /\ UNCHANGED <<link, serverVars, users, asks, crashes>>

-----------------------------------------------------------------------------
(* server.c, the accept loop and the table *)
FreeSlots == {i \in Slot : clients[i].sockfd = -1}
FreeDescriptors == {d \in Descriptor : sockets[d] = Nobody}

Peer(i) == sockets[clients[i].sockfd]

(* The server's end of some connections is closed, with what it has not    *)
(* read.                                                                   *)
Hangup(C) ==
  /\ link' = [c \in Client |-> IF c \in C THEN "closed" ELSE link[c]]
  /\ inbox' = [c \in Client |-> IF c \in C THEN <<>> ELSE inbox[c]]

add_client_SameId(i, d) ==
  /\ clients' = [clients EXCEPT ![i].sockfd = d,
                                ![i].session_id = next_session_id,
                                ![i].is_logged_in = FALSE]
  /\ UNCHANGED next_session_id

(* add_client fills the first free slot; its user name stays what the last *)
(* connection left there.                                                  *)
add_client(i, d) ==
  /\ clients' = [clients EXCEPT ![i].sockfd = d,
                                ![i].session_id = next_session_id,
                                ![i].is_logged_in = FALSE]
  /\ next_session_id' = (next_session_id + 1) % SessionSpace

remove_client_ZeroFd(i) ==
  /\ clients' = [clients EXCEPT ![i].sockfd = 0, ![i].is_logged_in = FALSE]
  /\ sockets' = [sockets EXCEPT ![clients[i].sockfd] = Nobody]
  /\ Hangup({Peer(i)})

remove_client_NoClose(i) ==
  /\ clients' = [clients EXCEPT ![i].sockfd = -1, ![i].is_logged_in = FALSE]
  /\ UNCHANGED <<sockets, link, inbox>>

remove_client(i) ==
  /\ clients' = [clients EXCEPT ![i].sockfd = -1, ![i].is_logged_in = FALSE]
  /\ sockets' = [sockets EXCEPT ![clients[i].sockfd] = Nobody]
  /\ Hangup({Peer(i)})

(* accept gives the connection the lowest free descriptor, and a thread    *)
(* starts for the slot it got.  accept runs without clients_mutex, so that *)
(* the number may come from a slot whose remove_client has closed it and   *)
(* not freed the slot yet; that is one step here, because everything that  *)
(* looks into the table, add_client too, waits for the mutex until it has. *)
Accept(c) ==
  /\ link[c] = "queued"
  /\ FreeSlots # {} /\ FreeDescriptors # {}
  /\ LET i == Min(FreeSlots)
         d == Min(FreeDescriptors)
     IN /\ add_client(i, d)
        /\ sockets' = [sockets EXCEPT ![d] = c]
        /\ pc' = [pc EXCEPT ![i] = "recv"]
  /\ link' = [link EXCEPT ![c] = "accepted"]
  /\ UNCHANGED <<cl, inbox, outbox, loc, users, asks, crashes>>

(* "Max clients reached", or the thread cannot be created and the slot is  *)
(* given back: the connection is closed at once.                           *)
Reject(c) ==
  /\ link[c] = "queued"
  /\ FreeDescriptors # {}
  /\ \/ FreeSlots = {} /\ UNCHANGED <<clients, next_session_id>>
     \/ /\ FreeSlots # {}
        /\ clients' = [clients EXCEPT ![Min(FreeSlots)].session_id = next_session_id]
        /\ next_session_id' = (next_session_id + 1) % SessionSpace
  /\ Hangup({c})
  /\ UNCHANGED <<cl, outbox, sockets, pc, loc, users, asks, crashes>>

-----------------------------------------------------------------------------
(* client_handler, the thread of a slot *)
Goto(i, label) == pc' = [pc EXCEPT ![i] = label]

Finish(i, status, u) ==
  /\ Goto(i, "reply")
  /\ loc' = [loc EXCEPT ![i].reply = Reply(loc[i].req.command, status, u)]

Dispatch_LogoutGoesOn ==
  [register |-> "reg_scan", login |-> "login_scan", group |-> "group",
   logout |-> "recv", truncated |-> "cleanup"]

Dispatch_LogoutReplies ==
  [register |-> "reg_scan", login |-> "login_scan", group |-> "group",
   logout |-> "group", truncated |-> "cleanup"]

Dispatch == [register |-> "reg_scan", login |-> "login_scan", group |-> "group",
             logout |-> "cleanup", truncated |-> "cleanup"]

Receive(i) ==
  /\ pc[i] = "recv" /\ inbox[Peer(i)] # <<>>
  /\ LET m == Head(inbox[Peer(i)]) IN
     /\ Goto(i, Dispatch[m.command])
     /\ loc' = [loc EXCEPT ![i].req = m]
  /\ inbox' = [inbox EXCEPT ![Peer(i)] = Tail(@)]
  /\ UNCHANGED <<cl, link, outbox, sockets, clients, next_session_id, users>>

Disconnected_NoCleanup(i) ==
  /\ pc[i] = "recv" /\ inbox[Peer(i)] = <<>> /\ cl[Peer(i)].pc = "gone"
  /\ Goto(i, "none")
  /\ UNCHANGED <<cl, link, inbox, outbox, sockets, clients, next_session_id,
                 loc, users>>

(* recv_message returns -2. *)
Disconnected(i) ==
  /\ pc[i] = "recv" /\ inbox[Peer(i)] = <<>> /\ cl[Peer(i)].pc = "gone"
  /\ Goto(i, "cleanup")
  /\ UNCHANGED <<cl, link, inbox, outbox, sockets, clients, next_session_id,
                 loc, users>>

RegScan_NoReply(i) ==
  /\ pc[i] = "reg_scan"
  /\ Goto(i, IF user_exists(users, loc[i].req.username) THEN "recv" ELSE "reg_append")
  /\ UNCHANGED <<cl, link, inbox, outbox, sockets, clients, next_session_id, loc,
                 users>>

(* handle_register and register_user *)
RegScan(i) ==
  /\ pc[i] = "reg_scan"
  /\ IF user_exists(users, loc[i].req.username)
     THEN Finish(i, "error", NoName)
     ELSE Goto(i, "reg_append") /\ UNCHANGED loc
  /\ UNCHANGED <<cl, link, inbox, outbox, sockets, clients, next_session_id, users>>

RegAppend_NotFlushed(i) ==
  /\ pc[i] = "reg_append"
  /\ Finish(i, "success", NoName)
  /\ UNCHANGED <<cl, link, inbox, outbox, sockets, clients, next_session_id, users>>

RegAppend_Truncates(i) ==
  /\ pc[i] = "reg_append"
  /\ users' = <<NewUser(loc[i].req.username, loc[i].req.password)>>
  /\ Finish(i, "success", NoName)
  /\ UNCHANGED <<cl, link, inbox, outbox, sockets, clients, next_session_id>>

RegAppend(i) ==
  /\ pc[i] = "reg_append"
  /\ users' = Append(users, NewUser(loc[i].req.username, loc[i].req.password))
  /\ Finish(i, "success", NoName)
  /\ UNCHANGED <<cl, link, inbox, outbox, sockets, clients, next_session_id>>

(* handle_login and authenticate_user: the record found is written back    *)
(* with a new last_login before the slot is marked.                        *)
LoginScan(i) ==
  LET n == loc[i].req.username IN
  /\ pc[i] = "login_scan"
  /\ IF Authentic(users, n, loc[i].req.password)
     THEN /\ loc' = [loc EXCEPT ![i].at = UserAt(users, n)]
          /\ Goto(i, "login_write")
     ELSE Finish(i, "error", NoName)
  /\ UNCHANGED <<cl, link, inbox, outbox, sockets, clients, next_session_id, users>>

LoginWrite_NextRecord(i) ==
  /\ pc[i] = "login_write"
  /\ users' = [users EXCEPT ![loc[i].at + 1] =
                 NewUser(loc[i].req.username, loc[i].req.password)]
  /\ Goto(i, "login_set")
  /\ UNCHANGED <<cl, link, inbox, outbox, sockets, clients, next_session_id, loc>>

LoginWrite(i) ==
  /\ pc[i] = "login_write"
  /\ users' = [users EXCEPT ![loc[i].at] =
                 NewUser(loc[i].req.username, loc[i].req.password)]
  /\ Goto(i, "login_set")
  /\ UNCHANGED <<cl, link, inbox, outbox, sockets, clients, next_session_id, loc>>

LoginSet_NoName(i) ==
  /\ pc[i] = "login_set"
  /\ clients' = [clients EXCEPT ![i].is_logged_in = TRUE]
  /\ Finish(i, "success", NoName)
  /\ UNCHANGED <<cl, link, inbox, outbox, sockets, next_session_id, users>>

LoginSet_NoFlag(i) ==
  /\ pc[i] = "login_set"
  /\ clients' = [clients EXCEPT ![i].username = loc[i].req.username]
  /\ Finish(i, "success", NoName)
  /\ UNCHANGED <<cl, link, inbox, outbox, sockets, next_session_id, users>>

LoginSet(i) ==
  /\ pc[i] = "login_set"
  /\ clients' = [clients EXCEPT ![i].is_logged_in = TRUE,
                                ![i].username = loc[i].req.username]
  /\ Finish(i, "success", NoName)
  /\ UNCHANGED <<cl, link, inbox, outbox, sockets, next_session_id, users>>

(* Every handler of a group command starts with this check and runs under  *)
(* the name in the slot.                                                   *)
Group(i) ==
  /\ pc[i] = "group"
  /\ IF clients[i].is_logged_in
     THEN Finish(i, "success", clients[i].username)
     ELSE Finish(i, "auth_required", NoName)
  /\ UNCHANGED <<cl, link, inbox, outbox, sockets, clients, next_session_id, users>>

(* send_response.  What is sent to a client that is gone is lost. *)
SendReply(i) ==
  /\ pc[i] = "reply"
  /\ outbox' = IF cl[Peer(i)].pc = "gone" THEN outbox
               ELSE [outbox EXCEPT ![Peer(i)] =
                       Append(@, [to |-> loc[i].reply.to,
                                  status |-> loc[i].reply.status,
                                  user |-> loc[i].reply.user,
                                  session_id |-> clients[i].session_id])]
  /\ Goto(i, "recv")
  /\ loc' = [loc EXCEPT ![i] = NoLocals]
  /\ UNCHANGED <<cl, link, inbox, sockets, clients, next_session_id, users>>

(* An fopen of users.dat fails: user_exists says "no", register_user and   *)
(* authenticate_user refuse.                                               *)
OpenFails(i) ==
  /\ pc[i] \in MayFail
  /\ \/ pc[i] = "reg_scan" /\ Goto(i, "reg_append") /\ UNCHANGED loc
     \/ pc[i] \in {"reg_append", "login_scan"} /\ Finish(i, "error", NoName)
  /\ UNCHANGED <<cl, link, inbox, outbox, sockets, clients, next_session_id, users>>

Cleanup(i) ==
  /\ pc[i] = "cleanup"
  /\ remove_client(i)
  /\ Goto(i, "none")
  /\ loc' = [loc EXCEPT ![i] = NoLocals]
  /\ UNCHANGED <<cl, outbox, next_session_id, users>>

(* The server dies and is started again: main begins with init_clients and *)
(* finds users.dat as it was left.                                         *)
Crash ==
  /\ crashes < MaxCrashes
  /\ crashes' = crashes + 1
  /\ Hangup({c \in Client : Open(c)})
  /\ sockets' = [d \in Descriptor |-> Nobody]
  /\ clients' = [i \in Slot |-> [sockfd |-> -1, session_id |-> 0,
                                 username |-> NoName, is_logged_in |-> FALSE]]
  /\ next_session_id' = 1
  /\ pc' = [i \in Slot |-> "none"]
  /\ loc' = [i \in Slot |-> NoLocals]
  /\ UNCHANGED <<cl, outbox, users, asks>>

-----------------------------------------------------------------------------
Step(i) ==
  /\ \/ Receive(i) \/ Disconnected(i)
     \/ RegScan(i) \/ RegAppend(i)
     \/ LoginScan(i) \/ LoginWrite(i) \/ LoginSet(i)
     \/ OpenFails(i) \/ Group(i) \/ SendReply(i) \/ Cleanup(i)
  /\ UNCHANGED <<asks, crashes>>

Receipt(c) == ReadReply(c) \/ ReadFails(c)
Greet(c) == Accept(c) \/ Reject(c)

Next ==
  \/ \E c \in Client : Connect(c) \/ Ask(c) \/ DoLogout(c) \/ Receipt(c) \/ Quit(c)
  \/ \E c \in Client : Greet(c)
  \/ \E i \in Slot : Step(i)
  \/ Crash

Spec == Init /\ [][Next]_vars

(* Threads that can run do, and a client blocked in a receive wakes up.    *)
(* Nobody has to type anything, and nothing makes the server crash.        *)
FairSpec ==
  /\ Spec
  /\ \A c \in Client : WF_vars(Receipt(c)) /\ WF_vars(Greet(c))
  /\ \A i \in Slot : WF_vars(Step(i))

-----------------------------------------------------------------------------
SessionId == 0 .. SessionSpace - 1
Labels == {"none", "recv", "reg_scan", "reg_append", "login_scan", "login_write",
           "login_set", "group", "reply", "cleanup"}
Message == AuthRequest \cup {GroupCmd, Logout, Truncated}
ReplyTo == [to : AuthCommand \cup {"group", "none"},
            status : {"success", "error", "auth_required", "none"},
            user : Name \cup {NoName}]
ReplyMessage == [to : AuthCommand \cup {"group", "none"},
                 status : {"success", "error", "auth_required", "none"},
                 user : Name \cup {NoName}, session_id : SessionId]

ClientGlobals == [pc : {"start", "menu", "wait", "gone"}, session_id : SessionId,
                  current_user : Name \cup {NoName},
                  asked : AuthRequest \cup {GroupCmd, NoRequest}]
ClientInfo == [sockfd : Descriptor \cup {-1}, session_id : SessionId,
               username : Name \cup {NoName}, is_logged_in : BOOLEAN]
Locals == [req : Message \cup {NoRequest}, at : Nat, reply : ReplyTo]

(* users.dat holds whole records, ids fit in 32 bits, a slot names a       *)
(* descriptor or none.                                                     *)
TypeOK ==
  /\ cl \in [Client -> ClientGlobals]
  /\ link \in [Client -> {"none", "queued", "accepted", "closed"}]
  /\ inbox \in [Client -> Seq(Message)]
  /\ outbox \in [Client -> Seq(ReplyMessage)]
  /\ sockets \in [Descriptor -> Client \cup {Nobody}]
  /\ clients \in [Slot -> ClientInfo]
  /\ next_session_id \in SessionId
  /\ pc \in [Slot -> Labels]
  /\ loc \in [Slot -> Locals]
  /\ users \in Seq(UserRecord)
  /\ asks \in Nat /\ crashes \in Nat

(* Slots, threads, descriptors and connections belong together one by one: *)
(* a thread serves each taken slot, no two slots serve one client, and no  *)
(* descriptor or accepted connection is left without a slot - whatever     *)
(* numbers the kernel hands out again (add_client, remove_client).         *)
SocketsAreOwned ==
  /\ \A i \in Slot :
       /\ pc[i] = "none" <=> clients[i].sockfd = -1
       /\ pc[i] = "none" => ~clients[i].is_logged_in
       /\ pc[i] # "none" => Peer(i) \in Client /\ link[Peer(i)] = "accepted"
  /\ \A i, j \in Slot :
       pc[i] # "none" /\ pc[j] # "none" /\ Peer(i) = Peer(j) => i = j
  /\ \A d \in Descriptor :
       sockets[d] # Nobody => \E i \in Slot : clients[i].sockfd = d
  /\ \A c \in Client :
       link[c] = "accepted" => \E i \in Slot : pc[i] # "none" /\ Peer(i) = c

(* Two connections that are open at the same time have different session   *)
(* ids, and none has 0, which the client reads as not logged in.           *)
SessionIdsDiffer ==
  \A i, j \in Slot :
    clients[i].sockfd # -1 /\ clients[j].sockfd # -1 =>
      /\ clients[i].session_id # 0
      /\ clients[i].session_id = clients[j].session_id => i = j

(* A client that takes itself for logged in is logged in at the server, in *)
(* the slot of its own connection, under its own name and session id: no   *)
(* name a slot's last connection left behind is ever used.                 *)
SameUserBothEnds ==
  \A i \in Slot :
    pc[i] # "none" /\ cl[Peer(i)].session_id # 0 =>
      /\ clients[i].is_logged_in
      /\ clients[i].username = cl[Peer(i)].current_user
      /\ clients[i].session_id = cl[Peer(i)].session_id

(* The other way round: while the server keeps a user logged in whose      *)
(* client shows the authentication menu again, the logout is on its way,   *)
(* and nothing that client sends after it is read.                         *)
LogoutIsHeard ==
  \A i \in Slot :
    LET c == Peer(i) IN
    pc[i] # "none" /\ clients[i].is_logged_in
    /\ cl[c].session_id = 0 /\ cl[c].pc = "menu" =>
      \/ pc[i] = "cleanup"
      \/ pc[i] = "recv" /\ inbox[c] # <<>> /\ Head(inbox[c]) = Logout

(* Requests and replies stay in step, with a logout that has no reply and  *)
(* replies that carry no number: what a client reads is the answer to what *)
(* it asked last.                                                          *)
RepliesInStep ==
  \A c \in Client :
    outbox[c] # <<>> =>
      /\ Len(outbox[c]) = 1
      /\ cl[c].pc = "wait" /\ Head(outbox[c]).to = cl[c].asked.command

(* A group command runs in the name its client shows, and a client that    *)
(* shows one is never told to log in first.                                *)
ServedAsSelf ==
  \A c \in Client :
    outbox[c] # <<>> /\ Head(outbox[c]).to = "group" =>
      /\ Head(outbox[c]).status = "success"
      /\ Head(outbox[c]).user = cl[c].current_user

(* authenticate_user compares, writes the record back and returns, and     *)
(* only then is the slot marked, all without a lock on users.dat: name and *)
(* password are still those of the account, whatever others registered or  *)
(* wrote back meanwhile.                                                   *)
LoginStillValid ==
  \A i \in Slot :
    pc[i] \in {"login_write", "login_set"} =>
      /\ Authentic(users, loc[i].req.username, loc[i].req.password)
      /\ loc[i].at = UserAt(users, loc[i].req.username)

(* "Registration successful" is not taken back: the account is in the      *)
(* file before the client hears of it, and a crash does not lose it.       *)
RegistrationIsDurable ==
  \A c \in Client :
    outbox[c] # <<>> /\ Head(outbox[c]).to = "register"
    /\ Head(outbox[c]).status = "success" =>
      user_exists(users, cl[c].asked.username)

(* A client never waits for ever: each request, also one sent after a      *)
(* logout on a connection the server closes, after a crash or to a full    *)
(* table, ends with a reply or with an error.                              *)
WaitingEnds == \A c \in Client : cl[c].pc = "wait" ~> cl[c].pc # "wait"

(* The slot of a client that exited or was killed comes back, at whatever  *)
(* step its thread was.                                                    *)
SlotComesBack == \A c \in Client : cl[c].pc = "gone" ~> ~Open(c)

-----------------------------------------------------------------------------
(* The abstract specification: accounts that are opened once and keep      *)
(* their password, and seats taken only in the name of an account.         *)
NoHash == hash_password(NoName)

Book == INSTANCE AccountBook WITH
  account <- [n \in Name |-> IF user_exists(users, n)
                             THEN users[UserAt(users, n)].password_hash ELSE NoHash],
  seat <- [i \in Slot |-> IF clients[i].is_logged_in THEN clients[i].username
                          ELSE NoName]

(* Registrations that overlap, logins that write records back and crashes  *)
(* in the middle implement the book.                                       *)
AccountsAreABook == Book!Spec

(* Nobody registers a name that exists ("Username already exists").        *)
UsernamesAreUnique ==
  \A i, j \in DOMAIN users : users[i].username = users[j].username => i = j
=============================================================================
