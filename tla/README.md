# Verification of the group server

The program is a small client/server application in C (`src/server`,
`src/client`, `src/common`): users register, log in, create groups, join them by
request or by invitation, leave them and hand them over.  The name promises
file sharing; command codes for files are declared in `protocol.h` and handled
nowhere.  All state that lasts is in five files of fixed-size records under
`data/`.  The server runs one detached thread per connection, and the threads
share the files, the counters and the connection table.

This directory holds TLA+ models of the group database, of the sessions between
clients and server and of the user accounts, the TLC configurations that check
them and proofs that TLAPS checks.

## 1. Inventory

| Component | Source | State | Operations |
|---|---|---|---|
| Group database | `server/group_db.c`, `group_db.h` | `groups.dat`, `members.dat`, `group_join_requests.dat`, `group_invites.dat`; the counters `next_group_id`, `next_join_request_id`, `next_invite_id`; `join_req_mutex`, `invite_mutex` | `init_group_db`, `create_group`, `add_member_to_group`, `remove_member_from_group`, `leave_group`, `delete_group`, `transfer_group_owner`, `create_join_request`, `decide_join_request`, `create_group_invite`, `decide_invitation` |
| Group listings | `group_db.c` | none of its own | `get_user_groups`, `get_group_members`, `list_join_requests_for_owner`, `list_invites_for_user` |
| Command handlers | `server/server.c` 65–592 | none | one `handle_*` per command: checks, a call of a database, one reply |
| Connection table | `server.c` 16–63, 595–787 | `clients[100]`, `clients_mutex`, `next_session_id` | `init_clients`, `add_client`, `remove_client`, `client_handler`'s loop and its ends, `main`'s accept loop |
| User database | `server/user_db.c`, `user_db.h` | `users.dat` | `init_user_db`, `user_exists`, `register_user`, `authenticate_user`, `get_user_info` (called nowhere) |
| Framing | `common/protocol.c`, `protocol.h` | a TCP stream per connection | `send_message`, `recv_message`, `create_response` |
| Client | `client/client.c` | one socket; `session_id`, `current_user` | two menus, one request and one reply at a time; logout without a reply |
| File operations | `protocol.h` command codes 20–25 | none | not implemented in the program |

How they meet: the client sends a `Message`, `client_handler` reads it in the
thread of the connection, dispatches on the command to a handler, the handler
calls `group_db.c` or `user_db.c` and sends one reply.  The databases have no
thread of their own.  Handlers of different connections run at the same time
and meet only in the files, the counters, `clients[]` and the three mutexes.

What is hard about it:

* **Interleaving.**  Only the two request files have a mutex, each its own.
  `groups.dat` and `members.dat` have none.  Every check of a call is one file
  access, the write it licenses is another.
* **Stale copies.**  An update in place reads a record, changes one field and
  writes the *whole* record back.
* **Crashes.**  No signal is handled, and writing to a connection the client
  closed raises SIGPIPE, which ends the process.  What remains is the files; the
  next process derives its counters from them.
* **Sequences.**  `member_count` is kept by five calls and trusted by a sixth.
  `delete_group` deactivates one member record only.  Ownership is recorded in two
  files.
* **Locks with many exits.**  A decision returns from its critical section in six
  places, one after a nested call into the other two files.
* **Files that do not open.**  Every access is an `fopen` of its own, which fails when
  descriptors run out.  Some callers refuse, some go on, and the lookups
  (`is_group_owner`, `is_member_of_group`, `user_exists`) answer "no".
* **Names that are used again.**  The kernel hands out the lowest free descriptor,
  the server the first free slot, and a slot keeps the user name of its last
  connection.  `next_session_id` is 32 bits wide and is not kept over a restart.
* **A conversation without numbers.**  A reply names no request; request and
  reply belong together only by order.  Logout is the one request without a reply,
  and after it the client goes on using a socket that the server closes.
* **Accounts without a lock.**  `register_user` tests for a name and then appends;
  `authenticate_user` writes a whole record back.

What makes the group database correct: ids are never reused; counts equal the
members; nobody is in a group twice; the owner is in the group and alone
carries the admin flag; a deleted group has no members; one request and one
invitation wait per user and group, each is decided once; an approval is never
recorded without its member; every lock is given back; a removal stays one.

What makes sessions and accounts correct: one thread, one slot, one descriptor and
one client belong together; what a client takes itself for is what the server
takes it for; a reply is the answer to the last request; a command runs in the
name its user sees; no client waits for ever and no slot is lost; an account
is opened once, keeps its password and survives a crash.

The hazards are listed with their lines in `PROJECT.json`.

## 2. Modules

```
GroupRecords          records, scans, in-place updates of the group files (no state)
 ├─ GroupDB           each call one step: the abstract specification
 ├─ RequestBook       what a request file promises: a numbered book of decisions
 └─ GroupServer       threads × file accesses, mutexes, crashes
     └─ GroupServerSerial   the same while calls do not overlap; refines GroupDB
UserRecords           records and scans of users.dat (no state)
 ├─ AccountBook       what accounts and logins promise: the abstract specification
 └─ Sessions          clients × connections × threads × users.dat; refines AccountBook
FileLemmas            what scans and updates of any file do
 ├─ GroupFileLemmas    the same for the group files
 │   ├─ GroupDBProofs                          (with GroupDB)
 │   └─ GroupServerProofs                      (with GroupServer)
 │       ├─ RequestBookProofs
 │       ├─ ApprovalProofs
 │       └─ SerialProofs                       (with GroupServerSerial)
 └─ SessionsProofs                             (with Sessions)
MCGroupDB, MCGroupServer, MCGroupServerSerial, MCSessions    instances for TLC
```

The two halves meet in one place: a group handler begins with
`clients[i].is_logged_in` and passes `clients[i].username` on.  `Sessions` says that
this name is the right one (`ServedAsSelf`), and `GroupServer` begins there: a
call is made by a registered name.

**GroupRecords.**  A file is a sequence of records, a position an index, 0 "not
found".  The code finds records by a scan to the first match; `ActiveGroupAt`,
`ActiveMemberAt`, `RequestAt`, `InviteAt` are those scans.  `NextIdAfter` is how
`init_group_db` finds the next id.

`delete_group`'s pass over the members deserves a word.  It loops over all active
members of the group, but after a match it seeks by `sizeof(MemberRecord)` (56
bytes, the wire struct) where the file's record `MemberRecordDB` has 80.  The first
match is written in the right place, because the position is computed before the
read; everything read after it is misaligned by 56 bytes.  A window of 80 bytes then
begins at `is_admin` of a record j, which it takes for the group id, and its
`is_active` lies on bytes 44 to 47 of the user name of record j + 1.  Those bytes
are padding, zero, unless that name has more than 44 characters (`MAX_USERNAME`
admits 49).  So there are two cases:

* Names of at most 44 characters: exactly one record is deactivated.
* In group 1 (the value of an admin flag), with an admin's record anywhere from the
  one just ended on and a longer name in the record behind it: the window matches, the pass
  clears "`is_active`", that is bytes 44 to 47 of the name, and writes the window
  back.  **The neighbour, a member of whatever group, is from then on known under the
  first 44 characters of its name**: it is no member under its own name any more.
  The next seek, 56 bytes further, puts four characters of a name where the group id is
  read, so there is no third match.

The model has both.  `Prefix44` maps each name to its first 44 characters;
`LongName` are those it changes.  `FirstActiveMemberAt` is the first match, `MisreadAt`
the second, `Misread` what is then in hand, `StoreMisread` its write, which touches
the end of one record and the beginning of the next; `EndMembers` is all of
it in one step.  `GroupServer` has a step for each of the two reads and writes
(`DG_ReadMember`, `DG_WriteMember`, `DG_Next`, `DG_Cut`).  `ShortNames` says that no
name is long, and is a hypothesis of the theorems that are false without it.

**GroupDB.**  One action per command that changes a file: the handler's checks,
the call and its writes together.  A refused call is no step.  `LeaveAsMember`
and `LeaveAsOwner` are the two branches of `leave_group`.  `DecideInvitation`
adds the invitee in the name of the owner as of now, as the code does.
`Restart` is `init_group_db` on the existing files.

**RequestBook.**  Entries numbered 1, 2, 3, …; at most one waiting per group and
user; `Submit` and `DecideEntry`.  A crash is not a step of it.

**GroupServer.**  `pc[t]` is the next file access of the thread, `loc[t]` the
arguments and locals of the call it runs.  The label's first two letters name
the function (`cg` `create_group`, `am` `add_member_to_group`, `rm` remove, `lv`
leave, `dg` delete, `to` transfer, `rj` request to join, `dj` decide it, `iv`
invite, `di` decide it, `lg` list
groups, `lm` members, `lr` join requests, `ln` invitations).  `AddDone` and `AddFailed` are the return of
`add_member_to_group` to one of its three callers.  What is one step:

* *a scan*: stdio reads a file that fits its buffer in one `read`, so a scan sees
  one state of the file (files of the model have a handful of records; real ones
  up to 4096 bytes behave so);
* *an append*: `O_APPEND`, flushed by `fclose`;
* *an update in place*: **two** steps, the scan that copies the record and the
  write of the whole copy at its position;
* `next_group_id++`: **two** steps, as no mutex or atomic guards it; the two other
  counters are only touched under their mutex and are part of its step;
* `transfer_group_owner`'s pass over the members: it writes each match before it
  reads what is behind it, so it is a loop of scan and write.

`OpenFails(t)` is the `fopen` of the thread's next step failing, at any of the labels in
`MayFail`, with what the code does then: it returns (`OpenOrReturn`), unlocks and
returns (`OpenAfterLock`, `OpenFailsInside`), refuses the addition, or takes the lookup
for a "no" and goes on (`OpenOrNo`).  An addition that cannot open
`groups.dat` succeeds without being counted, and so on: each as in the source.

`Crash` ends all threads between any two steps, keeps the files and starts
`init_group_db` again.

The listings change no file but they hold mutexes, and they read a file twice: once
to count, once to copy into the array made for that many.  `loc[t].count` and
`loc[t].listed` are what the passes found.  `list_join_requests_for_owner` opens
`groups.dat` for every pending request in both passes, so each pending request is
a step of its own.  What a listing prints is left out.

**GroupServerSerial** adds the variable `settled`, the files and counters when no
call was running last, and lets a call begin, or the process stop, only then.  All
its files open: a call whose second file does not open is done by half, and no step
of `GroupDB`.

**UserRecords, AccountBook.**  `users.dat` and its scans, again to the *first*
record of a name.  The digest of a password is modelled as an injective
constructor.  `AccountBook` has accounts that are opened under a free name and keep
their digest for good, and seats taken in the name of an account.

**Sessions.**  Clients, connections and the server's threads together.

| Variable | In the code |
|---|---|
| `cl[c]` | the globals of a client program, where it is (menu, waiting for a reply, gone) and what it asked |
| `link[c]` | the connection: waiting in the backlog, accepted, closed by the server |
| `inbox[c]`, `outbox[c]` | the two streams of the connection, message by message |
| `sockets[d]` | the server's open descriptors and whose they are |
| `clients`, `next_session_id` | the same |
| `pc[i]`, `loc[i]` | the thread that serves slot `i`; it is named by its slot because only it gives the slot back |
| `users` | `data/users.dat` |

One step is one critical section of `clients_mutex`, one access to `users.dat`, one
message sent or received, or one pass of the accept loop.  The server's thread
goes `recv` → handler → `reply` → `recv`, and to `cleanup` at a logout, a lost
connection or a message cut short.  What to know about it:

* A message that was sent in two parts with the sender killed between them is the
  message `Truncated`; the thread that receives it ends.
* A killed server (`Crash`) closes all connections, forgets the table and the counter
  and keeps `users.dat`; it stands for any kill, the SIGPIPE of a reply to a client
  that is gone included.  `Quit` is the same for the client.
* A send to a connection that is already closed may succeed.  The client then waits,
  and gets "Failed to receive response".  This is what happens to a login typed
  after a logout: the client offers it, and the server has closed the socket or will.
* `Reject` is `add_client` failing on a full table, or `pthread_create` failing after
  it, which gives the slot back and closes the connection in the accept loop.
* Closing a descriptor and freeing the slot is one critical section, as in
  `remove_client`; the next `accept` gets the lowest free number.
* `accept` itself runs outside `clients_mutex`, so it can be given a number that
  `remove_client` has closed while the slot still holds it.  The model has accept and
  `add_client` as one step, after `remove_client` as a whole: the window is not explored.
  Everything that looks into the table for a free slot waits for the mutex
  that `remove_client` holds all through it.
* The thirteen group commands are the one message `GroupCmd` and one step, since
  all begin with the same check and answer once.
* `OpenFails(i)` is an `fopen` of `users.dat` failing: `user_exists` says "no",
  `register_user` and `authenticate_user` answer with an error.

Not in the models' records: group names and time stamps (nothing reads them but
the listings), `is_active` of a user (always 1).  User names are shorter than the
fields that hold them (`MAX_USERNAME`, 50); that those of more than 44 characters are
not safe is said under `GroupRecords`.

## 3. Runs

| Run | Instance | Shows |
|---|---|---|
| `group_db` | 3 names (2 registered), 2 groups, 3 member records, 2 requests, 2 invitations | all invariants of `GroupDB`, `DecisionsAreFinal`, `OwnerLeavesLast`, `RemovalIsFinal` |
| `server` | 2 threads, all commands, 3 calls, 1 crash; u1 owns a group with u2, u3 asked to join and was invited; u2 has a long name; the `fopen`s whose failure leaves something half done may fail | `TypeOK` (with: the holder of a mutex is exactly the thread in its critical section), `EntryIsCurrent`, `ApprovedHasMember`, `NoOrphanMember`, `RecordsKeepIdentity`, `PendingListsAreCurrent`, and that the request files implement `RequestBook` |
| `server_liveness` | the same, 2 calls, short names, every `fopen` may fail, `FairSpec` | `MutexIsReleased` |
| `server_joins` | 2 threads, 3 registered names, requests and their decisions only, 5 calls, 1 crash; every `fopen` may fail but the one that looks for the member to be added | one mutex is enough for `OneActiveMembership` and `CountNeverOverstates` |
| `server_serial` | 1 thread, 2 names (one long), all commands, 6 calls from empty files, 1 restart | `GroupServerSerial` implements `GroupDB` |
| `sessions` | 3 clients, 2 slots, 3 descriptors, 2 names (1 registered), 2 passwords, 2 requests, 1 crash, session ids 0…3; the `fopen`s of an append and of a login may fail | `TypeOK`, `SocketsAreOwned`, `SessionIdsDiffer`, `SameUserBothEnds`, `LogoutIsHeard`, `RepliesInStep`, `ServedAsSelf`, `LoginStillValid`, `RegistrationIsDurable`, and that `Sessions` implements `AccountBook` |
| `sessions_liveness` | 2 clients, 1 slot, 1 name, 3 requests, 1 crash, every `fopen` may fail, `FairSpec` | `WaitingEnds`, `SlotComesBack`, and `AccountsAreABook` when `user_exists` cannot open the file |
| `self_transfer` | violated | an owner who transfers to himself loses the admin flag |
| `owner_leaves` | violated | the owner leaves, deleting the group, while a member is being added |
| `two_mutexes` | violated | approval and acceptance of the same user, each under its own mutex, add him twice |
| `group_ids` | violated | two creations at the same time get one id |
| `usernames` | violated | two registrations of one name at the same time both succeed |

**Why the bounds are enough to be interesting.**  The conflicts of this code are
between two calls: two threads, and a third call to observe or to prepare, cover
every pair of commands from every command's outcome, with a kill at any point.
The seeded directory puts the first call where something can go wrong: a group
with two members, a pending request and a pending invitation of the same
outsider.  `group_db` starts from nothing and reaches joins by all three ways,
departure and rejoining (a third member record), deletion, and two requests of one
user.  Six serial calls are the shortest way to a group created, joined by
request or invitation, transferred and left by both.  The limits `MaxGroups`,
`MaxMembers`, `MaxRequests`, `MaxInvites`, `MaxCalls` and `MaxCrashes` are bounds
of the models, not of the code; the theorems of section 4 hold for all of them.

In `sessions`, three clients on two slots make a full table, a slot and a
descriptor used again, and two clients that are served at the same time while a
third waits in the backlog.  Two requests (`MaxAsks`, of all clients together; logouts
are not counted) are two registrations of one name that overlap, a registration
and a login, two logins that write the same record back, or a login and what
follows it.  One account is there at the start (`SeedUsers`), so that the first
request can already be a login.  `SessionSpace = 4` stands for 2^32: the counter does
not come round on this instance (each client connects once), and theorem
`DifferentIds` says what remains true of any length of run.  One slot in
`sessions_liveness` makes every second client one that is turned away, and three
requests allow a login, a logout and a login on the dead socket.
`CHECK_DEADLOCK FALSE` is set because the bounded calls run out; that no thread
hangs inside a critical section is what `MutexIsReleased` checks, and that no client
hangs in a receive is what `WaitingEnds` checks.

**Symmetry** is used over user names in `group_db` and over threads in `server`
and `server_joins`, and over clients in `sessions`, where all properties are safety
properties.

**Fairness.**  `FairSpec` has weak fairness of each thread's steps: the kernel
scheduler runs a runnable thread eventually.  Nothing makes a client send a
request, and nothing is assumed about which waiter a mutex goes to (POSIX promises
nothing), so there is no claim that every waiter gets it.  `Sessions` adds weak
fairness of a blocked receive that can return, in the server's threads and in the
client, and of the accept loop, which does nothing else.  Nobody has to type a
command, to exit, or to be killed.

**What the violated runs say.**

* `self_transfer`: `transfer_group_owner` clears the admin flag of the old owner in
  the first branch of an `else if` and sets the new owner's in the second; with
  `new_owner = owner` only the first is taken (`group_db.c:908`).  The header says
  1 is the owner (`group_db.h:29`).
* `owner_leaves`: `leave_group` trusts `member_count`, which `add_member_to_group`
  raises after it appended the member (`group_db.c:810`); the comment at 799
  says the owner leaves only when nobody is left.
* `two_mutexes`: the membership test at `group_db.c:171` and the append after it
  are not one step for two decisions under different mutexes.
* `group_ids`: `next_group_id++` at `group_db.c:74` is not guarded.
* `usernames`: `register_user` looks for the name (`user_db.c:62`) and appends without
  a lock.  Both users are told "Registration successful"; all scans stop at the first
  record, so the second user can not log in.  That is why `RegistrationIsDurable`
  speaks of the name only, and why `AccountsAreABook` holds all the same: the book
  never sees the second record.

**What the code does not promise.**  Three things are no runs of their own, because no
comment or test of the repository claims the contrary:

* `RemovalIsFinal` is checked and proved where calls do not overlap.  With overlap,
  `transfer_group_owner` writes the role back with the whole member record, and
  a removal that falls between its read and its write is undone.
* The two listings without a mutex fill an array made for what an earlier pass
  counted.  `get_group_members` reads `members.dat` twice: a member added in between is
  written behind the array (`group_db.c:360`), one removed leaves an entry unset.
  `get_user_groups` makes room for one group per membership: two groups with one id
  (run `group_ids`) are two matches of one (`group_db.c:319`).  No property says so,
  since it is false as soon as calls overlap and says nothing when they do not.
* `is_member_of_group` answers "no" when it cannot open `members.dat`.  In
  `add_member_to_group` (`group_db.c:171`) that lets a second record of a member
  be appended; `OneActiveMembership` is checked and proved for approvals alone where
  that one `fopen` does not fail (`OnlyApprovals`).

## 4. Proofs

All theorems are about **every** value of the constants: any names, passwords,
clients, slots, descriptors, and any bound on calls, requests and crashes.

### GroupDBProofs: calls one at a time

What the run `group_db` checks: `TypeOK`, `IdsArePositions`, `MemberCountExact`,
`OneActiveMembership`, `OwnerIsMember`, `OnlyOwnerIsAdmin`, `DeletedGroupIsEmpty`,
`OnePendingEach` are invariants, and `DecisionsAreFinal`, `OwnerLeavesLast` and
`RemovalIsFinal` (`EndedForGood`) hold of every step.

The assumptions are the named ones of the modules: registered names are names,
the marker of an undecided record is not one (`NameAssumption`), cutting a name twice is
cutting it once (`PrefixAssumption`), the bounds are natural numbers.  Four theorems
have `ShortNames` for a hypothesis: `NobodyTwice`, `OwnerStaysInside`, `NoStrayAdmin` and
`EndedForGood` speak of members by name, and `delete_group` can cut a name of more
than 44 characters.  What does not depend on a name (counts, ids, that a deleted
group is empty, decisions) is proved without it.

The invariants about groups and members need each other.  That the count stays exact when a
member leaves needs that one record of his is active
(`OneActiveMembership`), that it stays exact after the owner has left needs that no
member of a deleted group can leave it again (`DeletedGroupIsEmpty`), and *that*
needs that the owner, alone by the exact count, is the one the scan of
`delete_group` finds (`OwnerIsMember`).  And all scans stop at a *first* match,
which is *the* match only because ids are positions.  So the inductive invariant is

    IInv == /\ Consistent(groups, members)
            /\ next_group_id = Len(groups) + 1
            /\ RequestsOK(requests, next_join_request_id)
            /\ InvitesOK(invites, next_invite_id)

where `Consistent` (module `GroupFileLemmas`) states all of them together about
two files, with positions in the place of scans: `Counted`, and `Named` if `ShortNames`.  The argument has four layers:

1. `FileLemmas`: what a scan, an append and an update in place do to any file.
   `SelectInSeq` takes the minimum of the matching positions; that a non-empty set
   of naturals has one comes from the well-foundedness of strict inclusion on
   finite sets (`MinNat`).
2. `GroupFileLemmas`, first half: what each scan of the group files returns.
   `NextIdFollows` is the restart: the maximum of 1…n.
3. `GroupFileLemmas`, second half: each update described field by field (`CountChanged`,
   `Appended`, `Deactivated`, `GroupClosed`, `OwnerChanged`, `RolesChanged`,
   `GroupAppended`), and one lemma per update that it keeps `Consistent`
   (`JoinKeepsConsistent`, `DropKeepsConsistent`, `DeleteKeepsConsistent`,
   `TransferKeepsConsistent`, `CreateKeepsConsistent`), `RequestsOK` or `InvitesOK`.
   `LastMember` is the step from "the count is at most 1" to "the owner is alone".
   Above these, one lemma per call: `JoinEffect`, `DropEffect`, `CloseEffect`,
   `TransferEffect` and `CreateEffect` are what a whole call makes of two files, and
   keep `Consistent` (`Joined`, `Dropped`, `Closed`, `HandedOver`, `Created`).  They are
   stated of any two files, so that both `GroupDBProofs` and `SerialProofs` use them.
4. `GroupDBProofs`: one lemma per action of `Next`, then `NextIInv`, the theorem
   `Invariance`, and from it the others.

These theorems are about calls that do not overlap.  `SerialProofs` ties them to the
file-by-file code.

### GroupServerProofs: calls that overlap, and kills

`TypeCorrect` (`TypeOK`), `NoStaleEntry` (`EntryIsCurrent`), `NoStaleListing`
(`PendingListsAreCurrent`), `MemberBeforeApproval` (`ApprovedHasMember`),
`GroupBeforeMember` (`NoOrphanMember`), `NoRecordReplaced` (`RecordsKeepIdentity`),
for any number of threads, calls and kills.

The inductive invariant has a part for the mutexes, one for the files and one for
each thread:

    IInv == /\ pc \in [Thread -> Labels] /\ loc \in [Thread -> CallRecord]
            /\ MutexesFit
            /\ FilesFit(groups, ..., next_invite_id)
            /\ \A t \in Thread : Fit(groups, members, requests, invites, pc[t], loc[t])

* `MutexesFit`: a mutex is with `t` exactly when `t` is between its lock and its
  unlock.  The code has these regions in no variable; `InReq` and `InInv` spell them
  out label by label, `add_member_to_group` called from a decision included.
* `FilesFit`: whole records; requests and invitations numbered by position, with
  the counter behind the last (`next_group_id` is not: two creations can share an id,
  run `group_ids`); members of groups that are there, approvals of members that are.
* `Fit` judges one thread by its label, its locals and the files, and each property
  needs its part: `RequestFit` and `InviteFit` (the entry in hand is the one on disk,
  and pending) for `EntryIsCurrent`; `FoundFit` (the group, or the member, that the
  coming write relies on is on disk) for `NoOrphanMember` and `ApprovedHasMember`;
  `GroupFit` and `MemberFit` (a copy has the identity of the record at the position it
  will be written to) for `RecordsKeepIdentity`.  The identity of a member record is
  its group and the first 44 characters of its name: this is what remains of it when
  `delete_group` cuts a neighbour, and it needs no hypothesis on the names.

The argument is the one of Owicki and Gries, once for all threads.  `FitIsStable`: what
fits one thread goes on fitting while others step, because files only grow, records
keep their identity, and a request file changes only in the hands of its mutex's
holder.  The stale copies this code is full of are harmless *as to identity*; they are
not as to the other fields, and the proof has no such conjunct.  `SoundKeepsIInv`
reduces a step to its own thread, and one lemma for each action shows that.
A kill keeps the files and drops all locals, so `CrashIInv` needs `FilesFit` only.

What is assumed of the directory the server starts on (`SeedAssumption`,
`DirectoryAssumption`): what `FilesFit` says of it and, for `RequestBook`, at most one
pending entry for each user and group.  An empty directory has it, and by
these theorems every directory the server leaves behind has it again.

### RequestBookProofs: the request files are books

`RequestsAreKept` and `InvitationsAreKept`: `GroupServer` implements `RequestBook`,
once for each file.  The append of a record is `Submit`: `RequestFit` carries the
test for a pending request from `rj_lock` to `rj_append` because the mutex is held
all the time.  The write of a decision is `DecideEntry`, on the entry that is still
pending by the same conjunct.  All other steps, a kill included, are stutters.

### ApprovalProofs: where one mutex is enough

`ApprovalsExclude` and `CountedAfterwards`: `OneActiveMembership` and
`CountNeverOverstates` (the run `server_joins`) hold for any number of threads, calls
and kills **if** `OnlyApprovals` holds: no command but requests, their decisions,
invitations sent and listings; and `is_member_of_group` can open its file when an
addition asks it.  The conditions are needed: with `decide_invite` the first
property fails (run `two_mutexes`).  `JoinInv` adds to `IInv`
that the thread about to append has found nobody,
which stays true because no second thread is in `add_member_to_group`
(`AddingAlone`), and that a group about to be counted has one member more than it
counts (`RoomToCount`).

### SerialProofs: a call alone is one step of GroupDB

`CallsAloneAreAtomic` (`CallsAreAtomic`): `GroupServerSerial` implements `GroupDB`, for
any number of threads, names, calls and restarts between calls.  A call
with its checks, its reads into copies and its writes of two or three files has, when
it returns, the effect that `GroupDB` gives it in one step, or none if a check
refused it.  With it, everything `GroupDBProofs` shows of `GroupDB` is shown of the
code's file accesses, as long as calls do not overlap; `InOrderBetweenCalls` states
it of the files themselves, between two calls, for names of at most 44 characters.  The
refinement itself holds for all names: `GroupDB` cuts the neighbour's name as the code
does (`CloseEndedRefines`, `CloseCutRefines`).

The hypothesis `EmptyDirectory` is `GroupDB`'s own `Init`: the first process ever
starts on a data directory without files, and `next_group_id` is 1.  Each later start
is a `Crash` between calls.

The state of `GroupDB` is `settled`, the directory the running call found.
`SerialInv` (theorem `SerialInvariance`) is inductive beside the `IInv` of
`GroupServerProofs` and says:

* at most one call runs (`OneAtATime`), and when none does, `settled` is what is on disk;
* `settled` is in order (`DirectoryOK`: what the `IInv` of `GroupDBProofs` says), and
  no larger than the calls begun can have made it, which keeps `GroupDB` within its
  bounds (`SizesOK`);
* how far the running call is (`Progress`), in five parts: `Caller`, who calls and
  in whose name; `Known`, what the checks passed so far have shown of `settled`;
  `InHand`, which copy of which record the next write puts back; `Written`, what
  the two files are by now, in terms of `settled`; `Numbered`, the id of a group being
  created and the counter.

`Written` is where the order of the writes is: between the two writes of a removal
the member is gone and still counted; in a transfer the group has its new owner and so
many member records their new role (`Swept`).  A step before the last write is a
stutter (`GoesOn`), and the last write, which ends the call, is matched to one action
of `GroupDB` (`AddHappens` … `DecideInviteHappens`), because `Known` holds the guards
and `Written` the effect.  Two things are not obvious.  The pass of a transfer
rewrites records one by one, each found by a scan of the file as the writes before
left it; it ends up where `GroupDB`'s one assignment does because those writes change
no field the scan looks at, and the records it skips are those whose role the assignment
keeps (`RoleType`, `NothingBetween`, `AllSwept`).  And a restart is a stutter because
counters are always one more than the last position (`CountersFound`); the run
`group_ids` is what becomes of that when calls overlap.

### SessionsProofs: clients, threads, accounts

`TypeCorrect`, `Ownership` (`SocketsAreOwned`), `LoginsStayValid` (`LoginStillValid`),
`OneUserAtBothEnds` (`SameUserBothEnds`), `StepForStep` (`RepliesInStep`),
`NobodyElse` (`ServedAsSelf`), `Durability` (`RegistrationIsDurable`), `DifferentIds`
(`SessionIdsDiffer`), `LogoutsAreHeard` (`LogoutIsHeard`), and `AccountsAreKept`: `Sessions` implements `AccountBook`.

The inductive invariant:

    IInv == /\ TypeOK /\ SocketsAreOwned /\ LoginStillValid
            /\ \A i \in Slot : RequestOK(i)
            /\ \A c \in Client : ClientOK(c)
            /\ \A i \in Slot : pc[i] # "none" => Conversation(i, Peer(i))

* `SocketsAreOwned` is needed everywhere: a step of one thread touches the
  connection of one client and of no other only because no two slots share a peer.
* `RequestOK` says which request a thread has in hand at which label.  Without it
  "what the handler answers" has no meaning.
* `ClientOK` holds of a client whether it has a thread or not (in the backlog, after
  a crash, after a rejection): what it waits for is what its menu offers; a reply in
  its stream is one and the right one.  The last part must stay true when other
  clients register (`AccountsStay`: users.dat keeps every account's first record).
* `Conversation` is the heart: client and thread are `Idle`, `Asked`, `Working` or
  `Answered`, with the same user at both ends (`Same`), or the client is gone, or it
  has logged out and the thread has the logout before it or is cleaning up
  (`LoggedOut`).  In the last case the client can send what it likes: nothing of it
  is read, because `Logout` is at the head of the stream and ends the thread.

`RepliesInStep` alone is not inductive, since a stale reply could already be on its
way; that none is, is the content of the four cases.  `LoginStillValid` is what makes
the write-back of `authenticate_user` harmless: the record it writes is the one that
is there (`LoginWriteChangesNothing`), which is why the book's step for it is a
stutter (`BookStep`).

`DifferentIds` is `Spec /\ [](next_session_id # 0) => []SessionIdsDiffer`: while
the counter has not come round, ids of open connections differ and none is 0.
After 2^32 - 1 connections of one process the counter is 0, and the connection that
gets it can not log in, as the client takes 0 for "not logged in".

`LogoutsAreHeard` rests on the same hypothesis, and it is needed: with the id 0 the
client would show no user while it is logged in.  That a slot is logged in while its
client shows nobody has three reasons, and `Heard` lists them: the client is gone,
it has logged out (`LoggedOut`), or it waits and has yet to read the success of its
login, which is the thread's next reply or the one in the stream (`Told`).  Only the
second lets the client be back in its menu, and then `Logout` is what the thread
reads next or what it has just read.

Assumptions: `NoName` is neither a name nor a password, so that `NoHash` is the digest
of no password (`NameAssumption`); the first `users.dat` holds each name once
(`SeedAssumption`), which a directory written by calls that did not overlap does;
at least two session ids; descriptors and the table's length are natural numbers.

### Only model-checked

Every invariant, every step property and every refinement that a run checks is also
proved.  Left to TLC is liveness (`MutexIsReleased`, `WaitingEnds`, `SlotComesBack`),
for which the prover has no rules of fairness, and the five violations, which are
facts about one instance.

## 5. Not modelled

* **File commands**: codes without a handler.  **Build files and sample data**: no
  behaviour.
* **Contents of replies and listings**, menus and texts, SHA-256 itself, byte order
  and lengths of messages.  Messages are whole, cut short or absent.
* **More than `MAX_GROUPS` memberships** of one user (`group_db.c:294`): the code has
  no check there to model, and no instance is that large.
* **`get_user_info`**: nothing calls it.
* **The thirteen group commands and the files at once with sessions**: `Sessions`
  has one group command, `GroupServer` begins at a logged-in user.  Composing the
  state spaces would add no interleaving in which they meet, since no group
  function reads the table or `users.dat` but for `user_exists` in
  `handle_invite_user`, whose result never changes back.
* **A full disk, a failed flush, no memory**: `fwrite` goes to stdio's buffer and succeeds,
  and what `fclose` then says of the write is checked nowhere, so the returns behind
  `fwrite` (`group_db.c:93`, `190`, `482`, `user_db.c:85`) are not taken for a file that
  opened; `malloc` is taken to succeed.
* **Files that do not open at start**: `init_group_db` and `init_user_db` then make
  `main` give up.
* **`accept` between the close and the freeing of a slot**, see `Sessions` above.
* **Partial writes of a record** by a kill inside `fwrite`: a record is smaller than
  stdio's buffer, so it goes out in one `write`.
* **Another process** on the same directory.
