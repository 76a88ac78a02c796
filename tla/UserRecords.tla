---------------------------- MODULE UserRecords ----------------------------
(***************************************************************************)
(* data/users.dat and the scans server/user_db.c makes over it.  The file  *)
(* is a sequence of records: register_user appends one, authenticate_user  *)
(* rewrites one in place, and both find a name by reading from the start   *)
(* to the FIRST record that has it.                                        *)
(*                                                                         *)
(* Left out of the records: the time stamps, which nothing compares, and   *)
(* is_active, which is 1 in every record the program writes.               *)
(*                                                                         *)
(* UserAt_Last is UserAt with a plausible mistake in it, see Sessions.     *)
(***************************************************************************)
EXTENDS Integers, SequencesExt

CONSTANTS
  Name,       (* The names typed by users; shorter than MAX_USERNAME.      *)
  Password,   (* The passwords they type.                                  *)
  NoName

ASSUME NameAssumption == NoName \notin Name /\ NoName \notin Password

(* SHA-256 in hexadecimal: different passwords give different digests.     *)
hash_password(p) == [sha256 |-> p]

Hash == {hash_password(p) : p \in Password}

UserRecord == [username : Name, password_hash : Hash]

NewUser(n, p) == [username |-> n, password_hash |-> hash_password(p)]

UserAt_Last(users, n) == SelectLastInSeq(users, LAMBDA r : r.username = n)

(* Where a scan of the file finds a name, 0 when it does not. *)
UserAt(users, n) == SelectInSeq(users, LAMBDA r : r.username = n)

user_exists(users, n) == UserAt(users, n) # 0

(* What authenticate_user compares: the digest of the first record alone.  *)
Authentic(users, n, p) ==
  user_exists(users, n) /\ users[UserAt(users, n)].password_hash = hash_password(p)
=============================================================================
