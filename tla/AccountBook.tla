---------------------------- MODULE AccountBook ----------------------------
(***************************************************************************)
(* What the server promises of accounts and logins: an account is opened   *)
(* under a name that is free and keeps its password for good, and a seat   *)
(* (a connection's slot) is taken in the name of an account that exists.   *)
(* Restarting the server empties the seats and no more.                    *)
(***************************************************************************)
EXTENDS UserRecords

CONSTANTS
  NoHash,   (* The password of a name without an account.                  *)
  Slot      (* The seats.                                                  *)

VARIABLES account, seat

(* A server may start with the accounts an earlier one left. *)
Init ==
  /\ account \in [Name -> Hash \cup {NoHash}]
  /\ seat = [i \in Slot |-> NoName]

OpenAccount(n, h) ==
  /\ account[n] = NoHash
  /\ account' = [account EXCEPT ![n] = h]
  /\ UNCHANGED seat

TakeSeat(i, n) ==
  /\ account[n] # NoHash
  /\ seat' = [seat EXCEPT ![i] = n]
  /\ UNCHANGED account

LeaveSeats(S) ==
  /\ seat' = [i \in Slot |-> IF i \in S THEN NoName ELSE seat[i]]
  /\ UNCHANGED account

Next ==
  \/ \E n \in Name, h \in Hash : OpenAccount(n, h)
  \/ \E i \in Slot, n \in Name : TakeSeat(i, n)
  \/ \E S \in SUBSET Slot : LeaveSeats(S)

Spec == Init /\ [][Next]_<<account, seat>>
=============================================================================
