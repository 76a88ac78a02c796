------------------------- MODULE GroupServerSerial -------------------------
(***************************************************************************)
(* GroupServer while calls do not overlap: a call begins only when no      *)
(* other one runs, the process stops only between calls, and every file    *)
(* opens.  This is what one client at a time sees, and it implements       *)
(* GroupDB.                                                                *)
(*                                                                         *)
(* A call writes several files one after the other, so that the state of   *)
(* GroupDB is the contents of the files when the last call ended.          *)
(***************************************************************************)
EXTENDS GroupServer

VARIABLE settled    (* <<disk, counters>> when no call was running last.   *)

Quiet == \A t \in Thread : pc[t] = "idle"

SerialInit == Init /\ settled = <<disk, counters>>

SerialNext ==
  /\ \/ Quiet /\ Crash
     \/ Quiet /\ \E t \in Thread : Begin(t)
     \/ \E t \in Thread : Step(t)
  /\ settled' = IF Quiet' THEN <<disk, counters>>' ELSE settled

SerialSpec == SerialInit /\ [][SerialNext]_<<vars, settled>>

(* Every call, run alone from its first check to its last write, has the   *)
(* effect that GroupDB gives it in one step, or none: no order of its      *)
(* checks and writes and no copy it holds makes a difference.              *)
DB == INSTANCE GroupDB WITH
  MaxGroups <- MaxCalls, MaxMembers <- MaxCalls,
  MaxRequests <- MaxCalls, MaxInvites <- MaxCalls,
  groups <- settled[1][1], members <- settled[1][2],
  requests <- settled[1][3], invites <- settled[1][4],
  next_group_id <- settled[2][1], next_join_request_id <- settled[2][2],
  next_invite_id <- settled[2][3]

CallsAreAtomic == DB!Spec
=============================================================================
