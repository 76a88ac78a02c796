--------------------------- MODULE MCGroupServer ---------------------------
(* Data directories and command sets for the runs of GroupServer. *)
EXTENDS GroupServer

CONSTANTS u1, u2, u3, u4

AllCommands == DOMAIN Entry
JoinCommands == {"request_join", "decide_request"}
DecideCommands == {"decide_request", "decide_invite"}

(* u1 owns group 1, u2 is in it. *)
OneGroup   == <<[NewGroup(1, u1) EXCEPT !.member_count = 2]>>
TwoMembers == <<NewMember(1, u1, TRUE), NewMember(1, u2, FALSE)>>

(* u1 owns group 1 and is alone in it. *)
AloneGroup == <<NewGroup(1, u1)>>
OneMember  == <<NewMember(1, u1, TRUE)>>

(* The threads are interchangeable. *)
Symmetry == Permutations(Thread)

(* No name has more than 44 characters, or only u2's has, and u4 is what   *)
(* delete_group can leave of it.                                           *)
AllShort == [n \in Name |-> n]
U2IsLong == [n \in Name |-> IF n = u2 THEN u4 ELSE n]

(* Every fopen may fail, or none. *)
AnyOpen == Labels
NoOpen  == {}

(* The fopens whose failure leaves something half done: those of           *)
(* create_group, those of an addition before its count, and those under a  *)
(* mutex past its first.                                                   *)
OpenHalfway ==
  DOMAIN OpenInside \cup {"cg_group", "cg_member", "am_owner", "am_append",
                          "lr_count", "lr_fill"}

(* Every fopen but the one is_member_of_group makes for an addition. *)
OpenSeesMembers == Labels \ {"am_member"}

Empty == <<>>

(* u3 waits for u1's answer and was asked by u1 to join. *)
OneRequest == <<NewRequest(1, 1, u3)>>
OneInvite  == <<NewInvite(1, 1, u1, u3)>>
=============================================================================
