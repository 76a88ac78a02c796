------------------------ MODULE MCGroupServerSerial ------------------------
(* One data directory, empty, for the run of GroupServerSerial. *)
EXTENDS GroupServerSerial

CONSTANTS u1, u2

(* u2's name is long and begins with the whole of u1's. *)
U2IsLong == [n \in Name |-> IF n = u2 THEN u1 ELSE n]

NoOpen == {}

AllCommands == DOMAIN Entry
Empty == <<>>
=============================================================================
