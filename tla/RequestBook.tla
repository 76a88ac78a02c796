---------------------------- MODULE RequestBook ----------------------------
(***************************************************************************)
(* What server/group_db.c promises of the join requests, and in the same   *)
(* words of the invitations: a book of entries numbered 1, 2, 3, ... in    *)
(* the order they were made, at most one of them waiting for a decision    *)
(* for each group and user, each decided once.  A crash or a restart of    *)
(* the server is not a step of the book.                                   *)
(***************************************************************************)
EXTENDS GroupRecords

CONSTANT GroupId    (* The ids that requests name. *)

VARIABLE book

BookEntry == [id : Nat, group_id : GroupId, who : Name, status : Status,
              reviewed_by : Name \cup {NoName}]

Waiting(b, g, w) ==
  \E i \in DOMAIN b : b[i].group_id = g /\ b[i].who = w /\ b[i].status = Pending

NumberedInOrder(b) == \A i \in DOMAIN b : b[i].id = i

OneWaitingEach(b) ==
  \A i, j \in DOMAIN b :
    /\ b[i].status = Pending /\ b[j].status = Pending
    /\ b[i].group_id = b[j].group_id /\ b[i].who = b[j].who
    => i = j

(* A server may start with the book an earlier one left. *)
Init ==
  /\ book \in Seq(BookEntry)
  /\ NumberedInOrder(book)
  /\ OneWaitingEach(book)

Submit(g, w) ==
  /\ ~Waiting(book, g, w)
  /\ book' = Append(book, [id |-> Len(book) + 1, group_id |-> g, who |-> w,
                           status |-> Pending, reviewed_by |-> NoName])

DecideEntry(i, approve, by) ==
  /\ book[i].status = Pending
  /\ book' = Decide(book, i, approve, by)

Next ==
  \/ \E g \in GroupId, w \in Name : Submit(g, w)
  \/ \E i \in DOMAIN book, approve \in BOOLEAN, by \in Name :
       DecideEntry(i, approve, by)

Spec == Init /\ [][Next]_book
=============================================================================
