------------------------------ MODULE MCInbox ------------------------------
(* Instances of Inbox for TLC: the configurations the user may save.        *)
EXTENDS Inbox

Move == [copy |-> FALSE, dry |-> FALSE]
Copy == [copy |-> TRUE, dry |-> FALSE]
DryCopy == [copy |-> TRUE, dry |-> TRUE]

MoveOnly == {Move}
CopyOnly == {Copy}
CopyAfterDry == {DryCopy, Copy}
=============================================================================
