---------------------------- MODULE MCBoxOutbox ----------------------------
(* Instances of BoxOutbox for TLC. *)
EXTENDS BoxOutbox, TLC

CONSTANTS d1, d2, f1, f2

\* An attachment that is first asked for in one folder, then in another.
Moving == {<<d1, f1>>, <<d1, f2>>}
\* Two attachments for one folder.
Beside == {<<d1, f1>>, <<d2, f1>>}

OwnName == [d \in Doc |-> d]
\* A bill with several lines names all its attachments alike.
SameName == [d \in Doc |-> d1]

\* Workers and lines are interchangeable, and so are folders where every attachment may
\* be asked for in every folder, as in Moving.
Symmetry == Permutations(Worker) \cup Permutations(Line)
FolderSymmetry == Symmetry \cup Permutations(Folder)

\* At most three of: changes of the invoices' lines, things people do, faults.
FewUpsets == moves + touches + trouble <= 3
=============================================================================
