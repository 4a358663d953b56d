-------------------------- MODULE MCBillCompletion --------------------------
(* Small instances of BillCompletion for TLC. *)
EXTENDS BillCompletion, TLC

\* Requests, ticks and bills are interchangeable: no definition names one.
Symmetry == Permutations(Request) \cup Permutations(Tick) \cup Permutations(Bill)
=============================================================================
