---------------------------- MODULE MCQboOutbox ----------------------------
(* Small instances of QboOutbox for TLC. *)
EXTENDS QboOutbox, TLC

\* Producers, workers and bills are interchangeable: no definition names one.
Symmetry == Permutations(Producer) \cup Permutations(Worker) \cup Permutations(Bill)
=============================================================================
