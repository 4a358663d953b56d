-------------------------- MODULE MCPurchaseRecode --------------------------
(* Small instances of PurchaseRecode for TLC. *)
EXTENDS PurchaseRecode, TLC

\* Items, lines and request threads are interchangeable: no definition names one.
\* Only for safety: the run that checks liveness does without.
Symmetry == Permutations(Item) \cup Permutations(Line) \cup Permutations(Confirmer)
=============================================================================
