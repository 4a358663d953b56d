----------------------------- MODULE MCQboPull -----------------------------
(* Small instances of QboPull for TLC. *)
EXTENDS QboPull
=============================================================================
