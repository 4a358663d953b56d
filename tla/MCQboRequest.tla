---------------------------- MODULE MCQboRequest ----------------------------
(* Small instances of QboRequest for TLC. *)
EXTENDS QboRequest
=============================================================================
