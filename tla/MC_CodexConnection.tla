------------------------- MODULE MC_CodexConnection -------------------------
(* CodexConnection with two openings of one process. *)
EXTENDS CodexConnection

\* Builds with no, one and two migrations.
Builds == 0..2
=============================================================================
