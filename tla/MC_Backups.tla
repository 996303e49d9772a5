----------------------------- MODULE MC_Backups -----------------------------
(* Backups, with what a file holds besides a text as model values. *)
EXTENDS Backups, TLC
=============================================================================
