----------------------------- MODULE MC_TextFile -----------------------------
(* TextFile with room for two saves at a time. *)
EXTENDS TextFile, TLC

CONSTANTS s1, s2

TwoSlots == {s1, s2}
=============================================================================
