------------------------ MODULE MC_WritingAssistant ------------------------
(* WritingAssistant with two keys, one of them left by an earlier build. *)
EXTENDS WritingAssistant, TLC

CONSTANTS old, new, u1, u2

BothKeys == {old, new}
OneKey == {old}
OneUrl == {u1}
TwoUrls == {u1, u2}
=============================================================================
