---------------------------- MODULE MC_CodexCache ----------------------------
(***************************************************************************)
(* CodexCache on two folder trees.  In both, the codex has a file in a     *)
(* folder of its own; codex-old, whose path starts with the codex's, is    *)
(* the other folder the setting may name.                                  *)
(***************************************************************************)
EXTENDS CodexCache, TLC

CONSTANTS hero, draft, codex, people, old, notes, v

BothRoots == {codex, old}
OneContent == {v}
BothFiles == {hero, draft}

\* codex/people/hero, codex-old/draft
FlatFolders == {codex, people, old}
FlatIn == hero :> people @@ draft :> old @@ codex :> None @@ people :> codex @@ old :> None
FlatBelow == hero :> {hero} @@ draft :> {draft}
               @@ codex :> {codex, people, hero} @@ people :> {people, hero}
               @@ old :> {old, draft}
StartsWithRoot == codex :> {codex, people, hero, old, draft} @@ old :> {old, draft}

\* The same in a folder: notes/codex/people/hero, notes/codex-old/draft
NestedFolders == FlatFolders \cup {notes}
NestedIn == [FlatIn EXCEPT ![codex] = notes, ![old] = notes] @@ notes :> None
NestedBelow == FlatBelow @@ notes :> (NestedFolders \cup BothFiles)
=============================================================================
