----------------------- MODULE MC_MarkdownEditorSync -----------------------
(* MarkdownEditorSync on a few panels and contents. *)
EXTENDS MarkdownEditorSync, TLC

CONSTANTS a, b, p, q

ThreeContents == {Empty, a, b}
TwoContents == {Empty, a}
AllActs == {"type", "editElsewhere", "save"}
TypingOnly == {"type"}
OnePanel == {p}
TwoPanels == {p, q}

\* Panels are alike, and so are contents other than the empty one.
Symmetry == Permutations({p, q}) \cup Permutations({a, b})
=============================================================================
